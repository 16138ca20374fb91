----------------------------- MODULE MCStartup -----------------------------
(***************************************************************************)
(* Root tables for the run of Startup, on pages of 4: with and without the *)
(* table of the APIC, first or last, with a wrong checksum, and so that    *)
(* the last table of the memory ends in the page after the one it begins   *)
(* in, or the last entry of the root table lies in its second page.        *)
(***************************************************************************)
EXTENDS Startup

Table(sig, place, len, valid, seen) ==
    [sig |-> sig, at |-> place, len |-> len, valid |-> valid, seen |-> seen]

MCRsdt ==
    {<<>>, <<Table("FACP", 2, 2, TRUE, TRUE)>>, <<Table("APIC", 2, 2, TRUE, FALSE)>>} \cup
    {<<Table("FACP", 6, 3, TRUE, TRUE), Table("APIC", place, 2, valid, seen)>> :
        place \in {1, 3, 10, 11}, valid \in BOOLEAN, seen \in BOOLEAN}
=============================================================================

------------------------ MODULE MCInterfaceAssignment ------------------------
(* The instance of InterfaceAssignment for TLC. *)
EXTENDS InterfaceAssignment, TLC

CONSTANTS r1, r2, lan, opt1, opt2, d0, d1, d2, d3, n1, n2, a, b

Block(s, d, n, v) == [section |-> s, device |-> d, descr |-> n, addr |-> v]

\* r2 may be moved to another device and is then found by its description.
TwoBlocks == (r1 :> {Block(opt1, d1, n1, a)})
             @@ (r2 :> {Block(opt2, d2, n2, a), Block(opt2, d3, n2, None)})

\* The management interface alone; it has no description.
Vacant == [s \in Section |->
    IF s = lan THEN [device |-> d0, descr |-> Blank, addr |-> a] ELSE None]

\* The section r2 declares binds the device r1 declares.
Crossed == [Vacant EXCEPT ![opt2] = [device |-> d1, descr |-> Blank, addr |-> a]]

Worlds == {Vacant, Crossed}
=============================================================================

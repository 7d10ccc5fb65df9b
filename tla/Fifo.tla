-------------------------------- MODULE Fifo --------------------------------
(***************************************************************************)
(* What the ring between Linux and JRT promises: a queue of at most SIZE   *)
(* requests that come out in the order they went in, each exactly once.    *)
(* It is emptied when the module is loaded again; once that has happened   *)
(* to a ring in use it promises nothing.                                   *)
(***************************************************************************)
EXTENDS Naturals, Sequences

CONSTANTS SIZE, Recs, NoRec
VARIABLES q, taken, cleared, broken

vars == <<q, taken, cleared, broken>>

Init == q = <<>> /\ taken = NoRec /\ cleared = 0 /\ broken = FALSE

Send(r) ==
  /\ Len(q) < SIZE
  /\ q' = Append(q, r)
  /\ UNCHANGED <<taken, cleared, broken>>

Take ==
  /\ q # <<>> /\ taken = NoRec
  /\ taken' = Head(q)
  /\ q' = Tail(q)
  /\ UNCHANGED <<cleared, broken>>

(* The request that was taken becomes a process.                           *)
Serve ==
  /\ taken # NoRec
  /\ taken' = NoRec
  /\ UNCHANGED <<q, cleared, broken>>

Clear ==
  /\ q' = <<>>
  /\ cleared' = cleared + 1
  /\ UNCHANGED <<taken, broken>>

Break == broken'

Next == Take \/ Serve \/ Clear \/ Break \/ \E r \in Recs : Send(r)

Spec == Init /\ [][Next]_vars
=============================================================================

------------------------- MODULE PublishedRegister -------------------------
(***************************************************************************)
(* What a published configuration promises to the programs that read it.   *)
(*                                                                         *)
(* The runtime endpoint serves one key of one project.  Seen from outside  *)
(* it is an atomic register: a generation number and the value published   *)
(* in that generation, None while nothing is published.  Publishing and    *)
(* withdrawing advance the generation by exactly one; editing the draft,   *)
(* taking, loading and deleting snapshots, importing, deleting and         *)
(* re-creating the configuration do not change it.  A read that succeeds   *)
(* returns the generation and the value the register has at one instant    *)
(* between the arrival of the request and its answer.                      *)
(***************************************************************************)
EXTENDS Naturals

CONSTANTS Readers, Values, None

VARIABLES gen, value, reads

regVars == <<gen, value, reads>>

Pending == [st |-> "pending", gen |-> 0, value |-> None]

Failed == [st |-> "failed", gen |-> 0, value |-> None]

Answer(g, v) == [st |-> "served", gen |-> g, value |-> v]

RegInit ==
    /\ gen = 0
    /\ value = None
    /\ reads = [r \in Readers |-> Failed]

\* A publication or a withdrawal commits.
Write(v) ==
    /\ gen' = gen + 1
    /\ value' = v
    /\ UNCHANGED reads

Begin(r) ==
    /\ reads[r].st # "pending"
    /\ reads' = [reads EXCEPT ![r] = Pending]
    /\ UNCHANGED <<gen, value>>

Serve(r) ==
    /\ reads[r].st = "pending"
    /\ value # None
    /\ reads' = [reads EXCEPT ![r] = Answer(gen, value)]
    /\ UNCHANGED <<gen, value>>

\* Nothing is published, the key or the cache refused, or the request timed out.
Fail(r) ==
    /\ reads[r].st = "pending"
    /\ reads' = [reads EXCEPT ![r] = Failed]
    /\ UNCHANGED <<gen, value>>

RegNext ==
    \/ \E v \in Values \cup {None} : Write(v)
    \/ \E r \in Readers : Begin(r) \/ Serve(r) \/ Fail(r)

RegSpec == RegInit /\ [][RegNext]_regVars
=============================================================================

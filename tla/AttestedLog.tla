---------------------------- MODULE AttestedLog ----------------------------
(***************************************************************************)
(* What the run ledger promises, without threads, locks or hashes: an      *)
(* append-only list of observations, numbered 1, 2, 3, ... in the order    *)
(* they were entered, in which a person may annotate an entry as often as  *)
(* they like and can change nothing else.                                  *)
(***************************************************************************)
EXTENDS Naturals, Sequences

CONSTANTS Observation,  \* what a machine can have observed, its number aside
          Attestation,  \* what a person can say of an entry
          Unattested    \* what is said of an entry nobody looked at yet

VARIABLE book

Entry == [seq : Nat \ {0}, seen : Observation, confirmed : Attestation]

Init == book = <<>>

(* Enter one observation at the end, under the next number.                *)
Enter(obs) ==
  book' = Append(book, [seq |-> Len(book) + 1, seen |-> obs,
                        confirmed |-> Unattested])

(* Annotate the i-th entry.                                                *)
Annotate(i, said) == book' = [book EXCEPT ![i].confirmed = said]

Next == \/ \E obs \in Observation : Enter(obs)
        \/ \E i \in DOMAIN book, said \in Attestation : Annotate(i, said)

Spec == Init /\ [][Next]_book
=============================================================================

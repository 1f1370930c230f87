-------------------------- MODULE MCMintLifecycle --------------------------
(* Model checking of MintLifecycle on small sets of rows, charges and      *)
(* submissions.  Ids are interchangeable, so runs that check no liveness    *)
(* use the symmetry of the sets of ids.                                     *)
EXTENDS MintLifecycle, TLC

MCSymmetry ==
  Permutations(Mints) \cup Permutations(Clients) \cup Permutations(Deductions)
    \cup Permutations(Submissions)

\* Two requests race: of the three mutations that take mints from the queue the
\* batch stands for all, they share their steps.
RacingOps == AllOps \ {"mint_random_queued_to_drop", "mint_queued"}

QueueOps == {"queue_mint_to_drop", "mint_queued"}
=============================================================================

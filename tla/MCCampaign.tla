----------------------------- MODULE MCCampaign -----------------------------
(* Small instances of Campaign for TLC. *)
EXTENDS Campaign, TLC

Symmetry == Permutations(Crons) \cup Permutations(Presses) \cup Permutations(Orders)
            \cup Permutations(Sends) \cup Permutations(Contacts)
=============================================================================

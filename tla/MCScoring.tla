----------------------------- MODULE MCScoring -----------------------------
(* The tenant files of the Scoring runs: the default, lopsided weights that *)
(* divide badly, shifted bands and thresholds, and files startup refuses.   *)
EXTENDS Scoring

Weigh(wh, cs, ns, ds, cl) ==
    [weights |-> [what_happened |-> wh, client_said |-> cs, next_step_date |-> ns,
                  deal_specifics |-> ds, clarity |-> cl]]
Cut(poor, fair, good) ==
    [band_boundaries |-> <<<<"poor", poor>>, <<"fair", fair>>, <<"good", good>>, <<"excellent", 100>>>>]
Thresholds(flag, accept) == [flag_threshold |-> flag, accept_threshold |-> accept]

AcceptedFiles ==
    {Thresholds(40, 70), Thresholds(0, 1), Thresholds(99, 100), Cut(0, 1, 2), Cut(33, 50, 99),
     [enforcement_mode |-> "off"], [enforcement_mode |-> "strict"],
     Weigh(20, 20, 20, 20, 20), Weigh(33, 33, 33, 1, 0), Weigh(0, 0, 7, 86, 7),
     Weigh(1, 96, 1, 1, 1), Weigh(7, 11, 13, 29, 40), Weigh(1, 1, 1, 97, 0),
     Weigh(3, 7, 83, 0, 7) @@ Cut(12, 13, 97) @@ Thresholds(13, 98)}

RefusedFiles ==
    {Weigh(25, 20, 25, 20, 11), Weigh(0, 0, 0, 100, 0), Weigh(-1, 21, 25, 20, 35),
     Cut(50, 50, 60), Thresholds(70, 70), Thresholds(40, 101),
     [min_note_chars |-> 30, max_note_chars |-> 30]}

\* Weights that vanish with the components a no_contact note suppresses.
UnscorableFiles == {Weigh(50, 50, 0, 0, 0)}

MCFiles == AcceptedFiles \cup RefusedFiles \cup UnscorableFiles
=============================================================================

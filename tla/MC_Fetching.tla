---------------------------- MODULE MC_Fetching ------------------------------
(***************************************************************************)
(* Two fetches from two local files, one ZIP reader and two mirrors.       *)
(***************************************************************************)
EXTENDS Fetching

MCChain == <<"file", "zip", "http">>

\* Archive 1 holds 2, which holds an entry that cannot be opened, and 3,
\* which holds itself: only the depth limit and the budget end its search.
\* Archive 5 is missing.  Archive 6 ends with a member that is too large, and
\* archive 7 holds 8, which holds an entry that is encrypted.
Member(a, s) == [arc |-> a, size |-> s, read |-> "ok"]
MCArchives == 1..8
MCLayouts == {<<5, 1, 6>>, <<6>>, <<4>>, <<7>>}
MCNested == <<  <<Member(2, 1), Member(3, 2)>>,
                << [Member(4, 1) EXCEPT !.read = "damaged"] >>,
                <<Member(3, 1), Member(4, 2)>>,
                <<>>, <<>>, <<Member(4, 1), Member(3, 3)>>,
                <<Member(8, 1)>>, << [Member(4, 1) EXCEPT !.read = "raises"] >> >>

\* One MIB is in no archive that can be read, one in archive 6 and encrypted in
\* archive 4, one is too large in archive 4.
MCNames == {"m1", "m2", "m3"}
MCMib ==
    [n \in MCNames |-> [a \in MCArchives |->
        CASE n = "m1" /\ a = 4 -> "damaged"
          [] n = "m2" /\ a = 6 -> "text"
          [] n = "m2" /\ a = 4 -> "raises"
          [] n = "m3" /\ a = 4 -> "large"
          [] OTHER -> "none"]]
=============================================================================

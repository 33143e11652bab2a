----------------------------- MODULE MCThreadPool -----------------------------
(* ThreadPool by itself, where nobody begins to wait after Stop. *)
EXTENDS ThreadPool

WaitsBeforeStop == \A c \in Callers : terminate_ /\ at[c] = "out" => at'[c] = "out"

StopSpec == Init /\ [][Next /\ WaitsBeforeStop]_vars /\ Fairness
===============================================================================

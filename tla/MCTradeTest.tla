---------------------------- MODULE MCTradeTest ----------------------------
(* Instances of TradeTest for TLC. *)
EXTENDS TradeTest

\* Every post of a wake message succeeds.
ReliablePostSpec == Init /\ [][Next /\ ~PostFails]_vars

\* One click sends at most one trade request, also after a timeout ("khong tu
\* retry/spam request", the note in the App window; README, stage telemetry).
OneTradePerClick == \A c \in Clicks : sent[c] <= 1

============================================================================

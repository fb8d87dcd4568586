------------------------- MODULE MCCalibrationStudy ---------------------------
(* Small instances of CalibrationStudy for TLC. *)
EXTENDS CalibrationStudy

MCNames == {"AAA", "BBB", "CCC", "DDD"}
MCPanel == {"AAA", "BBB", "CCC"}
MCAltPanels == <<{"AAA", "CCC"}, {"BBB", "DDD"}>>
MCSmokePanel == {"AAA"}

MCDials == {"fast", "buy"}
MCSmokeDials == {"fast"}
MCWindows == {"full", "gfc"}
MCSmokeWindows == {"full"}

MCCoarse == [d \in MCDials |-> IF d = "fast" THEN {4, 6} ELSE {3, 5}]
MCFiner == [d \in MCDials |-> IF d = "fast" THEN {2, 3} ELSE {1, 9}]
MCBase == [d \in MCDials |-> 10]
MCHigh == [d \in MCDials |-> 18]
MCWarmupK == [d \in MCDials |-> IF d = "fast" THEN 3 ELSE 0]

\* AAA was split once, DDD has one bad ratio.
MCRatios ==
    [n \in MCNames |-> CASE n = "AAA" -> <<500, 500, 1000, 1000>>
                         [] n = "DDD" -> <<1000, 500, 1001, 1001>>
                         [] OTHER -> <<1000, 1000, 1000, 1000>>]

\* CCC was delisted before the second window, DDD is short of days there.
MCBars ==
    [n \in MCNames |-> [w \in MCWindows |->
        CASE w = "full" -> 90 [] n = "CCC" -> 0 [] n = "DDD" -> 40 [] OTHER -> 50]]
MCHeld ==
    [n \in MCNames |-> [w \in MCWindows |->
        CASE n = "BBB" /\ w = "gfc" -> 1 [] n = "CCC" -> 14 [] OTHER -> 9]]
MCStaleDays == [n \in MCNames |-> IF n = "CCC" THEN 9 ELSE 1]

\* The fast dial bottoms out on the coarse rungs and is bounded on the finer
\* ones, the other one bottoms out on both.
MCReach ==
    [n \in MCNames |-> [d \in MCDials |->
        IF d = "fast" THEN IF n = "AAA" THEN 3 ELSE 4 ELSE IF n = "BBB" THEN 5 ELSE 1]]

\* The engine raises on one setting of the finer sweep only.
MCCrashes == {<<"BBB", "buy", 11>>}
MCDelisted == {"CCC"}
MCCap == [n \in MCNames |-> CASE n = "AAA" -> 1 [] n = "DDD" -> None [] OTHER -> 9]
MCVol == [n \in MCNames |-> IF n = "AAA" THEN 1 ELSE 3]
MCCapTertiles == <<2, 5>>
===============================================================================

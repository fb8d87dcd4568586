---------------------------- MODULE MCTrialReview ----------------------------
(* A TLC instance of TrialReview: a strong trial and its variations in what  *)
(* the gates, the critic and the modes look at.                             *)
EXTENDS RunAssembly

Strong ==
    [biased |-> FALSE, bars |-> 30, skill |-> 3, jump |-> 10, trades |-> 30,
     edge |-> 300, exposure |-> 40, sharpe |-> 150, return |-> 4000,
     drawdown |-> 1000, lagged |-> 120, holdSharpe |-> 60, holdReturn |-> 2000,
     holdDrawdown |-> 2000, regimeBound |-> FALSE]

OfSample ==
    {[Strong EXCEPT !.trades = n, !.edge = e] :
        n \in {4, 5, 8}, e \in {NoReading, 99, 164, 233}}
    \cup {[Strong EXCEPT !.exposure = 96]}

OfEarnings ==
    {[Strong EXCEPT !.sharpe = s, !.return = r, !.holdReturn = h, !.trades = 8] :
        s \in {30, 50, 80, 301}, r \in {-100, 100, 300}, h \in {0, 350}}

OfWeakness ==
    {[Strong EXCEPT !.biased = b, !.lagged = l, !.regimeBound = x] :
        b \in BOOLEAN, l \in {-10, 80, NoReading}, x \in BOOLEAN}
    \cup {[Strong EXCEPT !.drawdown = 3100]}

OfSeries ==
    {[Strong EXCEPT !.bars = b, !.skill = s] : b \in {1, 2, 9, 30}, s \in {0, 2, 3}}
    \cup {[Strong EXCEPT !.jump = 51]}

MCTrials == OfSample \cup OfEarnings \cup OfWeakness \cup OfSeries

\* The hurdle of shape s grows with the count and the variance; 0.0 without them.
MCDsr ==
    [s \in 0..3 |-> [n \in {0, 1, 2, 3, 5} |-> [v \in 0..3 |->
        LET x == 60 + 20 * s - 5 * n * v IN
        IF s = 0 \/ n = 0 \/ v = 0 \/ x < 0 THEN 0 ELSE IF x > 100 THEN 100 ELSE x]]]

\* One model without a price, one provider that is off.
MCProviders ==
    <<[name |-> "local", active |-> TRUE,
       models |-> <<[id |-> "plain", reasoning |-> FALSE, priced |-> FALSE]>>],
      [name |-> "cloud", active |-> TRUE,
       models |-> <<[id |-> "large", reasoning |-> TRUE, priced |-> TRUE]>>],
      [name |-> "idle", active |-> FALSE, models |-> <<>>]>>

MCDefaultWindow == [first |-> 0, last |-> 1800]
MCPower(days) == days \div 40

Requests ==
    [agents : Agents, rigor : Rigors, mode : Modes, oos : BOOLEAN, softDsr : BOOLEAN,
     coverageMemory : BOOLEAN, coverageDsr : BOOLEAN, canary : BOOLEAN,
     provider : {None, "local", "cloud", "idle", "gone"}, model : {None, "large"},
     window : [first : {0, None}, last : {60, 900}]]

\* The splitting of every window of up to four years, and every request.
ASSUME \A n \in 1 .. 1500 : HoldoutIsFair([first |-> 0, last |-> n])
ASSUME \A q \in Requests : BackedByTheLockbox(q) /\ (Runs(q) => SettingsOf(q) \in Config)

Request(rigor, mode, soft, agents, provider) ==
    [agents |-> agents, rigor |-> rigor, mode |-> mode, oos |-> TRUE, softDsr |-> soft,
     coverageMemory |-> TRUE, coverageDsr |-> TRUE, canary |-> (rigor # "exploratory"),
     provider |-> provider, model |-> None, window |-> [first |-> 0, last |-> 900]]

MCRequests ==
    {Request(r, "robustness", FALSE, "full_ai", None) : r \in {"standard", "strict"}}
    \cup {Request("standard", "robustness", TRUE, "ai_assisted", "local"),
          Request("standard", "regime", FALSE, "ai_assisted", "cloud"),
          Request("standard", "regime", TRUE, "ai_assisted", "cloud"),
          Request("exploratory", "regime", FALSE, "full_ai", "gone")}

MCConfigs == {SettingsOf(q) : q \in {r \in MCRequests : Runs(r)}}
=============================================================================

------------------------- MODULE ConsolePage_proofs -------------------------
(***************************************************************************)
(* Proofs about RunViews and ConsolePage, for any accounts, fates, number  *)
(* of trials and browsers: a restart changes no answer of a run that has   *)
(* ended, what the page shows of the end is final, and its list of events  *)
(* has no gap.                                                             *)
(***************************************************************************)
EXTENDS ConsolePage, SequenceTheorems, FunctionTheorems, FiniteSetTheorems, TLAPS

-----------------------------------------------------------------------------
(* Sequences *)

LEMMA RangeOfConcat ==
    ASSUME NEW S, NEW s \in Seq(S), NEW t \in Seq(S)
    PROVE  SeqRange(s \o t) = SeqRange(s) \cup SeqRange(t)
<1>1. /\ s \o t \in Seq(S) /\ Len(s \o t) = Len(s) + Len(t)
      /\ \A i \in 1..Len(s) + Len(t) :
            (s \o t)[i] = IF i <= Len(s) THEN s[i] ELSE t[i - Len(s)]
  BY ConcatProperties
<1>2. Len(s) \in Nat /\ Len(t) \in Nat /\ DOMAIN s = 1..Len(s) /\ DOMAIN t = 1..Len(t)
      /\ DOMAIN (s \o t) = 1..Len(s) + Len(t)
  BY <1>1, LenProperties
<1>3. ASSUME NEW i \in 1..Len(s) PROVE s[i] \in SeqRange(s \o t)
  <2>1. i \in 1..Len(s) + Len(t) /\ (s \o t)[i] = s[i]
    BY <1>1, <1>2
  <2>. QED BY <1>2, <2>1 DEF SeqRange
<1>4. ASSUME NEW i \in 1..Len(t) PROVE t[i] \in SeqRange(s \o t)
  <2>1. i + Len(s) \in 1..Len(s) + Len(t) /\ (s \o t)[i + Len(s)] = t[i]
    BY <1>1, <1>2
  <2>. QED BY <1>2, <2>1 DEF SeqRange
<1>5. ASSUME NEW i \in 1..Len(s) + Len(t) PROVE (s \o t)[i] \in SeqRange(s) \cup SeqRange(t)
  <2>1. CASE i <= Len(s)
    BY <1>1, <1>2, <2>1 DEF SeqRange
  <2>2. CASE i > Len(s)
    <3>1. i - Len(s) \in 1..Len(t) /\ (s \o t)[i] = t[i - Len(s)]
      BY <1>1, <1>2, <2>2
    <3>. QED BY <1>2, <3>1 DEF SeqRange
  <2>. QED BY <1>2, <2>1, <2>2
<1>. QED BY <1>2, <1>3, <1>4, <1>5 DEF SeqRange

\* What is left of a sequence after its first n elements.
LEMMA FromFacts ==
    ASSUME NEW S, NEW s \in Seq(S), NEW n \in 0..Len(s)
    PROVE  /\ From(s, n) \in Seq(S)
           /\ SeqRange(From(s, n)) = {s[i] : i \in n + 1..Len(s)}
<1>1. Len(s) \in Nat /\ \A i \in n + 1..Len(s) : s[i] \in S
  BY LenProperties, ElementOfSeq
<1>2. /\ From(s, n) \in Seq(S)
      /\ Len(From(s, n)) = Len(s) - n
      /\ \A i \in 1..Len(s) - n : From(s, n)[i] = s[n + i]
  <2>1. n + 1 \in Int /\ Len(s) \in Int
    BY <1>1
  <2>2. /\ SubSeq(s, n + 1, Len(s)) \in Seq(S)
        /\ Len(SubSeq(s, n + 1, Len(s))) = IF n + 1 <= Len(s) THEN Len(s) - (n + 1) + 1 ELSE 0
        /\ \A i \in 1..Len(s) - (n + 1) + 1 : SubSeq(s, n + 1, Len(s))[i] = s[(n + 1) + i - 1]
    BY <1>1, <2>1, SubSeqProperties
  <2>. QED BY <1>1, <2>2 DEF From
<1>3. DOMAIN From(s, n) = 1..Len(s) - n
  BY <1>2, LenProperties
<1>4. ASSUME NEW i \in n + 1..Len(s) PROVE s[i] \in SeqRange(From(s, n))
  <2>1. i - n \in 1..Len(s) - n /\ From(s, n)[i - n] = s[i]
    BY <1>1, <1>2
  <2>. QED BY <1>3, <2>1 DEF SeqRange
<1>5. ASSUME NEW i \in 1..Len(s) - n PROVE From(s, n)[i] \in {s[j] : j \in n + 1..Len(s)}
  <2>1. n + i \in n + 1..Len(s) /\ From(s, n)[i] = s[n + i]
    BY <1>1, <1>2
  <2>. QED BY <2>1
<1>. QED BY <1>2, <1>3, <1>4, <1>5 DEF SeqRange

\* A beginning of a sequence: what follows completes it, and it stays as the sequence grows.
LEMMA PrefixFacts ==
    ASSUME NEW S, NEW s \in Seq(S), NEW n \in 0..Len(s)
    PROVE  /\ SubSeq(s, 1, n) \o From(s, n) = s
           /\ SubSeq(s, 1, Len(s)) = s
           /\ \A x \in S : SubSeq(Append(s, x), 1, n) = SubSeq(s, 1, n)
<1>1. Len(s) \in Nat /\ \A i \in 1..Len(s) : s[i] \in S
  BY LenProperties, ElementOfSeq
<1>2. SubSeq(s, 1, Len(s)) = s
  BY SubSeqFull
<1>3. /\ SubSeq(s, 1, n) \in Seq(S) /\ Len(SubSeq(s, 1, n)) = n
      /\ \A i \in 1..n : SubSeq(s, 1, n)[i] = s[i]
  <2>1. \A i \in 1..n : s[i] \in S
    BY <1>1
  <2>2. /\ SubSeq(s, 1, n) \in Seq(S)
        /\ Len(SubSeq(s, 1, n)) = IF 1 <= n THEN n - 1 + 1 ELSE 0
        /\ \A i \in 1..n - 1 + 1 : SubSeq(s, 1, n)[i] = s[1 + i - 1]
    BY <1>1, <2>1, SubSeqProperties
  <2>3. n \in Nat /\ n - 1 + 1 = n /\ \A i \in 1..n : 1 + i - 1 = i
    BY <1>1
  <2>4. Len(SubSeq(s, 1, n)) = n
    BY <2>2, <2>3
  <2>5. ASSUME NEW i \in 1..n PROVE SubSeq(s, 1, n)[i] = s[i]
    BY <2>2, <2>3
  <2>. QED BY <2>2, <2>4, <2>5
<1>4. SubSeq(s, 1, n) \o From(s, n) = s
  <2>1. 1 \in 1..Len(s) + 1 /\ n \in 1 - 1..Len(s) /\ Len(s) \in n..Len(s)
    BY <1>1
  <2>2. SubSeq(s, 1, n) \o SubSeq(s, n + 1, Len(s)) = SubSeq(s, 1, Len(s))
    BY <2>1, ConcatAdjacentSubSeq
  <2>. QED BY <1>2, <2>2 DEF From
<1>5. ASSUME NEW x \in S PROVE SubSeq(Append(s, x), 1, n) = SubSeq(s, 1, n)
  <2>. DEFINE a == Append(s, x)
  <2>1. a \in Seq(S) /\ \A i \in 1..Len(s) : a[i] = s[i]
    BY AppendProperties
  <2>. HIDE DEF a
  <2>2. \A i \in 1..n : a[i] = s[i] /\ a[i] \in S
    BY <1>1, <2>1
  <2>3. /\ SubSeq(a, 1, n) \in Seq(S)
        /\ Len(SubSeq(a, 1, n)) = IF 1 <= n THEN n - 1 + 1 ELSE 0
        /\ \A i \in 1..n - 1 + 1 : SubSeq(a, 1, n)[i] = a[1 + i - 1]
    BY <1>1, <2>2, SubSeqProperties
  <2>4. Len(SubSeq(a, 1, n)) = n /\ \A i \in 1..n : SubSeq(a, 1, n)[i] = a[i]
    BY <1>1, <2>3
  <2>5. SubSeq(a, 1, n) = SubSeq(s, 1, n)
    BY <1>3, <2>2, <2>3, <2>4, SeqEqual
  <2>. QED BY <2>5 DEF a
<1>. QED BY <1>2, <1>4, <1>5

LEMMA NumbersFacts ==
    ASSUME NEW m \in Nat, NEW n \in Nat
    PROVE  /\ Numbers(m, n) \in Seq(Nat)
           /\ m <= n => Len(Numbers(m, n)) = n - m
           /\ m < n => Numbers(m, n)[n - m] = n
<1>. DEFINE k == IF m <= n THEN n - m ELSE 0
<1>1. k \in Nat /\ 1..n - m = 1..k
  OBVIOUS
<1>2. Numbers(m, n) \in [1..k -> Nat]
  BY <1>1 DEF Numbers
<1>. HIDE DEF k
<1>3. Numbers(m, n) \in Seq(Nat) /\ Len(Numbers(m, n)) = k
  BY <1>1, <1>2, SeqDef, LenProperties
<1>. QED BY <1>1, <1>3 DEF Numbers, k

LEMMA RangeOfAppend ==
    ASSUME NEW S, NEW s \in Seq(S), NEW x \in S
    PROVE  /\ Append(s, x) \in Seq(S) /\ Len(Append(s, x)) = Len(s) + 1
           /\ SeqRange(Append(s, x)) = SeqRange(s) \cup {x}
           /\ \A i \in 1..Len(s) : Append(s, x)[i] = s[i]
<1>1. /\ Append(s, x) \in Seq(S) /\ Len(Append(s, x)) = Len(s) + 1
      /\ \A i \in 1..Len(s) : Append(s, x)[i] = s[i]
      /\ Append(s, x)[Len(s) + 1] = x
  BY AppendProperties
<1>2. Len(s) \in Nat /\ DOMAIN s = 1..Len(s) /\ DOMAIN Append(s, x) = 1..Len(s) + 1
  BY <1>1, LenProperties
<1>3. 1..Len(s) + 1 = 1..Len(s) \cup {Len(s) + 1}
  BY <1>2
<1>. QED BY <1>1, <1>2, <1>3 DEF SeqRange

-----------------------------------------------------------------------------
(* The record, its rows and the flush between them *)

Statuses == Terminal \cup Active \cup {"none"}
CursorType == [hyps : Nat, trials : Nat, events : Nat, tree : Nat]
TrialType == [id : Nat, fate : Fates]
RowType == [status : Statuses, hyps : Seq(Nat), trials : Seq(TrialType), events : Seq(Nat),
            tree : Nat, report : BOOLEAN]
RecordType == [status : Statuses, published : BOOLEAN, at : Places, hyps : Nat,
               trials : Seq(TrialType), events : Nat, tree : Nat, report : BOOLEAN,
               saved : CursorType, flushed : BOOLEAN]
SnapType == [kind : {"none", "beat", "final"}, landed : BOOLEAN, image : RowType,
             cursors : CursorType]

ServerType ==
    /\ up \in BOOLEAN
    /\ live \in RecordType
    /\ snap \in SnapType
    /\ db \in RowType
    /\ made \subseteq TrialType
    /\ late \in BOOLEAN
    /\ maxRuns \in Nat

RecordInv ==
    /\ live.status = "none" => live = NoRun
    /\ ~live.published =>
          /\ live.hyps = 0 /\ live.trials = <<>> /\ live.at = "boundary"
          /\ live.tree = 0 /\ ~live.report
    /\ live.tree <= Nodes
    /\ ~up => live.status = "none"
    /\ live.status # "none" => db.status # "none" /\ made = SeqRange(live.trials)
    /\ db.status = "none" => made = {} /\ ~late
    /\ live.status \in Active => ~late

SnapInv ==
    /\ snap.kind = "none" => ~snap.landed
    /\ snap.kind = "beat" => live.status \in Active /\ snap.image.status \in Active
    /\ snap.kind = "final" =>
          live.status \in Terminal /\ ~live.flushed /\ snap.image.status = live.status
    /\ snap.landed => db = snap.image

\* The rows hold trials, hypotheses and the tree of the record, and as much of them as
\* the cursors say is saved.
Covers(rec, row, saved) ==
    /\ saved.trials <= Len(rec.trials) /\ saved.hyps <= rec.hyps
    /\ SeqRange(row.trials) \subseteq SeqRange(rec.trials)
    /\ \A i \in 1..saved.trials : rec.trials[i] \in SeqRange(row.trials)
    /\ IF row.hyps = <<>> THEN saved.hyps = 0
       ELSE row.hyps[Len(row.hyps)] \in saved.hyps..rec.hyps
    /\ saved.tree <= row.tree /\ row.tree <= rec.tree

RowsInv ==
    live.status # "none" =>
        /\ Covers(live, db, live.saved)
        /\ snap.kind # "none" => /\ Covers(live, snap.image, snap.cursors)
                                 /\ live.saved.trials <= snap.cursors.trials
                                 /\ live.saved.hyps <= snap.cursors.hyps
                                 /\ live.saved.tree <= snap.cursors.tree

\* The rows hold the first n trials of the record, each of them once.
Exact(rec, row, n) == n <= Len(rec.trials) /\ row.trials = SubSeq(rec.trials, 1, n)

\* So they do, up to the cursor, while no COMMIT has outlived its cancel.
OnceInv ==
    live.status # "none" /\ ~late =>
        /\ ~snap.landed => Exact(live, db, live.saved.trials)
        /\ snap.kind # "none" => Exact(live, snap.image, snap.cursors.trials)

\* The rows answer as the record does.
Agree(rec, row, cut) ==
    /\ SeqRange(rec.trials) \subseteq SeqRange(row.trials)
    /\ ~cut => row.trials = rec.trials
    /\ rec.hyps > 0 => row.hyps # <<>> /\ row.hyps[Len(row.hyps)] = rec.hyps
    /\ row.tree = rec.tree
    /\ rec.report => row.report

FinalInv ==
    /\ snap.kind = "final" => Agree(live, snap.image, late)
    /\ live.status # "none" /\ db.status \in Terminal =>
          Agree(live, db, late) /\ live.status = db.status

ViewsInv == ServerType /\ RecordInv /\ SnapInv /\ RowsInv /\ OnceInv /\ FinalInv

LEMMA LastHypothesis ==
    ASSUME NEW h \in Seq(Nat), NEW m \in Nat, NEW n \in Nat, m <= n,
           IF h = <<>> THEN m = 0 ELSE h[Len(h)] \in m..n
    PROVE  /\ h \o Numbers(m, n) \in Seq(Nat)
           /\ IF h \o Numbers(m, n) = <<>> THEN n = 0
              ELSE (h \o Numbers(m, n))[Len(h \o Numbers(m, n))] = n
<1>. DEFINE r == h \o Numbers(m, n)
<1>1. /\ Numbers(m, n) \in Seq(Nat) /\ Len(Numbers(m, n)) = n - m
      /\ m < n => Numbers(m, n)[n - m] = n
  BY NumbersFacts
<1>2. /\ r \in Seq(Nat) /\ Len(r) = Len(h) + (n - m)
      /\ \A i \in 1..Len(h) + (n - m) :
            r[i] = IF i <= Len(h) THEN h[i] ELSE Numbers(m, n)[i - Len(h)]
  <2>1. /\ r \in Seq(Nat) /\ Len(r) = Len(h) + Len(Numbers(m, n))
        /\ \A i \in 1..Len(h) + Len(Numbers(m, n)) :
              r[i] = IF i <= Len(h) THEN h[i] ELSE Numbers(m, n)[i - Len(h)]
    BY <1>1, ConcatProperties
  <2>2. Len(Numbers(m, n)) = n - m
    BY <1>1
  <2>. HIDE DEF r
  <2>. QED BY <2>1, <2>2
<1>3. Len(h) \in Nat /\ (h = <<>> <=> Len(h) = 0) /\ (r = <<>> <=> Len(r) = 0)
  BY <1>2, LenProperties, EmptySeq
<1>. HIDE DEF r
<1>4. ASSUME m < n PROVE r # <<>> /\ r[Len(r)] = n
  <2>0. Len(r) = Len(h) + (n - m) /\ Len(h) \in Nat
    BY <1>2, <1>3
  <2>1. Len(r) \in 1..Len(h) + (n - m) /\ Len(r) > Len(h) /\ Len(r) - Len(h) = n - m
    BY <2>0, <1>4
  <2>2. r[Len(r)] = IF Len(r) <= Len(h) THEN h[Len(r)] ELSE Numbers(m, n)[Len(r) - Len(h)]
    BY <1>2, <2>1
  <2>3. r[Len(r)] = Numbers(m, n)[n - m]
    <3>1. ~(Len(r) <= Len(h))
      BY <2>0, <1>4
    <3>. QED BY <2>1, <2>2, <3>1, Zenon
  <2>4. Len(r) # 0
    BY <2>0, <1>4
  <2>. QED BY <1>1, <1>3, <1>4, <2>3, <2>4
<1>5. ASSUME m = n, h # <<>> PROVE r # <<>> /\ r[Len(r)] = n
  <2>1. Len(r) = Len(h) /\ Len(r) \in 1..Len(h) + (n - m)
    BY <1>2, <1>3, <1>5
  <2>2. r[Len(r)] = IF Len(r) <= Len(h) THEN h[Len(r)] ELSE Numbers(m, n)[Len(r) - Len(h)]
    BY <1>2, <2>1
  <2>. QED BY <1>3, <1>5, <2>1, <2>2
<1>6. ASSUME m = n, h = <<>> PROVE r = <<>> /\ n = 0
  BY <1>2, <1>3, <1>6
<1>7. m < n \/ m = n
  OBVIOUS
<1>8. r \in Seq(Nat) /\ IF r = <<>> THEN n = 0 ELSE r[Len(r)] = n
  BY <1>2, <1>4, <1>5, <1>6, <1>7
<1>. QED BY <1>8 DEF r

\* What a flush writes agrees with the record and covers it whole.
LEMMA ImageFacts ==
    ASSUME ViewsInv, live.status # "none", ~snap.landed
    PROVE  /\ Image \in RowType /\ Cursors \in CursorType
           /\ Image.status = live.status
           /\ Covers(live, Image, Cursors) /\ Agree(live, Image, late)
           /\ live.saved.trials <= Cursors.trials /\ live.saved.hyps <= Cursors.hyps
           /\ live.saved.tree <= Cursors.tree
           /\ ~late => Exact(live, Image, Cursors.trials)
<1>. USE DEF ViewsInv
<1>1. /\ live \in RecordType /\ db \in RowType /\ live.saved \in CursorType
      /\ live.trials \in Seq(TrialType) /\ db.trials \in Seq(TrialType)
      /\ db.hyps \in Seq(Nat) /\ db.events \in Seq(Nat)
      /\ live.hyps \in Nat /\ live.events \in Nat /\ Len(live.trials) \in Nat
      /\ live.saved.hyps \in Nat /\ live.saved.trials \in Nat /\ live.saved.events \in Nat
      /\ live.tree \in Nat /\ live.saved.tree \in Nat /\ db.tree \in Nat
  BY LenProperties DEF ServerType, RecordType, RowType, CursorType
<1>2. Covers(live, db, live.saved)
  BY DEF RowsInv
<1>3. db.events \o Numbers(live.saved.events, live.events) \in Seq(Nat)
  BY <1>1, NumbersFacts, ConcatProperties
<1>4. Cursors \in CursorType /\ live.saved.trials <= Cursors.trials
      /\ live.saved.hyps <= Cursors.hyps /\ live.saved.tree <= Cursors.tree
      /\ Cursors.trials = Len(live.trials) /\ Cursors.hyps = live.hyps
      /\ Cursors.tree = live.tree
  BY <1>1, <1>2 DEF Cursors, CursorType, Covers
<1>7. ~late => live.saved.trials <= Len(live.trials)
               /\ db.trials = SubSeq(live.trials, 1, live.saved.trials)
  BY DEF OnceInv, Exact
<1>8. SubSeq(live.trials, 1, Len(live.trials)) = live.trials
  BY <1>1, PrefixFacts
<1>5. CASE ~live.published
  <2>1. /\ Image \in RowType /\ Image.status = live.status
        /\ Image.hyps = db.hyps /\ Image.trials = db.trials /\ Image.tree = db.tree
    BY <1>1, <1>3, <1>5 DEF Image, RowType, RecordType
  <2>2. live.hyps = 0 /\ live.trials = <<>> /\ live.tree = 0 /\ ~live.report
    BY <1>5 DEF RecordInv
  <2>3. Len(live.trials) = 0 /\ SeqRange(live.trials) = {}
    BY <2>2 DEF SeqRange
  <2>4. ~late => Image.trials = live.trials
    <3>1. ASSUME ~late PROVE live.saved.trials = Len(live.trials)
      BY <1>1, <1>7, <2>3, <3>1
    <3>. QED BY <1>7, <1>8, <2>1, <3>1
  <2>5. Covers(live, Image, Cursors)
    BY <1>1, <1>2, <1>4, <2>1, <2>2, <2>3 DEF Covers
  <2>6. Agree(live, Image, late)
    BY <1>1, <1>2, <2>1, <2>2, <2>3, <2>4 DEF Agree, Covers
  <2>7. ~late => Exact(live, Image, Cursors.trials)
    BY <1>1, <1>4, <1>8, <2>4 DEF Exact
  <2>. QED BY <1>4, <2>1, <2>5, <2>6, <2>7
<1>6. CASE live.published
  <2>. DEFINE hyps == db.hyps \o Numbers(live.saved.hyps, live.hyps)
              trials == db.trials \o From(live.trials, live.saved.trials)
  <2>1. hyps \in Seq(Nat) /\ IF hyps = <<>> THEN live.hyps = 0 ELSE hyps[Len(hyps)] = live.hyps
    <3>1. /\ live.saved.hyps <= live.hyps
          /\ IF db.hyps = <<>> THEN live.saved.hyps = 0
             ELSE db.hyps[Len(db.hyps)] \in live.saved.hyps..live.hyps
      BY <1>2 DEF Covers
    <3>2. /\ db.hyps \in Seq(Nat) /\ live.saved.hyps \in Nat /\ live.hyps \in Nat
      BY <1>1
    <3>. DEFINE h == db.hyps  m == live.saved.hyps  n == live.hyps
    <3>3. /\ h \in Seq(Nat) /\ m \in Nat /\ n \in Nat /\ m <= n
          /\ IF h = <<>> THEN m = 0 ELSE h[Len(h)] \in m..n
      BY <3>1, <3>2
    <3>. HIDE DEF ViewsInv, h, m, n
    <3>4. /\ h \o Numbers(m, n) \in Seq(Nat)
          /\ IF h \o Numbers(m, n) = <<>> THEN n = 0
             ELSE (h \o Numbers(m, n))[Len(h \o Numbers(m, n))] = n
      BY <3>3, LastHypothesis
    <3>. QED BY <3>4 DEF hyps, h, m, n
  <2>2. trials \in Seq(TrialType) /\ SeqRange(trials) = SeqRange(live.trials)
    <3>. DEFINE rest == From(live.trials, live.saved.trials)
    <3>1. live.saved.trials \in 0..Len(live.trials)
      BY <1>1, <1>2 DEF Covers
    <3>2. /\ rest \in Seq(TrialType)
          /\ SeqRange(rest) = {live.trials[i] : i \in live.saved.trials + 1..Len(live.trials)}
      <4>. HIDE DEF ViewsInv
      <4>. QED BY <1>1, <3>1, FromFacts
    <3>3. trials \in Seq(TrialType) /\ SeqRange(trials) = SeqRange(db.trials) \cup SeqRange(rest)
      BY <1>1, <3>2, RangeOfConcat, ConcatProperties
    <3>. HIDE DEF rest, trials
    <3>4. SeqRange(live.trials) = {live.trials[i] : i \in 1..Len(live.trials)}
      BY <1>1, LenProperties DEF SeqRange
    <3>5. SeqRange(db.trials) \subseteq SeqRange(live.trials)
          /\ \A i \in 1..live.saved.trials : live.trials[i] \in SeqRange(db.trials)
      BY <1>2 DEF Covers
    <3>6. SeqRange(live.trials) \subseteq SeqRange(trials)
      <4>. SUFFICES ASSUME NEW i \in 1..Len(live.trials)
                    PROVE  live.trials[i] \in SeqRange(trials)
        BY <3>4
      <4>1. CASE i <= live.saved.trials
        <5>1. i \in 1..live.saved.trials
          BY <1>1, <4>1
        <5>2. live.trials[i] \in SeqRange(db.trials)
          BY <3>5, <5>1
        <5>. QED BY <3>3, <5>2
      <4>2. CASE i > live.saved.trials
        <5>1. i \in live.saved.trials + 1..Len(live.trials)
          BY <1>1, <3>1, <4>2
        <5>2. live.trials[i] \in SeqRange(rest)
          BY <3>2, <5>1
        <5>. QED BY <3>3, <5>2
      <4>. QED BY <1>1, <3>1, <4>1, <4>2
    <3>7. SeqRange(rest) \subseteq SeqRange(live.trials)
      BY <1>1, <3>1, <3>2, <3>4
    <3>. QED BY <3>3, <3>5, <3>6, <3>7
  <2>8. ~late => trials = live.trials
    <3>1. live.saved.trials \in 0..Len(live.trials)
      BY <1>1, <1>2 DEF Covers
    <3>2. SubSeq(live.trials, 1, live.saved.trials) \o From(live.trials, live.saved.trials)
             = live.trials
      BY <1>1, <3>1, PrefixFacts
    <3>. QED BY <1>7, <3>2, Zenon DEF Exact
  <2>. HIDE DEF hyps, trials
  <2>. DEFINE tree == IF live.tree # 0 /\ live.tree # live.saved.tree THEN live.tree ELSE db.tree
  <2>9. tree = live.tree
    BY <1>1, <1>2 DEF Covers
  <2>. HIDE DEF tree
  <2>3. Image = [status |-> live.status, hyps |-> hyps, trials |-> trials,
                 events |-> db.events \o Numbers(live.saved.events, live.events),
                 tree |-> tree, report |-> live.report \/ db.report]
    BY <1>6 DEF Image, hyps, trials, tree
  <2>4. Image \in RowType
    BY <1>1, <1>3, <2>1, <2>2, <2>3, <2>9 DEF RowType, RecordType
  <2>5. DOMAIN live.trials = 1..Len(live.trials)
    BY <1>1, LenProperties
  <2>6. Agree(live, Image, late)
    <3>1. /\ Image.trials = trials /\ Image.hyps = hyps
          /\ Image.tree = live.tree /\ Image.report = (live.report \/ db.report)
      BY <2>3, <2>9
    <3>2. live.hyps > 0 => hyps # <<>> /\ hyps[Len(hyps)] = live.hyps
      BY <1>1, <2>1
    <3>. QED BY <2>2, <2>8, <3>1, <3>2, Zenon DEF Agree
  <2>7. Covers(live, Image, Cursors)
    <3>1. \A i \in 1..Len(live.trials) : live.trials[i] \in SeqRange(Image.trials)
      BY <2>2, <2>3, <2>5 DEF SeqRange
    <3>2. /\ Image.trials = trials /\ Image.hyps = hyps /\ Image.tree = live.tree
          /\ Cursors.trials = Len(live.trials) /\ Cursors.hyps = live.hyps
          /\ Cursors.tree = live.tree
      BY <2>3, <2>9 DEF Cursors
    <3>3. IF Image.hyps = <<>> THEN Cursors.hyps = 0
          ELSE Image.hyps[Len(Image.hyps)] \in Cursors.hyps..live.hyps
      BY <1>1, <2>1, <3>2
    <3>. QED BY <1>1, <2>2, <3>1, <3>2, <3>3 DEF Covers
  <2>10. ~late => Exact(live, Image, Cursors.trials)
    BY <1>1, <1>4, <1>8, <2>3, <2>8 DEF Exact
  <2>. QED BY <1>4, <2>3, <2>4, <2>6, <2>7, <2>10
<1>. QED BY <1>5, <1>6

LEMMA LastIsANumber ==
    ASSUME NEW h \in Seq(Nat), h # <<>>
    PROVE  h[Len(h)] \in Nat
<1>1. Len(h) \in Nat \ {0} /\ h \in [1..Len(h) -> Nat]
  BY EmptySeq, LenProperties
<1>2. Len(h) \in 1..Len(h)
  BY <1>1
<1>. QED BY <1>1, <1>2

\* An older cursor is covered too, and so is what the record has gained since.
LEMMA CoversLess ==
    ASSUME NEW rec \in RecordType, NEW row \in RowType, NEW c \in CursorType,
           NEW s \in CursorType, s.trials <= c.trials, s.hyps <= c.hyps, s.tree <= c.tree,
           Covers(rec, row, c)
    PROVE  Covers(rec, row, s)
<1>1. /\ s.trials \in Nat /\ c.trials \in Nat /\ s.hyps \in Nat /\ c.hyps \in Nat
      /\ s.tree \in Nat /\ c.tree \in Nat /\ row.tree \in Nat /\ rec.tree \in Nat
      /\ rec.hyps \in Nat /\ Len(rec.trials) \in Nat
      /\ row.hyps # <<>> => row.hyps[Len(row.hyps)] \in Nat
  BY LastIsANumber, LenProperties DEF RecordType, RowType, CursorType
<1>2. s.trials <= Len(rec.trials) /\ s.hyps <= rec.hyps
      /\ s.tree <= row.tree /\ row.tree <= rec.tree
  BY <1>1 DEF Covers
<1>3. ASSUME NEW i \in 1..s.trials PROVE rec.trials[i] \in SeqRange(row.trials)
  <2>1. i \in 1..c.trials
    BY <1>1
  <2>. QED BY <2>1 DEF Covers
<1>4. IF row.hyps = <<>> THEN s.hyps = 0 ELSE row.hyps[Len(row.hyps)] \in s.hyps..rec.hyps
  BY <1>1 DEF Covers
<1>. QED BY <1>2, <1>3, <1>4 DEF Covers

LEMMA CoversMore ==
    ASSUME NEW rec \in RecordType, NEW new \in RecordType, NEW row \in RowType,
           NEW s \in CursorType, Covers(rec, row, s), rec.hyps <= new.hyps,
           rec.tree <= new.tree,
           \/ new.trials = rec.trials
           \/ \E t \in TrialType : new.trials = Append(rec.trials, t)
    PROVE  Covers(new, row, s)
<1>1. /\ s.trials \in Nat /\ s.hyps \in Nat /\ rec.hyps \in Nat /\ new.hyps \in Nat
      /\ rec.trials \in Seq(TrialType) /\ Len(rec.trials) \in Nat
      /\ row.hyps # <<>> => row.hyps[Len(row.hyps)] \in Nat
      /\ s.tree \in Nat /\ row.tree \in Nat /\ rec.tree \in Nat /\ new.tree \in Nat
  BY LastIsANumber, LenProperties DEF RecordType, RowType, CursorType
<1>2. /\ Len(rec.trials) <= Len(new.trials) /\ Len(new.trials) \in Nat
      /\ SeqRange(rec.trials) \subseteq SeqRange(new.trials)
      /\ \A i \in 1..Len(rec.trials) : new.trials[i] = rec.trials[i]
  <2>1. CASE new.trials = rec.trials
    BY <1>1, <2>1
  <2>2. CASE \E t \in TrialType : new.trials = Append(rec.trials, t)
    <3>1. PICK t \in TrialType : new.trials = Append(rec.trials, t)
      BY <2>2
    <3>2. SeqRange(rec.trials) \subseteq SeqRange(new.trials)
      BY <1>1, <3>1, RangeOfAppend
    <3>3. /\ Len(new.trials) = Len(rec.trials) + 1
          /\ \A i \in 1..Len(rec.trials) : new.trials[i] = rec.trials[i]
      BY <1>1, <3>1, AppendProperties
    <3>. QED BY <1>1, <3>2, <3>3
  <2>. QED BY <2>1, <2>2
<1>3. /\ s.trials <= Len(new.trials) /\ s.hyps <= new.hyps
      /\ SeqRange(row.trials) \subseteq SeqRange(new.trials)
  <2>1. /\ s.trials <= Len(rec.trials) /\ s.hyps <= rec.hyps
        /\ SeqRange(row.trials) \subseteq SeqRange(rec.trials)
    BY Zenon DEF Covers
  <2>2. s.trials <= Len(new.trials) /\ s.hyps <= new.hyps
    BY <1>1, <1>2, <2>1
  <2>. QED BY <1>2, <2>1, <2>2
<1>4. ASSUME NEW i \in 1..s.trials PROVE new.trials[i] \in SeqRange(row.trials)
  <2>1. i \in 1..Len(rec.trials) /\ rec.trials[i] \in SeqRange(row.trials)
    BY <1>1 DEF Covers
  <2>. QED BY <1>2, <2>1
<1>5. IF row.hyps = <<>> THEN s.hyps = 0 ELSE row.hyps[Len(row.hyps)] \in s.hyps..new.hyps
  BY <1>1 DEF Covers
<1>6. s.tree <= row.tree /\ row.tree <= new.tree
  BY <1>1 DEF Covers
<1>. QED BY <1>3, <1>4, <1>5, <1>6 DEF Covers

\* Nor does it change the first trials.
LEMMA ExactMore ==
    ASSUME NEW rec, rec.trials \in Seq(TrialType), NEW new, NEW row, NEW n \in Nat,
           Exact(rec, row, n),
           \/ new.trials = rec.trials
           \/ \E t \in TrialType : new.trials = Append(rec.trials, t)
    PROVE  Exact(new, row, n)
<1>1. CASE new.trials = rec.trials
  BY <1>1 DEF Exact
<1>2. CASE \E t \in TrialType : new.trials = Append(rec.trials, t)
  <2>1. PICK t \in TrialType : new.trials = Append(rec.trials, t)
    BY <1>2
  <2>2. Len(rec.trials) \in Nat /\ n \in 0..Len(rec.trials)
    BY LenProperties DEF Exact
  <2>3. SubSeq(new.trials, 1, n) = SubSeq(rec.trials, 1, n)
    BY <2>1, <2>2, PrefixFacts
  <2>4. Len(new.trials) = Len(rec.trials) + 1
    BY <2>1, AppendProperties
  <2>. QED BY <2>2, <2>3, <2>4 DEF Exact
<1>. QED BY <1>1, <1>2

LEMMA EmptyTypes == NoRun \in RecordType /\ NoRow \in RowType /\ NoSnap \in SnapType
<1>1. <<>> \in Seq(Nat) /\ <<>> \in Seq(TrialType)
  BY EmptySeq
<1>2. NoCursors \in CursorType
  BY DEF NoCursors, CursorType
<1>3. NoRow \in RowType
  BY <1>1 DEF NoRow, RowType, Statuses
<1>4. NoRun.at \in Places
  BY DEF NoRun, Places
<1>. QED BY <1>1, <1>2, <1>3, <1>4 DEF NoRun, RecordType, NoSnap, SnapType, Statuses, Places

LEMMA CutFacts ==
    ASSUME ViewsInv, CutFlush
    PROVE  /\ snap' = NoSnap /\ snap' \in SnapType /\ db' \in RowType
           /\ db' = db \/ (snap.kind # "none" /\ db' = snap.image)
           /\ live.status # "none" => Covers(live, db', live.saved)
<1>1. /\ live \in RecordType /\ db \in RowType /\ snap \in SnapType
      /\ live.saved \in CursorType /\ snap.cursors \in CursorType /\ snap.image \in RowType
  BY DEF ViewsInv, ServerType, RecordType, SnapType
<1>2. snap' = NoSnap /\ (db' = db \/ (snap.kind # "none" /\ db' = snap.image))
  BY DEF CutFlush
<1>3. NoSnap \in SnapType
  BY EmptyTypes
<1>4. live.status # "none" => Covers(live, db', live.saved)
  BY <1>1, <1>2, CoversLess DEF ViewsInv, RowsInv
<1>. QED BY <1>1, <1>2, <1>3, <1>4

\* A heartbeat whose COMMIT does not outlive its cancel leaves nothing behind.
LEMMA HeartbeatCutFacts ==
    ASSUME ViewsInv, HeartbeatCut
    PROVE  late' \in BOOLEAN /\ (~late' => db' = db /\ ~snap.landed)
<1>1. CutFlush /\ late' = (snap.kind # "none" /\ db' = snap.image)
  BY Zenon DEF HeartbeatCut
<1>2. db' = db \/ (snap.kind # "none" /\ db' = snap.image)
  BY <1>1, CutFacts
<1>3. snap.landed => snap.kind # "none" /\ db = snap.image
  BY DEF ViewsInv, SnapInv, ServerType, SnapType
<1>. QED BY <1>1, <1>2, <1>3, Zenon

LEMMA ViewsStart == ServerInit => ViewsInv
<1>. SUFFICES ASSUME ServerInit PROVE ViewsInv
  OBVIOUS
<1>1. ServerType
  <2>1. maxRuns \in Nat
    BY BoundsAssumption DEF ServerInit
  <2>. QED BY <2>1, EmptyTypes DEF ServerInit, ServerType
<1>2. live.status = "none" /\ snap.kind = "none" /\ ~snap.landed /\ live = NoRun
  BY DEF ServerInit, NoRun, NoSnap
<1>3. RecordInv
  BY <1>2 DEF RecordInv, NoRun, ServerInit, Nodes
<1>. QED
  BY <1>1, <1>2, <1>3 DEF ViewsInv, SnapInv, RowsInv, OnceInv, FinalInv, Terminal

\* While it lives, a run only adds to its record.
LEMMA GrowingRun ==
    ASSUME ViewsInv, Working, live' \in RecordType, live'.status \in Active,
           ~live'.published => /\ live'.hyps = 0 /\ live'.trials = <<>>
                               /\ live'.at = "boundary" /\ live'.tree = 0,
           live'.saved = live.saved, live'.flushed = live.flushed,
           live'.report = live.report, live.published => live'.published,
           live.hyps <= live'.hyps, live.tree <= live'.tree, live'.tree <= live'.hyps + 1,
           \/ live'.trials = live.trials /\ made' = made
           \/ \E t \in TrialType : /\ live'.trials = Append(live.trials, t)
                                   /\ made' = made \cup {t},
           UNCHANGED <<up, snap, db, late, maxRuns>>
    PROVE  ViewsInv'
<1>. USE DEF ViewsInv
<1>0. /\ live \in RecordType /\ db \in RowType /\ snap \in SnapType
      /\ live.saved \in CursorType /\ snap.cursors \in CursorType /\ snap.image \in RowType
      /\ live.trials \in Seq(TrialType)
  BY DEF ServerType, RecordType, SnapType
<1>1. made' = SeqRange(live'.trials) /\ made' \subseteq TrialType
  <2>0. live.status # "none"
    BY DEF Working, Active
  <2>1. made = SeqRange(live.trials) /\ made \subseteq TrialType
    BY <2>0 DEF RecordInv, ServerType
  <2>2. CASE live'.trials = live.trials /\ made' = made
    BY <2>1, <2>2
  <2>3. CASE \E t \in TrialType : live'.trials = Append(live.trials, t) /\ made' = made \cup {t}
    <3>1. PICK t \in TrialType : live'.trials = Append(live.trials, t) /\ made' = made \cup {t}
      BY <2>3
    <3>. QED BY <1>0, <2>1, <3>1, RangeOfAppend
  <2>. QED BY <2>2, <2>3
<1>2. ServerType'
  BY <1>1 DEF ServerType
<1>3. live.status # "none" /\ live'.status # "none" /\ live'.status \notin Terminal
      /\ db.status \notin Terminal /\ snap.kind # "final" /\ db.status # "none"
      /\ ~late
  BY DEF Working, FinalInv, SnapInv, RecordInv, Terminal, Active
<1>4. RecordInv'
  <2>1. ~live'.published => ~live'.report
    BY DEF RecordInv
  <2>. QED BY <1>1, <1>3, <2>1 DEF RecordInv, Working, Nodes
<1>5. SnapInv'
  BY <1>3 DEF SnapInv
<1>6. \A row \in RowType, c \in CursorType : Covers(live, row, c) => Covers(live', row, c)
  BY <1>0, CoversMore
<1>7. RowsInv'
  BY <1>0, <1>3, <1>6 DEF RowsInv
<1>8. \A row \in RowType, n \in Nat : Exact(live, row, n) => Exact(live', row, n)
  BY <1>0, ExactMore
<1>9. OnceInv'
  <2>1. live.saved.trials \in Nat /\ snap.cursors.trials \in Nat
    BY <1>0 DEF CursorType
  <2>. QED BY <1>0, <1>3, <1>8, <2>1 DEF OnceInv
<1>10. FinalInv'
  BY <1>3 DEF FinalInv
<1>. QED BY <1>2, <1>4, <1>5, <1>7, <1>9, <1>10

LEMMA ViewsStep ==
    ASSUME ViewsInv, ServerNext \/ UNCHANGED serverVars
    PROVE  ViewsInv'
<1>. USE DEF ViewsInv
<1>0. /\ live \in RecordType /\ db \in RowType /\ snap \in SnapType
      /\ live.saved \in CursorType /\ snap.cursors \in CursorType /\ snap.image \in RowType
      /\ live.trials \in Seq(TrialType) /\ live.hyps \in Nat /\ live.events \in Nat
      /\ live.tree \in Nat /\ late \in BOOLEAN
  BY DEF ServerType, RecordType, SnapType
<1>1. CASE UNCHANGED serverVars
  BY <1>1 DEF serverVars, ServerType, RecordInv, SnapInv, RowsInv, OnceInv, FinalInv, Nodes
<1>2. CASE StartRun
  <2>1. live' \in RecordType /\ db' \in RowType
    BY <1>2, EmptyTypes DEF StartRun, RecordType, RowType, Statuses, Active
  <2>2. /\ live'.status = "running" /\ ~live'.published /\ live'.hyps = 0
        /\ live'.trials = <<>> /\ live'.at = "boundary" /\ live'.tree = 0 /\ ~live'.report
        /\ live'.saved.trials = 0 /\ live'.saved.hyps = 0 /\ live'.saved.tree = 0
        /\ db'.status = "running" /\ db'.hyps = <<>> /\ db'.trials = <<>> /\ db'.tree = 0
    BY <1>2 DEF StartRun, NoRun, NoRow, NoCursors
  <2>3. live.status = "none" /\ snap.kind = "none" /\ ~snap.landed /\ made = {} /\ ~late
    BY <1>0, <1>2 DEF StartRun, NoRun, NoRow, RecordInv, SnapInv, SnapType, Terminal, Active
  <2>4. up' = TRUE /\ snap' = snap /\ made' = made /\ late' = late /\ maxRuns' = maxRuns
    BY <1>2 DEF StartRun, ServerType
  <2>5. ServerType'
    BY <2>1, <2>4 DEF ServerType
  <2>6. SeqRange(<<>>) = {} /\ Len(<<>>) = 0 /\ SubSeq(<<>>, 1, 0) = <<>>
    BY SubSeqEmpty DEF SeqRange
  <2>7. RecordInv' /\ SnapInv' /\ FinalInv'
    BY <2>2, <2>3, <2>4, <2>6 DEF RecordInv, SnapInv, FinalInv, Terminal, Nodes
  <2>8. RowsInv'
    BY <2>2, <2>3, <2>4, <2>6 DEF RowsInv, Covers
  <2>9. OnceInv'
    BY <2>2, <2>3, <2>4, <2>6 DEF OnceInv, Exact
  <2>. QED BY <2>5, <2>7, <2>8, <2>9
\* The steps of a live run that change no trial.
<1>3. ASSUME Working, live' \in RecordType, live'.status \in Active, live'.trials = live.trials,
             live'.saved = live.saved, live'.flushed = live.flushed, live'.report = live.report,
             live'.published = live.published \/ live'.published,
             live.hyps <= live'.hyps, live.tree <= live'.tree, live'.tree <= live'.hyps + 1,
             live'.published \/ (live'.hyps = live.hyps /\ live'.tree = live.tree
                                  /\ live'.at = live.at),
             UNCHANGED <<up, snap, db, made, late, maxRuns>>
      PROVE  ViewsInv'
  <2>1. ~live'.published => /\ live'.hyps = 0 /\ live'.trials = <<>>
                            /\ live'.at = "boundary" /\ live'.tree = 0
    BY <1>3 DEF RecordInv
  <2>2. live.published => live'.published
    BY <1>3
  <2>. HIDE DEF ViewsInv
  <2>. QED BY <1>3, <2>1, <2>2, GrowingRun
<1>4. live.tree <= live.hyps + 1 /\ (live.at # "boundary" => live.published)
  BY DEF RecordInv, Nodes
<1>5. CASE Publish
  <2>1. live' = [live EXCEPT !.published = TRUE] /\ Working
        /\ UNCHANGED <<up, snap, db, made, late, maxRuns>>
    BY <1>5 DEF Publish
  <2>2. /\ live' \in RecordType /\ live'.status \in Active /\ live'.trials = live.trials
        /\ live'.saved = live.saved /\ live'.flushed = live.flushed
        /\ live'.report = live.report /\ live'.published
        /\ live'.hyps = live.hyps /\ live'.tree = live.tree
    BY <1>0, <2>1 DEF RecordType, Working
  <2>. QED BY <1>0, <1>3, <1>4, <2>1, <2>2
<1>6. CASE Pause \/ Resume
  <2>1. PICK e \in Active : live' = [live EXCEPT !.status = e]
    BY <1>6 DEF Pause, Resume, Active
  <2>2. Working /\ UNCHANGED <<up, snap, db, made, late, maxRuns>>
    BY <1>6 DEF Pause, Resume, Working, Active
  <2>3. /\ live' \in RecordType /\ live'.status \in Active /\ live'.trials = live.trials
        /\ live'.saved = live.saved /\ live'.flushed = live.flushed
        /\ live'.report = live.report /\ live'.published = live.published
        /\ live'.hyps = live.hyps /\ live'.tree = live.tree /\ live'.at = live.at
    BY <1>0, <2>1 DEF RecordType, Statuses
  <2>. QED BY <1>0, <1>3, <1>4, <2>2, <2>3
<1>7. CASE Begin
  <2>1. live' = [live EXCEPT !.at = "proposing", !.events = live.events + 1, !.tree = live.hyps + 1]
        /\ Working /\ live.published /\ UNCHANGED <<up, snap, db, made, late, maxRuns>>
    BY <1>7 DEF Begin, Working, Active, Nodes
  <2>2. live.events + 1 \in Nat /\ live.hyps + 1 \in Nat /\ "proposing" \in Places
    BY <1>0 DEF Places
  <2>3. /\ live' \in RecordType /\ live'.status \in Active /\ live'.trials = live.trials
        /\ live'.saved = live.saved /\ live'.flushed = live.flushed
        /\ live'.report = live.report /\ live'.published
        /\ live'.hyps = live.hyps /\ live'.tree = live.hyps + 1
    BY <1>0, <2>1, <2>2 DEF RecordType, Working
  <2>4. live.hyps <= live'.hyps /\ live.tree <= live'.tree /\ live'.tree <= live'.hyps + 1
    BY <1>0, <1>4, <2>3
  <2>. QED BY <1>3, <2>1, <2>3, <2>4
<1>8. CASE Propose
  <2>1. live' = [live EXCEPT !.at = "trying", !.hyps = live.hyps + 1]
        /\ Working /\ live.published /\ UNCHANGED <<up, snap, db, made, late, maxRuns>>
    BY <1>4, <1>8 DEF Propose
  <2>2. live.hyps + 1 \in Nat /\ "trying" \in Places
    BY <1>0 DEF Places
  <2>3. /\ live' \in RecordType /\ live'.status \in Active /\ live'.trials = live.trials
        /\ live'.saved = live.saved /\ live'.flushed = live.flushed
        /\ live'.report = live.report /\ live'.published
        /\ live'.hyps = live.hyps + 1 /\ live'.tree = live.tree
    BY <1>0, <2>1, <2>2 DEF RecordType, Working
  <2>4. live.hyps <= live'.hyps /\ live.tree <= live'.tree /\ live'.tree <= live'.hyps + 1
    BY <1>0, <1>4, <2>3
  <2>. QED BY <1>3, <2>1, <2>3, <2>4
<1>9. CASE ProposeFails \/ Skip
  <2>1. live' = [live EXCEPT !.at = "boundary"] /\ Working /\ live.published
        /\ UNCHANGED <<up, snap, db, made, late, maxRuns>>
    BY <1>4, <1>9 DEF ProposeFails, Skip
  <2>2. /\ live' \in RecordType /\ live'.status \in Active /\ live'.trials = live.trials
        /\ live'.saved = live.saved /\ live'.flushed = live.flushed
        /\ live'.report = live.report /\ live'.published
        /\ live'.hyps = live.hyps /\ live'.tree = live.tree
    BY <1>0, <2>1 DEF RecordType, Working, Places
  <2>3. live.hyps <= live'.hyps /\ live.tree <= live'.tree /\ live'.tree <= live'.hyps + 1
    BY <1>0, <1>4, <2>2
  <2>. QED BY <1>3, <2>1, <2>2, <2>3
<1>10. ASSUME NEW f \in Fates, Judge(f) PROVE ViewsInv'
  <2>. DEFINE t == [id |-> live.hyps, fate |-> f]
  <2>1. t \in TrialType /\ Append(live.trials, t) \in Seq(TrialType)
    BY <1>0, RangeOfAppend DEF TrialType
  <2>2. live' = [live EXCEPT !.at = "boundary", !.trials = Append(live.trials, t)]
        /\ made' = made \cup {t} /\ UNCHANGED <<up, snap, db, late, maxRuns>> /\ Working
    BY <1>10 DEF Judge
  <2>3. live.published
    BY <1>4, <1>10 DEF Judge
  <2>. HIDE DEF t
  <2>4. live' \in RecordType
    BY <1>0, <2>1, <2>2 DEF RecordType, Places
  <2>5. /\ live'.status \in Active /\ live'.published /\ live'.trials = Append(live.trials, t)
        /\ live'.saved = live.saved /\ live'.flushed = live.flushed
        /\ live'.tree = live.tree /\ live'.report = live.report /\ live'.hyps = live.hyps
    BY <1>0, <2>2, <2>3 DEF Working, RecordType
  <2>. HIDE DEF ViewsInv
  <2>. QED BY <1>0, <1>4, <2>1, <2>2, <2>4, <2>5, GrowingRun
<1>11. ASSUME Working, live' \in RecordType, live'.status \in Terminal, HeartbeatCut,
              live'.trials = live.trials, live'.hyps = live.hyps, live'.saved = live.saved,
              live'.published = live.published, live.tree <= live'.tree,
              live'.tree <= live'.hyps + 1,
              ~live.published => /\ live'.tree = live.tree /\ live'.report = live.report
                                 /\ live'.at = live.at,
              UNCHANGED <<up, made, maxRuns>>
       PROVE  ViewsInv'
  <2>0. live.status \in Active /\ live.status # "none" /\ ~late /\ CutFlush
    BY <1>11 DEF Working, Active, RecordInv, HeartbeatCut
  <2>1. /\ snap' = NoSnap /\ snap' \in SnapType /\ db' \in RowType
        /\ db' = db \/ (snap.kind # "none" /\ db' = snap.image)
        /\ Covers(live, db', live.saved)
    BY <2>0, CutFacts
  <2>2. snap'.kind = "none" /\ ~snap'.landed
    BY <2>1 DEF NoSnap
  <2>3. snap.kind # "final" /\ db.status \notin Terminal /\ db.status # "none"
    BY <2>0 DEF SnapInv, FinalInv, RecordInv, Terminal, Active
  <2>4. db'.status = db.status \/ db'.status \in Active
    BY <1>0, <2>1, <2>3 DEF SnapInv, SnapType
  <2>5. late' \in BOOLEAN /\ (~late' => db' = db /\ ~snap.landed)
    BY <1>11, HeartbeatCutFacts
  <2>6. ServerType'
    BY <1>11, <2>1, <2>5 DEF ServerType
  <2>7. RecordInv'
    <3>1. ~live'.published =>
             /\ live'.hyps = 0 /\ live'.trials = <<>> /\ live'.at = "boundary"
             /\ live'.tree = 0 /\ ~live'.report
      BY <1>11 DEF RecordInv
    <3>2. made' = SeqRange(live'.trials) /\ db'.status # "none" /\ live'.status # "none" /\ up'
          /\ live'.status \notin Active
      BY <1>11, <2>0, <2>3, <2>4 DEF RecordInv, Working, Terminal, Active
    <3>. QED BY <1>11, <3>1, <3>2 DEF RecordInv, Nodes
  <2>8. SnapInv' /\ FinalInv'
    <3>1. db'.status \notin Terminal
      BY <2>3, <2>4 DEF Terminal, Active
    <3>2. SnapInv'
      BY <2>2 DEF SnapInv
    <3>3. FinalInv'
      <4>1. ~(snap'.kind = "final") /\ ~(db'.status \in Terminal)
        BY <2>2, <3>1
      <4>. QED BY <4>1, Zenon DEF FinalInv
    <3>. QED BY <3>2, <3>3
  <2>9. Covers(live', db', live'.saved)
    <3>1. db'.tree \in Nat /\ live.tree \in Nat /\ live'.tree \in Nat
      BY <1>0, <1>11, <2>1 DEF RowType, RecordType
    <3>2. db'.tree <= live.tree
      BY <2>1, Zenon DEF Covers
    <3>3. db'.tree <= live'.tree
      BY <1>11, <3>1, <3>2
    <3>. QED BY <1>11, <2>1, <3>3, Zenon DEF Covers
  <2>10. RowsInv'
    BY <2>2, <2>9 DEF RowsInv
  <2>11. OnceInv'
    BY <1>11, <2>0, <2>2, <2>5 DEF OnceInv, Exact
  <2>. QED BY <2>6, <2>7, <2>8, <2>10, <2>11
<1>12. ASSUME NEW e \in {"completed", "stopped"}, Complete(e) PROVE ViewsInv'
  <2>1. /\ live' = [live EXCEPT !.status = e, !.events = live.events + 1,
                                !.tree = live.hyps + 1, !.report = TRUE]
        /\ Working /\ live.published /\ HeartbeatCut /\ UNCHANGED <<up, made, maxRuns>>
    BY <1>12 DEF Complete, Nodes
  <2>2. live' \in RecordType /\ live'.status \in Terminal /\ live'.trials = live.trials
        /\ live'.hyps = live.hyps /\ live'.saved = live.saved
        /\ live'.published = live.published /\ live'.tree = live.hyps + 1
    <3>1. e \in Statuses /\ e \in Terminal /\ live.events + 1 \in Nat /\ live.hyps + 1 \in Nat
      BY <1>0 DEF Statuses, Terminal
    <3>. QED BY <1>0, <2>1, <3>1 DEF RecordType
  <2>. QED BY <1>0, <1>4, <1>11, <2>1, <2>2
<1>13. ASSUME NEW e \in {"failed", "interrupted"}, Abort(e) PROVE ViewsInv'
  <2>1. /\ live' = [live EXCEPT !.status = e]
        /\ Working /\ HeartbeatCut /\ UNCHANGED <<up, made, maxRuns>>
    BY <1>13 DEF Abort
  <2>2. live' \in RecordType /\ live'.status \in Terminal /\ live'.trials = live.trials
        /\ live'.hyps = live.hyps /\ live'.saved = live.saved /\ live'.at = live.at
        /\ live'.published = live.published /\ live'.tree = live.tree
        /\ live'.report = live.report
    BY <1>0, <2>1 DEF RecordType, Statuses, Terminal
  <2>. QED BY <1>0, <1>4, <1>11, <2>1, <2>2
<1>14. ASSUME NEW k \in {"beat", "final"}, Flush(k), snap = NoSnap, live.status # "none",
              k = "beat" => live.status \in Active,
              k = "final" => live.status \in Terminal /\ ~live.flushed
       PROVE  ViewsInv'
  <2>1. /\ Image \in RowType /\ Cursors \in CursorType /\ Image.status = live.status
        /\ Covers(live, Image, Cursors) /\ Agree(live, Image, late)
        /\ live.saved.trials <= Cursors.trials /\ live.saved.hyps <= Cursors.hyps
        /\ live.saved.tree <= Cursors.tree
        /\ ~late => Exact(live, Image, Cursors.trials)
    <3>1. ~snap.landed
      BY <1>14 DEF NoSnap
    <3>. HIDE DEF ViewsInv
    <3>. QED BY <1>14, <3>1, ImageFacts
  <2>2. /\ snap' = [kind |-> k, landed |-> FALSE, image |-> Image, cursors |-> Cursors]
        /\ UNCHANGED <<up, live, db, made, late, maxRuns>>
    BY <1>14 DEF Flush
  <2>3. /\ snap' \in SnapType /\ snap'.kind = k /\ ~snap'.landed /\ snap'.image = Image
        /\ snap'.cursors = Cursors
    BY <2>1, <2>2 DEF SnapType
  <2>4. ServerType' /\ RecordInv'
    BY <2>2, <2>3 DEF ServerType, RecordInv, Nodes
  <2>5. SnapInv' /\ RowsInv' /\ FinalInv'
    BY <1>14, <2>1, <2>2, <2>3 DEF SnapInv, RowsInv, FinalInv
  <2>6. OnceInv'
    BY <1>14, <2>1, <2>2, <2>3 DEF OnceInv, NoSnap
  <2>. QED BY <2>4, <2>5, <2>6
<1>15. CASE Heartbeat
  BY <1>14, <1>15 DEF Heartbeat, Working, Active
<1>16. CASE FinalFlush
  BY <1>14, <1>16 DEF FinalFlush, Terminal
<1>17. CASE CommitLands
  <2>1. /\ snap.kind # "none" /\ ~snap.landed /\ db' = snap.image
        /\ snap' = [snap EXCEPT !.landed = TRUE] /\ UNCHANGED <<up, live, made, late, maxRuns>>
    BY <1>17 DEF CommitLands
  <2>2. /\ snap' \in SnapType /\ snap'.kind = snap.kind /\ snap'.landed
        /\ snap'.image = snap.image /\ snap'.cursors = snap.cursors
    BY <1>0, <2>1 DEF SnapType
  <2>3. /\ live.status # "none" /\ snap.image.status # "none"
        /\ snap.kind = "final" => snap.image.status = live.status
        /\ snap.kind # "final" => snap.image.status \notin Terminal
    BY <1>0, <2>1 DEF SnapInv, SnapType, Terminal, Active
  <2>4. Covers(live, snap.image, live.saved)
    BY <1>0, <2>1, <2>3, CoversLess DEF RowsInv
  <2>5. ServerType' /\ RecordInv'
    BY <1>0, <2>1, <2>2, <2>3 DEF ServerType, RecordInv, Nodes
  <2>6. SnapInv' /\ RowsInv'
    BY <2>1, <2>2, <2>3, <2>4 DEF SnapInv, RowsInv
  <2>7. FinalInv'
    BY <1>0, <2>1, <2>2, <2>3 DEF FinalInv, SnapInv, SnapType
  <2>8. OnceInv'
    BY <2>1, <2>2 DEF OnceInv
  <2>. QED BY <2>5, <2>6, <2>7, <2>8
<1>18. CASE AdvanceCursors
  <2>1. /\ snap.landed /\ live' = [live EXCEPT !.saved = snap.cursors, !.flushed = Flushed]
        /\ snap' = NoSnap /\ UNCHANGED <<up, db, made, late, maxRuns>>
    BY <1>18 DEF AdvanceCursors
  <2>2. snap.kind # "none" /\ live.status # "none" /\ db = snap.image /\ Flushed \in BOOLEAN
    BY <1>0, <2>1 DEF SnapInv, SnapType, Terminal, Active, Flushed, RecordType
  <2>3. /\ live' \in RecordType /\ live'.saved = snap.cursors /\ live'.status = live.status
        /\ live'.published = live.published /\ live'.at = live.at
        /\ live'.hyps = live.hyps /\ live'.trials = live.trials
        /\ live'.tree = live.tree /\ live'.report = live.report
    BY <1>0, <2>1, <2>2 DEF RecordType
  <2>4. snap' \in SnapType /\ snap'.kind = "none" /\ ~snap'.landed
    BY <2>1, EmptyTypes DEF NoSnap
  <2>5. ServerType' /\ SnapInv'
    BY <2>1, <2>3, <2>4 DEF ServerType, SnapInv
  <2>6. RecordInv'
    BY <2>1, <2>2, <2>3 DEF RecordInv, Nodes
  <2>7. RowsInv'
    BY <2>1, <2>2, <2>3, <2>4 DEF RowsInv, Covers
  <2>8. FinalInv'
    BY <2>1, <2>2, <2>3, <2>4 DEF FinalInv, Agree
  <2>9. OnceInv'
    BY <2>1, <2>2, <2>3, <2>4 DEF OnceInv, Exact
  <2>. QED BY <2>5, <2>6, <2>7, <2>8, <2>9
<1>19. CASE FlushFails
  <2>1. /\ snap.kind # "none" /\ ~snap.landed /\ live' = [live EXCEPT !.flushed = Flushed]
        /\ snap' = NoSnap /\ UNCHANGED <<up, db, made, late, maxRuns>>
    BY <1>19 DEF FlushFails
  <2>2. live.status # "none" /\ Flushed \in BOOLEAN
    BY <1>0, <2>1 DEF SnapInv, SnapType, Terminal, Active, Flushed, RecordType
  <2>3. /\ live' \in RecordType /\ live'.saved = live.saved /\ live'.status = live.status
        /\ live'.published = live.published /\ live'.at = live.at
        /\ live'.hyps = live.hyps /\ live'.trials = live.trials
        /\ live'.tree = live.tree /\ live'.report = live.report
    BY <1>0, <2>1, <2>2 DEF RecordType
  <2>4. snap' \in SnapType /\ snap'.kind = "none" /\ ~snap'.landed
    BY <2>1, EmptyTypes DEF NoSnap
  <2>5. ServerType' /\ SnapInv'
    BY <2>1, <2>3, <2>4 DEF ServerType, SnapInv
  <2>6. RecordInv'
    BY <2>1, <2>2, <2>3 DEF RecordInv, Nodes
  <2>7. RowsInv'
    BY <2>1, <2>2, <2>3, <2>4 DEF RowsInv, Covers
  <2>8. FinalInv'
    BY <2>1, <2>2, <2>3, <2>4 DEF FinalInv, Agree
  <2>9. OnceInv'
    BY <2>1, <2>2, <2>3, <2>4 DEF OnceInv, Exact
  <2>. QED BY <2>5, <2>6, <2>7, <2>8, <2>9
<1>20. CASE Crash
  <2>1. live.status # "none" /\ up' = FALSE /\ live' = NoRun /\ CutFlush
        /\ UNCHANGED <<made, late, maxRuns>>
    BY <1>20 DEF Crash
  <2>2. /\ snap' = NoSnap /\ snap' \in SnapType /\ db' \in RowType
        /\ db' = db \/ (snap.kind # "none" /\ db' = snap.image)
    BY <2>1, CutFacts
  <2>3. live' \in RecordType /\ live'.status = "none" /\ snap'.kind = "none" /\ ~snap'.landed
    BY <2>1, <2>2, EmptyTypes DEF NoRun, NoSnap
  <2>4. db'.status # "none"
    BY <1>0, <2>1, <2>2 DEF RecordInv, SnapInv, SnapType, Terminal, Active
  <2>5. ServerType' /\ SnapInv' /\ RowsInv' /\ OnceInv' /\ FinalInv'
    BY <2>1, <2>2, <2>3 DEF ServerType, SnapInv, RowsInv, OnceInv, FinalInv
  <2>6. RecordInv'
    BY <2>1, <2>3, <2>4 DEF RecordInv, NoRun, Nodes, Active
  <2>. QED BY <2>5, <2>6
<1>21. CASE Restart
  <2>1. /\ ~up /\ up' = TRUE /\ UNCHANGED <<live, snap, made, late, maxRuns>>
        /\ db' = [db EXCEPT !.status = IF @ = "running" THEN "interrupted" ELSE @]
    BY <1>21 DEF Restart
  <2>2. live.status = "none" /\ snap.kind = "none" /\ ~snap.landed
    BY <1>0, <2>1 DEF RecordInv, SnapInv, SnapType, Terminal, Active
  <2>3. db' \in RowType /\ (db'.status = "none" => db.status = "none")
    BY <1>0, <2>1 DEF RowType, Statuses, Terminal
  <2>4. ServerType' /\ RecordInv' /\ SnapInv' /\ RowsInv' /\ OnceInv' /\ FinalInv'
    BY <2>1, <2>2, <2>3
       DEF ServerType, RecordInv, SnapInv, RowsInv, OnceInv, FinalInv, Nodes, Active
  <2>. QED BY <2>4
<1>. QED
  BY <1>1, <1>2, <1>5, <1>6, <1>7, <1>8, <1>9, <1>10, <1>12, <1>13, <1>15, <1>16, <1>17,
     <1>18, <1>19, <1>20, <1>21
     DEF ServerNext, RunStep, UserStep, RunEnds, RunBreaks, FlushStep

(***************************************************************************)
(* Whatever flushes are cancelled, fail or land twice, however often the   *)
(* server dies: the tables hold only trials that were made, all that the   *)
(* cursors say are stored, and once the final flush has landed the record  *)
(* and the snapshot in memory agree with them (flush_run, _run_task).      *)
(***************************************************************************)
THEOREM ViewsInvariant == Spec => []ViewsInv
<1>1. Init => ViewsInv
  BY ViewsStart DEF Init
<1>2. ViewsInv /\ [Next]_vars => ViewsInv'
  BY ViewsStep DEF Next, StateStep, AskState, CountRows, StateArrives, StreamStep, StreamRound,
     StreamExpires, StreamFrame, StreamDone, StreamDrops, PollStep, PollTick, PollRead,
     PollArrives, AskStats, StatsDone, ServerDies, ServerNext, vars
<1>. QED BY <1>1, <1>2, PTL DEF Spec

\* Rows that agree with the record give its answers to whoever asks.
LEMMA AgreeingAnswers ==
    ASSUME NEW u, live.status # "none", db.status = live.status, Agree(live, db, late),
           SeqRange(db.trials) \subseteq SeqRange(live.trials), live.hyps \in Nat,
           live.report \in BOOLEAN, db.report \in BOOLEAN,
           ~live.published => ~live.report
    PROVE  /\ Details(u, live) = Details(u, NoRun)
           /\ ~late => Lists(u, live) = Lists(u, NoRun)
<1>1. /\ OwnsRow(u) = OwnsRecord(u, live) /\ ~OwnsRecord(u, NoRun) /\ ~SeesState(u, NoRun)
      /\ SeesState(u, live) => OwnsRow(u)
      /\ OwnsRecord(u, live) = (u = Owner)
  BY DEF OwnsRow, OwnsRecord, SeesState, NoRun
<1>2. Stored = SeqRange(live.trials) /\ SeqRange(db.trials) = SeqRange(live.trials)
  BY DEF Agree, Stored
<1>3. ASSUME ~late PROVE Lists(u, live) = Lists(u, NoRun)
  <2>1. db.trials = live.trials
    BY <1>3 DEF Agree
  <2>2. CandidatesAnswer(u, live) = CandidatesAnswer(u, NoRun)
    BY <1>1, <2>1, Zenon DEF CandidatesAnswer, StoredCandidates
  <2>3. GraveyardAnswer(u, live) = GraveyardAnswer(u, NoRun)
    BY <1>1, <2>1, Zenon DEF GraveyardAnswer, StoredFailures
  <2>. QED BY <2>2, <2>3 DEF Lists
<1>4. HypothesisAnswer(u, live) = HypothesisAnswer(u, NoRun)
  <2>1. live.hyps > 0 => /\ StoredHypotheses # <<>>
                         /\ StoredHypotheses[Len(StoredHypotheses)] = live.hyps
    BY DEF Agree, StoredHypotheses
  <2>. QED BY <1>1, <2>1, Zenon DEF HypothesisAnswer
<1>5. LineageAnswer(u, live) = LineageAnswer(u, NoRun)
  <2>1. StoredTree = live.tree
    BY Zenon DEF Agree, StoredTree
  <2>. QED BY <1>1, <2>1, Zenon DEF LineageAnswer
<1>6. \A id : Dossier(u, live, id) = Dossier(u, NoRun, id)
  <2>1. \A id : Candidate(live.trials, id) = StoredCandidate(id)
    BY <1>2, Zenon DEF Candidate, StoredCandidate
  <2>. QED BY <1>1, <2>1, Zenon DEF Dossier
<1>7. ReportAnswer(u, live) = ReportAnswer(u, NoRun)
  <2>1. live.report => StoredReport = [status |-> live.status, available |-> TRUE]
    BY Zenon DEF Agree, StoredReport
  <2>. QED BY <1>1, <2>1, Zenon DEF ReportAnswer
<1>. QED BY <1>3, <1>4, <1>5, <1>6, <1>7 DEF Details

(***************************************************************************)
(* Once the final flush of a run has landed, a restart of the server, that *)
(* loses its record, changes no answer of the endpoints that look one      *)
(* thing up, whatever flushes were cut off, failed or stored a trial twice *)
(* before, and none of the lists and counts, unless a COMMIT has outlived  *)
(* the cancel of its heartbeat; then too the same trials are stored.       *)
(***************************************************************************)
THEOREM AnswersTheorem == Spec => []AnswersSurviveRestart
<1>1. ViewsInv => AnswersSurviveRestart
  <2>. SUFFICES ASSUME ViewsInv, live.status \in Terminal, db.status = live.status
                PROVE  /\ \A u \in Users : Details(u, live) = Details(u, NoRun)
                       /\ ~late => \A u \in Users : Lists(u, live) = Lists(u, NoRun)
                       /\ Stored = SeqRange(live.trials)
    BY DEF AnswersSurviveRestart
  <2>1. /\ live.status # "none" /\ Agree(live, db, late)
        /\ SeqRange(db.trials) \subseteq SeqRange(live.trials)
    BY DEF ViewsInv, FinalInv, RowsInv, Covers, Terminal
  <2>2. /\ live.hyps \in Nat /\ live.report \in BOOLEAN /\ db.report \in BOOLEAN
    BY DEF ViewsInv, ServerType, RecordType, RowType
  <2>3. ~live.published => ~live.report
    BY DEF ViewsInv, RecordInv
  <2>4. ASSUME NEW u \in Users
        PROVE  /\ Details(u, live) = Details(u, NoRun)
               /\ ~late => Lists(u, live) = Lists(u, NoRun)
    BY <2>1, <2>2, <2>3, AgreeingAnswers
  <2>5. Stored = SeqRange(live.trials)
    BY <2>1 DEF Stored, Agree
  <2>. QED BY <2>4, <2>5
<1>. QED BY <1>1, ViewsInvariant, PTL

-----------------------------------------------------------------------------
(* The list of events *)

StreamType == [open : BOOLEAN, cursor : Nat, got : Nat, quiet : Nat, ended : BOOLEAN]
PollType == [read : BOOLEAN, since : Nat, upto : Nat]

\* Every row up to n is on the list.  sinceRef, the stream and each poll under way
\* only ever stand at such a row: there is nothing missing before what they bring.
AllShown(n) == \A r \in Rows : r <= n => shown[r] > 0

ListInv ==
    /\ shown \in [Rows -> Nat] /\ since \in Nat
    /\ stream \in StreamType /\ polls \subseteq PollType
    /\ AllShown(since) /\ AllShown(stream.got)
    /\ \A p \in polls : AllShown(p.since)
    /\ NoRowIsSkipped

\* Rows that follow on what is shown leave no gap.
LEMMA AppendFacts ==
    ASSUME shown \in [Rows -> Nat], since \in Nat, AllShown(since), NoRowIsSkipped,
           NEW from \in Nat, NEW upto \in Nat, AllShown(from), Append1(from, upto)
    PROVE  /\ shown' \in [Rows -> Nat] /\ since' \in Nat
           /\ AllShown(since)' /\ NoRowIsSkipped'
           /\ \A r \in Rows : shown[r] > 0 => shown'[r] > 0
           /\ \A r \in Rows : r <= upto => shown'[r] > 0
<1>1. Rows \subseteq Nat /\ Rows = 1..MaxRows /\ MaxRows \in Nat
  BY BoundsAssumption DEF Rows, MaxRows
<1>2. \A n \in Nat : Once(n) \in Nat /\ Once(n) > 0
  BY MaxCopiesAssumption DEF Once
<1>3. shown' = [r \in Rows |-> IF r \in from + 1..upto THEN Once(shown[r]) ELSE shown[r]]
      /\ since' = IF upto > from THEN upto ELSE since
  BY DEF Append1
<1>4. shown' \in [Rows -> Nat] /\ since' \in Nat
  BY <1>2, <1>3
<1>5. \A r \in Rows : shown[r] > 0 => shown'[r] > 0
  BY <1>2, <1>3
<1>6. \A r \in Rows : r <= upto => shown'[r] > 0
  <2>. SUFFICES ASSUME NEW r \in Rows, r <= upto PROVE shown'[r] > 0
    OBVIOUS
  <2>1. CASE r <= from
    BY <1>5, <2>1 DEF AllShown
  <2>2. CASE r > from
    BY <1>1, <1>2, <1>3, <2>2
  <2>. QED BY <1>1, <2>1, <2>2
<1>7. AllShown(since)'
  BY <1>3, <1>5, <1>6 DEF AllShown
<1>8. NoRowIsSkipped'
  <2>. SUFFICES ASSUME NEW r \in Rows, shown'[r] > 0, NEW q \in 1..r PROVE shown'[q] > 0
    BY DEF NoRowIsSkipped
  <2>1. q \in Rows
    BY <1>1
  <2>2. CASE shown[r] > 0
    BY <1>5, <2>1, <2>2 DEF NoRowIsSkipped
  <2>3. CASE ~(shown[r] > 0)
    <3>1. r <= upto
      BY <1>1, <1>3, <2>3
    <3>. QED BY <1>1, <1>6, <2>1, <3>1
  <2>. QED BY <2>2, <2>3
<1>. QED BY <1>4, <1>5, <1>6, <1>7, <1>8

LEMMA ListStep ==
    ASSUME ListInv, Len(db.events) \in Nat, [Next]_vars
    PROVE  ListInv'
<1>0. NoStream \in StreamType /\ NoStream.got = 0 /\ Unread \in PollType /\ Unread.since = since
  BY DEF ListInv, NoStream, StreamType, Unread, PollType
<1>1. AllShown(0)
  BY BoundsAssumption DEF AllShown, Rows, MaxRows
<1>2. ASSUME UNCHANGED <<stream, since, shown, polls>> PROVE ListInv'
  BY <1>2 DEF ListInv, AllShown, NoRowIsSkipped
<1>3. ASSUME UNCHANGED <<since, shown>>, stream' = stream \/ stream' = NoStream
                \/ (stream' \in StreamType /\ stream'.got \in {stream.got, since}),
             polls' \subseteq polls \cup {Unread}
      PROVE  ListInv'
  <2>1. stream' \in StreamType /\ stream'.got \in {stream.got, since, 0}
    BY <1>0, <1>3 DEF ListInv
  <2>2. AllShown(stream.got)'
    BY <1>1, <1>3, <2>1 DEF ListInv, AllShown
  <2>3. polls' \subseteq PollType /\ \A p \in polls' : AllShown(p.since)
    BY <1>0, <1>3 DEF ListInv
  <2>4. \A p \in polls' : AllShown(p.since)'
    BY <1>3, <2>3 DEF AllShown
  <2>. QED BY <1>3, <2>1, <2>2, <2>3, <2>4 DEF ListInv, AllShown, NoRowIsSkipped
<1>4. CASE (RunStep \/ UserStep \/ RunBreaks \/ Heartbeat \/ FlushStep \/ FlushFails \/ Restart)
              /\ UNCHANGED pageVars
  BY <1>2, <1>4 DEF pageVars
<1>5. CASE ServerDies
  BY <1>3, <1>5 DEF ServerDies
<1>6. CASE AskState \/ (\E q \in asking : CountRows(q)) \/ AskStats \/ StatsDone
  BY <1>2, <1>6 DEF AskState, CountRows, AskStats, StatsDone, eventVars
<1>7. ASSUME NEW q \in asking, StateArrives(q) PROVE ListInv'
  <2>1. CASE UNCHANGED <<effect, stream, polls>>
    BY <1>2, <1>7, <2>1 DEF StateArrives
  <2>2. CASE RunEffect(q.status)
    <3>1. [NoStream EXCEPT !.open = TRUE, !.cursor = since, !.got = since] \in StreamType
          /\ [NoStream EXCEPT !.open = TRUE, !.cursor = since, !.got = since].got = since
      BY DEF ListInv, NoStream, StreamType
    <3>2. \/ /\ stream' = [NoStream EXCEPT !.open = TRUE, !.cursor = since, !.got = since]
             /\ polls' = polls
          \/ stream' = NoStream /\ polls' = polls \cup {Unread}
      BY <2>2, Zenon DEF RunEffect
    <3>. QED BY <1>3, <1>7, <3>1, <3>2 DEF StateArrives
  <2>. QED BY <1>7, <2>1, <2>2 DEF StateArrives
<1>8. CASE StreamRound \/ StreamExpires
  <2>1. ASSUME NEW c \in Nat, NEW n \in Nat, NEW e \in BOOLEAN,
               stream' = [stream EXCEPT !.cursor = c, !.quiet = n, !.ended = e]
        PROVE  stream' \in StreamType /\ stream'.got = stream.got
    BY <2>1 DEF ListInv, StreamType
  <2>2. CASE StreamRound
    <3>. DEFINE fresh == Len(db.events) > stream.cursor
                quiet == IF RunIsOver /\ ~fresh THEN stream.quiet + 1 ELSE 0
                cursor == IF fresh THEN Len(db.events) ELSE stream.cursor
                ended == quiet = 2
    <3>1. quiet \in Nat /\ cursor \in Nat /\ ended \in BOOLEAN
      BY DEF ListInv, StreamType
    <3>2. stream' = [stream EXCEPT !.cursor = cursor, !.quiet = quiet, !.ended = ended]
      BY <2>2, Zenon DEF StreamRound
    <3>. HIDE DEF fresh, quiet, cursor, ended
    <3>3. stream' \in StreamType /\ stream'.got = stream.got
      BY <2>1, <3>1, <3>2
    <3>. QED BY <1>3, <2>2, <3>3 DEF StreamRound
  <2>3. CASE StreamExpires
    <3>1. stream' \in StreamType /\ stream'.got = stream.got
      BY <2>3 DEF ListInv, StreamType, StreamExpires
    <3>. QED BY <1>3, <2>3, <3>1 DEF StreamExpires
  <2>. QED BY <1>8, <2>2, <2>3
<1>9. CASE StreamFrame
  <2>1. /\ Append1(stream.got, stream.got + 1) /\ stream' = [stream EXCEPT !.got = @ + 1]
        /\ polls' = polls
    BY <1>9 DEF StreamFrame
  <2>2. /\ stream.got \in Nat /\ stream.got + 1 \in Nat /\ stream' \in StreamType
        /\ stream'.got = stream.got + 1
    BY <2>1 DEF ListInv, StreamType
  <2>3. /\ shown' \in [Rows -> Nat] /\ since' \in Nat /\ AllShown(since)' /\ NoRowIsSkipped'
        /\ \A r \in Rows : shown[r] > 0 => shown'[r] > 0
        /\ \A r \in Rows : r <= stream.got + 1 => shown'[r] > 0
    BY <2>1, <2>2, AppendFacts DEF ListInv
  <2>4. AllShown(stream.got)'
    BY <2>2, <2>3 DEF AllShown
  <2>5. \A p \in polls' : AllShown(p.since)'
    BY <2>1, <2>3 DEF ListInv, AllShown
  <2>. QED BY <2>1, <2>2, <2>3, <2>4, <2>5 DEF ListInv
<1>10. CASE StreamDone \/ StreamDrops \/ PollTick
  BY <1>3, <1>10 DEF StreamDone, StreamDrops, PollTick, StartPolling
<1>11. ASSUME NEW p \in polls, PollRead(p) PROVE ListInv'
  <2>. DEFINE q == [p EXCEPT !.read = TRUE,
                             !.upto = IF Len(db.events) > p.since THEN Len(db.events) ELSE p.since]
  <2>1. p \in PollType /\ q \in PollType /\ q.since = p.since
    BY DEF ListInv, PollType
  <2>2. polls' = (polls \ {p}) \cup {q} /\ UNCHANGED <<stream, since, shown>>
    BY <1>11 DEF PollRead
  <2>. HIDE DEF q
  <2>3. \A o \in polls' : o \in PollType /\ AllShown(o.since)'
    BY <2>1, <2>2 DEF ListInv, AllShown
  <2>. QED BY <2>2, <2>3 DEF ListInv, AllShown, NoRowIsSkipped
<1>12. ASSUME NEW p \in polls, PollArrives(p) PROVE ListInv'
  <2>1. polls' = polls \ {p} /\ Append1(p.since, p.upto) /\ stream' = stream
    BY <1>12 DEF PollArrives
  <2>2. p.since \in Nat /\ p.upto \in Nat /\ AllShown(p.since)
    BY DEF ListInv, PollType
  <2>3. /\ shown' \in [Rows -> Nat] /\ since' \in Nat /\ AllShown(since)' /\ NoRowIsSkipped'
        /\ \A r \in Rows : shown[r] > 0 => shown'[r] > 0
    BY <2>1, <2>2, AppendFacts DEF ListInv
  <2>4. AllShown(stream.got)' /\ \A o \in polls' : AllShown(o.since)'
    BY <2>1, <2>3 DEF ListInv, AllShown
  <2>. QED BY <2>1, <2>3, <2>4 DEF ListInv
<1>13. CASE UNCHANGED vars
  BY <1>2, <1>13 DEF vars, pageVars
<1>. QED
  BY <1>4, <1>5, <1>6, <1>7, <1>8, <1>9, <1>10, <1>11, <1>12, <1>13
     DEF Next, StateStep, StreamStep, PollStep

(***************************************************************************)
(* However polls, streams and restarts overlap, for any number of rows and *)
(* of requests, the list of events the page has built has no gap.          *)
(***************************************************************************)
THEOREM ListTheorem == Spec => []NoRowIsSkipped
<1>1. Init => ListInv
  BY BoundsAssumption
     DEF Init, ListInv, NoStream, StreamType, AllShown, NoRowIsSkipped, Rows, MaxRows
<1>2. ViewsInv => Len(db.events) \in Nat
  BY LenProperties DEF ViewsInv, ServerType, RowType
<1>3. ListInv => NoRowIsSkipped
  BY DEF ListInv
<1>. QED BY <1>1, <1>2, <1>3, ListStep, ViewsInvariant, PTL DEF Spec

-----------------------------------------------------------------------------
(* What is shown as ended *)

\* Counting rows counts at least the trials that are among them.
LEMMA HowManyFacts ==
    ASSUME NEW ts \in Seq(TrialType), NEW S
    PROVE  /\ HowMany(ts, S) \in Nat
           /\ IsFiniteSet({t \in SeqRange(ts) : t.fate \in S})
           /\ Cardinality({t \in SeqRange(ts) : t.fate \in S}) \in Nat
           /\ Cardinality({t \in SeqRange(ts) : t.fate \in S}) <= HowMany(ts, S)
<1>. DEFINE I == {i \in DOMAIN ts : ts[i].fate \in S}
            R == {t \in SeqRange(ts) : t.fate \in S}
            f == [i \in I |-> ts[i]]
<1>1. IsFiniteSet(I)
  <2>1. Len(ts) \in Nat /\ DOMAIN ts = 1..Len(ts)
    BY LenProperties
  <2>2. IsFiniteSet(1..Len(ts))
    BY <2>1, FS_Interval
  <2>. QED BY <2>1, <2>2, FS_Subset
<1>2. f \in [I -> R] /\ \A t \in R : \E i \in I : f[i] = t
  BY DEF SeqRange
<1>. HIDE DEF I, R, f
<1>3. f \in Surjection(I, R)
  BY <1>2, Fun_IsSurj
<1>4. IsFiniteSet(R) /\ Cardinality(R) <= Cardinality(I)
  BY <1>1, <1>3, FS_Surjection
<1>. QED BY <1>1, <1>4, FS_CardinalityType DEF HowMany, I, R

LEMMA UnionCount ==
    ASSUME NEW A, NEW B, IsFiniteSet(A), IsFiniteSet(B)
    PROVE  /\ IsFiniteSet(A \cup B)
           /\ Cardinality(A \cup B) <= Cardinality(A) + Cardinality(B)
           /\ A \cap B = {} => Cardinality(A \cup B) = Cardinality(A) + Cardinality(B)
<1>1. IsFiniteSet(A \cap B)
  BY FS_Subset
<1>2. /\ Cardinality(A) \in Nat /\ Cardinality(B) \in Nat /\ Cardinality(A \cap B) \in Nat
      /\ A \cap B = {} => Cardinality(A \cap B) = 0
  BY <1>1, FS_CardinalityType, FS_EmptySet
<1>. QED BY <1>2, FS_Union

Total(counts) == counts.candidates + counts.failures

\* Every stored trial is counted, as a candidate or as a failure.
LEMMA CountsFacts ==
    ASSUME NEW ts \in Seq(TrialType)
    PROVE  /\ Counts(ts) \in [candidates : Nat, failures : Nat]
           /\ IsFiniteSet(SeqRange(ts))
           /\ Cardinality(SeqRange(ts)) <= Total(Counts(ts))
<1>. DEFINE A == {t \in SeqRange(ts) : t.fate \in Verdicts \cup RegimeStatuses}
            B == {t \in SeqRange(ts) : t.fate \in Deaths}
<1>1. SeqRange(ts) = A \cup B
  <2>1. SeqRange(ts) \subseteq TrialType
    BY LenProperties DEF SeqRange
  <2>. QED BY <2>1, FatesAssumption DEF TrialType
<1>. HIDE DEF A, B
<1>2. /\ IsFiniteSet(A) /\ Cardinality(A) \in Nat
      /\ HowMany(ts, Verdicts \cup RegimeStatuses) \in Nat
      /\ Cardinality(A) <= HowMany(ts, Verdicts \cup RegimeStatuses)
  BY HowManyFacts DEF A
<1>3. /\ IsFiniteSet(B) /\ Cardinality(B) \in Nat /\ HowMany(ts, Deaths) \in Nat
      /\ Cardinality(B) <= HowMany(ts, Deaths)
  BY HowManyFacts DEF B
<1>4. IsFiniteSet(A \cup B) /\ Cardinality(A \cup B) <= Cardinality(A) + Cardinality(B)
      /\ Cardinality(A \cup B) \in Nat
  BY <1>2, <1>3, UnionCount, FS_CardinalityType
<1>. QED BY <1>1, <1>2, <1>3, <1>4 DEF Counts, Total

\* The statistics count what is no regime idea, and no verdict twice.
LEMMA StatsFacts ==
    ASSUME NEW ts \in Seq(TrialType)
    PROVE  /\ Cardinality({t \in SeqRange(ts) : t.fate \notin RegimeStatuses}) <= Stats(ts).valid
           /\ Stats(ts).passed + Stats(ts).failed <= Stats(ts).valid
<1>. DEFINE A == {t \in SeqRange(ts) : t.fate \in Verdicts}
            B == {t \in SeqRange(ts) : t.fate \in Deaths}
            C == {t \in SeqRange(ts) : t.fate \notin RegimeStatuses}
            At(S) == {i \in DOMAIN ts : ts[i].fate \in S}
<1>1. C = A \cup B
  <2>1. SeqRange(ts) \subseteq TrialType
    BY LenProperties DEF SeqRange
  <2>. QED BY <2>1, FatesAssumption DEF TrialType, Verdicts, Deaths, RegimeStatuses
<1>2. /\ Stats(ts).valid = HowMany(ts, Verdicts) + HowMany(ts, Deaths)
      /\ Stats(ts).passed = Cardinality(At({"PASS"}))
      /\ Stats(ts).failed = Cardinality(At({"FAIL"}))
      /\ HowMany(ts, Verdicts) = Cardinality(At(Verdicts))
  BY DEF Stats, HowMany
<1>3. At({"PASS"}) \cap At({"FAIL"}) = {} /\ At({"PASS"}) \cup At({"FAIL"}) \subseteq At(Verdicts)
  BY DEF Verdicts
<1>4. IsFiniteSet(At(Verdicts))
  <2>1. Len(ts) \in Nat /\ DOMAIN ts = 1..Len(ts)
    BY LenProperties
  <2>2. IsFiniteSet(1..Len(ts))
    BY <2>1, FS_Interval
  <2>. QED BY <2>1, <2>2, FS_Subset
<1>. HIDE DEF A, B, C, At
<1>5. /\ IsFiniteSet(A) /\ Cardinality(A) \in Nat /\ HowMany(ts, Verdicts) \in Nat
      /\ Cardinality(A) <= HowMany(ts, Verdicts)
  BY HowManyFacts DEF A
<1>6. /\ IsFiniteSet(B) /\ Cardinality(B) \in Nat /\ HowMany(ts, Deaths) \in Nat
      /\ Cardinality(B) <= HowMany(ts, Deaths)
  BY HowManyFacts DEF B
<1>7. Cardinality(C) \in Nat /\ Cardinality(C) <= Cardinality(A) + Cardinality(B)
  BY <1>1, <1>5, <1>6, UnionCount, FS_CardinalityType
<1>8. Cardinality(At({"PASS"})) + Cardinality(At({"FAIL"})) <= Cardinality(At(Verdicts))
  <2>1. IsFiniteSet(At({"PASS"})) /\ IsFiniteSet(At({"FAIL"}))
    BY <1>3, <1>4, FS_Subset
  <2>2. Cardinality(At({"PASS"}) \cup At({"FAIL"}))
           = Cardinality(At({"PASS"})) + Cardinality(At({"FAIL"}))
    BY <1>3, <2>1, UnionCount
  <2>3. Cardinality(At({"PASS"}) \cup At({"FAIL"})) <= Cardinality(At(Verdicts))
    BY <1>3, <1>4, FS_Subset
  <2>. QED BY <2>2, <2>3
<1>9. /\ Cardinality(At({"PASS"})) \in Nat /\ Cardinality(At({"FAIL"})) \in Nat
  BY <1>3, <1>4, FS_Subset, FS_CardinalityType
<1>. QED BY <1>2, <1>5, <1>6, <1>7, <1>8, <1>9 DEF C

\* A row that shows an end is closed: no flush will touch it again, and unless the
\* run was interrupted it holds every trial the run has made.
ClosedInv ==
    /\ IsFiniteSet(made) /\ Stored \subseteq made
    /\ db.status \in Terminal =>
         /\ live.status \notin Active
         /\ db.status # "interrupted" => made \subseteq Stored
         /\ live.status # "none" => live.flushed \/ snap.landed

\* The run is over, and nothing can start it again.
Over == live.status \notin Active /\ db.status # "none"

\* Then only flushes, a crash and a restart are left.
LEMMA AfterTheEnd ==
    ASSUME ServerNext \/ UNCHANGED serverVars, live.status \notin Active, ~StartRun
    PROVE  \/ FinalFlush \/ CommitLands \/ AdvanceCursors \/ FlushFails
           \/ Crash \/ Restart \/ UNCHANGED serverVars
<1>1. ~Working /\ live.status # "running" /\ live.status # "paused"
  BY DEF Working, Active
<1>2. ~RunStep
  BY <1>1 DEF RunStep, Publish, Begin, Propose, ProposeFails, Judge, Skip, RunEnds, Complete
<1>3. ~UserStep /\ ~RunBreaks /\ ~Heartbeat
  BY <1>1 DEF UserStep, Pause, Resume, RunBreaks, Abort, Heartbeat
<1>. QED BY <1>2, <1>3 DEF ServerNext, FlushStep

LEMMA OverStays ==
    ASSUME ViewsInv, ServerNext \/ UNCHANGED serverVars, Over
    PROVE  Over' /\ made' = made
<1>1. live.status \notin Active /\ db.status # "none" /\ db # NoRow
  BY DEF Over, NoRow, Active
<1>2. ~StartRun
  BY <1>1 DEF StartRun
<1>3. CASE UNCHANGED serverVars
  BY <1>1, <1>3 DEF serverVars, Over
<1>4. CASE FinalFlush
  BY <1>1, <1>4 DEF FinalFlush, Flush, Over
<1>5. CASE CommitLands
  <2>1. snap.kind = "final" /\ db' = snap.image /\ UNCHANGED <<live, made>>
    BY <1>1, <1>5 DEF CommitLands, ViewsInv, SnapInv, ServerType, SnapType
  <2>. QED BY <1>1, <2>1 DEF Over, ViewsInv, SnapInv, Terminal, Active
<1>6. CASE AdvanceCursors \/ FlushFails
  <2>1. live'.status = live.status /\ UNCHANGED <<db, made>>
    BY <1>6 DEF AdvanceCursors, FlushFails, ViewsInv, ServerType, RecordType
  <2>. QED BY <1>1, <2>1 DEF Over
<1>7. CASE Crash
  <2>1. live'.status = "none" /\ made' = made /\ CutFlush
    BY <1>7 DEF Crash, NoRun
  <2>2. db' = db \/ (snap.kind # "none" /\ db' = snap.image)
    BY <2>1, CutFacts
  <2>3. snap.kind # "none" => snap.image.status \in Terminal \cup Active
    BY DEF ViewsInv, SnapInv, ServerType, SnapType
  <2>. QED BY <1>1, <2>1, <2>2, <2>3 DEF Over, Terminal, Active
<1>8. CASE Restart
  <2>1. live' = live /\ made' = made /\ db'.status # "none"
    BY <1>1, <1>8 DEF Restart, ViewsInv, ServerType, RowType
  <2>. QED BY <1>1, <2>1 DEF Over
<1>. QED
  BY <1>1, <1>2, <1>3, <1>4, <1>5, <1>6, <1>7, <1>8, AfterTheEnd

LEMMA ClosedStays ==
    ASSUME ViewsInv, ClosedInv, ServerNext \/ UNCHANGED serverVars, db.status \in Terminal
    PROVE  db' = db
<1>1. live.status \notin Active /\ db.status # "none" /\ db.status \notin Active /\ db # NoRow
  BY DEF ClosedInv, Terminal, Active, NoRow
<1>2. live.status # "none" => live.flushed \/ snap.landed
  BY DEF ClosedInv
<1>3. ~StartRun
  BY <1>1 DEF StartRun
<1>4. snap.kind # "none" => snap.landed /\ snap.image = db
  BY <1>1, <1>2 DEF ViewsInv, SnapInv, ServerType, SnapType, Terminal, Active
<1>5. CASE Crash
  <2>1. db' = db \/ (snap.kind # "none" /\ db' = snap.image)
    BY <1>5, CutFacts DEF Crash
  <2>. QED BY <1>4, <2>1
<1>6. CASE Restart
  <2>1. db \in RowType /\ db.status # "running"
    BY <1>1 DEF ViewsInv, ServerType, Active
  <2>. QED BY <1>6, <2>1 DEF Restart, RowType
<1>7. CASE FinalFlush \/ AdvanceCursors \/ FlushFails \/ UNCHANGED serverVars
  BY <1>7 DEF FinalFlush, Flush, AdvanceCursors, FlushFails, serverVars
<1>8. ~CommitLands
  BY <1>4 DEF CommitLands
<1>. QED BY <1>1, <1>3, <1>5, <1>6, <1>7, <1>8, AfterTheEnd

LEMMA ClosedStep ==
    ASSUME ViewsInv, ViewsInv', ClosedInv, ServerNext \/ UNCHANGED serverVars
    PROVE  ClosedInv'
<1>1. IsFiniteSet(made')
  <2>1. CASE made' = made
    BY <2>1 DEF ClosedInv
  <2>2. CASE \E f \in Fates : Judge(f)
    <3>1. PICK t : made' = made \cup {t}
      BY <2>2 DEF Judge
    <3>. QED BY <3>1, FS_AddElement DEF ClosedInv
  <2>. QED
    BY <2>1, <2>2
       DEF ServerNext, RunStep, StartRun, Publish, Begin, Propose, ProposeFails, Skip,
           RunEnds, Complete, UserStep, Pause, Resume, RunBreaks, Abort, Heartbeat, FlushStep,
           FinalFlush, Flush, CommitLands, AdvanceCursors, FlushFails, Crash, Restart, serverVars
<1>2. Stored' \subseteq made'
  <2>1. CASE live'.status # "none"
    BY <2>1 DEF ViewsInv, RowsInv, RecordInv, Covers, Stored
  <2>2. CASE live'.status = "none" /\ live.status = "none"
    <3>1. CASE Restart
      <4>1. db'.trials = db.trials /\ made' = made
        BY <3>1 DEF Restart, ViewsInv, ServerType, RowType
      <4>. QED BY <4>1 DEF ClosedInv, Stored
    <3>2. CASE UNCHANGED serverVars
      BY <3>2 DEF ClosedInv, Stored, serverVars
    <3>3. live.status = "none" => snap.kind = "none" /\ ~snap.landed
      BY DEF ViewsInv, SnapInv, ServerType, SnapType, Terminal, Active
    <3>4. ~StartRun /\ live.status \notin Active
      BY <2>2 DEF StartRun, NoRun, Active
    <3>5. ~FinalFlush /\ ~CommitLands /\ ~AdvanceCursors /\ ~FlushFails /\ ~Crash
      BY <2>2, <3>3 DEF FinalFlush, CommitLands, AdvanceCursors, FlushFails, Crash, Terminal
    <3>. QED BY <3>1, <3>2, <3>4, <3>5, AfterTheEnd
  <2>3. CASE Crash
    <3>1. db' = db \/ (snap.kind # "none" /\ db' = snap.image)
      BY <2>3, CutFacts DEF Crash
    <3>2. live.status # "none" /\ made' = made
      BY <2>3 DEF Crash
    <3>3. SeqRange(db.trials) \subseteq made
      BY <3>2 DEF ViewsInv, RowsInv, RecordInv, Covers
    <3>4. snap.kind # "none" => SeqRange(snap.image.trials) \subseteq made
      BY <3>2 DEF ViewsInv, RowsInv, RecordInv, Covers
    <3>. QED BY <3>1, <3>2, <3>3, <3>4 DEF Stored, ClosedInv
  <2>4. CASE live'.status = "none" /\ live.status # "none" /\ ~Crash
    <3>1. live \in RecordType /\ live.status # "none"
      BY <2>4 DEF ViewsInv, ServerType
    <3>2. ASSUME RunStep PROVE live'.status # "none"
      BY <3>1, <3>2 DEF RunStep, StartRun, Publish, Begin, Propose, ProposeFails, Judge, Skip,
                        RunEnds, Complete, RecordType, NoRun
    <3>3. ASSUME RunBreaks \/ UserStep PROVE live'.status # "none"
      BY <3>1, <3>3 DEF RunBreaks, Abort, UserStep, Pause, Resume, RecordType
    <3>4. ASSUME FlushStep \/ FlushFails PROVE live'.status = live.status
      BY <3>1, <3>4 DEF FlushStep, FinalFlush, Flush, CommitLands, AdvanceCursors, FlushFails,
                        RecordType
    <3>5. ASSUME Heartbeat \/ Restart \/ UNCHANGED serverVars PROVE live'.status = live.status
      BY <3>5 DEF Heartbeat, Flush, Restart, serverVars
    <3>. QED BY <2>4, <3>2, <3>3, <3>4, <3>5 DEF ServerNext
  <2>. QED BY <2>1, <2>2, <2>3, <2>4
<1>3. ASSUME db.status \in Terminal
      PROVE  /\ live'.status \notin Active
             /\ db'.status # "interrupted" => made' \subseteq Stored'
             /\ live'.status # "none" => live'.flushed \/ snap'.landed
  <2>1. live.status \notin Active /\ db.status # "none"
    BY <1>3 DEF ClosedInv, Terminal, Active
  <2>2. db' = db /\ made' = made /\ live'.status \notin Active
    BY <1>3, <2>1, ClosedStays, OverStays DEF Over
  <2>3. db.status # "interrupted" => made \subseteq Stored
    BY <1>3 DEF ClosedInv
  <2>4. ASSUME live'.status # "none" PROVE live'.flushed \/ snap'.landed
    <3>1. live.status # "none" => live.flushed \/ snap.landed
      BY <1>3 DEF ClosedInv
    <3>2. ~StartRun
      BY <2>1 DEF StartRun, NoRow
    <3>3. CASE UNCHANGED serverVars
      BY <2>4, <3>1, <3>3 DEF serverVars
    <3>4. CASE FinalFlush
      BY <3>1, <3>4 DEF FinalFlush, NoSnap, Terminal, Active
    <3>5. CASE CommitLands
      BY <3>5 DEF CommitLands, ViewsInv, ServerType, SnapType
    <3>6. CASE AdvanceCursors
      <4>1. snap.kind = "final"
        BY <2>1, <3>6 DEF AdvanceCursors, ViewsInv, SnapInv, ServerType, SnapType
      <4>2. live'.flushed = Flushed
        BY <3>6 DEF AdvanceCursors, ViewsInv, ServerType, RecordType
      <4>. QED BY <4>1, <4>2 DEF Flushed
    <3>7. CASE FlushFails
      <4>1. live'.flushed = Flushed /\ live.status # "none" /\ ~snap.landed
        BY <2>4, <3>7 DEF FlushFails, ViewsInv, ServerType, RecordType
      <4>. QED BY <3>1, <4>1 DEF Flushed
    <3>8. CASE Restart
      BY <2>4, <3>8 DEF Restart, ViewsInv, RecordInv
    <3>9. CASE Crash
      BY <2>4, <3>9 DEF Crash, NoRun
    <3>. QED
      BY <2>1, <3>2, <3>3, <3>4, <3>5, <3>6, <3>7, <3>8, <3>9, AfterTheEnd
  <2>. QED BY <2>2, <2>3, <2>4 DEF Stored
<1>4. ASSUME db.status \notin Terminal, db'.status \in Terminal
      PROVE  /\ live'.status \notin Active
             /\ db'.status # "interrupted" => made' \subseteq Stored'
             /\ live'.status # "none" => live'.flushed \/ snap'.landed
  <2>1. ASSUME CutFlush PROVE snap.kind = "final" /\ db' = snap.image
    <3>1. snap.kind # "none" /\ db' = snap.image
      BY <1>4, <2>1, CutFacts
    <3>. QED BY <1>4, <3>1 DEF ViewsInv, SnapInv, ServerType, SnapType, Terminal, Active
  <2>2. snap.kind = "final" => live.status \in Terminal /\ made \subseteq SeqRange(snap.image.trials)
    BY DEF ViewsInv, SnapInv, FinalInv, RecordInv, Agree, Terminal, Active
  <2>3. CASE CommitLands
    <3>1. /\ snap.kind # "none" /\ db' = snap.image /\ snap' = [snap EXCEPT !.landed = TRUE]
          /\ UNCHANGED <<live, made>>
      BY <2>3 DEF CommitLands
    <3>2. snap.kind = "final" /\ snap'.landed
      BY <1>4, <3>1 DEF ViewsInv, SnapInv, ServerType, SnapType, Terminal, Active
    <3>. QED BY <2>2, <3>1, <3>2 DEF Stored, Terminal, Active
  <2>4. CASE Crash
    <3>1. live'.status = "none" /\ made' = made /\ CutFlush
      BY <2>4 DEF Crash, NoRun
    <3>. QED BY <2>1, <2>2, <3>1 DEF Stored, Active
  <2>5. CASE Restart
    <3>1. db'.status = "interrupted" /\ live' = live /\ ~up
      BY <1>4, <2>5 DEF Restart, ViewsInv, ServerType, RowType, Terminal, Active
    <3>. QED BY <3>1 DEF ViewsInv, RecordInv, Active
  <2>6. ~CutFlush \/ ~Working
    BY <2>1, <2>2 DEF Working, Terminal, Active
  <2>7. ~StartRun
    BY <1>4 DEF StartRun, NoRow, Terminal, Active
  <2>. QED
    BY <1>4, <2>3, <2>4, <2>5, <2>6, <2>7
       DEF ServerNext, RunStep, Publish, Begin, Propose, ProposeFails, Judge, Skip, RunEnds,
           Complete, UserStep, Pause, Resume, RunBreaks, Abort, HeartbeatCut, Heartbeat,
           FlushStep, FinalFlush, Flush, AdvanceCursors, FlushFails, serverVars
<1>. QED BY <1>1, <1>2, <1>3, <1>4 DEF ClosedInv

-----------------------------------------------------------------------------
(* What the page has been told *)

CountsType == [candidates : Nat, failures : Nat]

\* Counts that go with an end of the run: they cover every trial, or, where the row
\* says interrupted, every trial it holds.
Covered(status, counts) ==
    /\ Over
    /\ \/ Cardinality(made) <= Total(counts)
       \/ status = "interrupted" /\ db.status \in Terminal /\ Cardinality(Stored) <= Total(counts)

\* What an answer of /state carries.
Sound(q) ==
    IF q.ready THEN q.status \in Terminal => Covered(q.status, q.counts)
    ELSE q.status \in Terminal => db.status = q.status

PageInv ==
    /\ page.candidates \in Nat /\ page.failures \in Nat
    /\ \A q \in asking : q.counts \in CountsType
    /\ page.status \in Terminal => Covered(page.status, page)
    /\ \A q \in asking : Sound(q)
    /\ dash \in Terminal => db.status = dash

\* Nothing the server does takes any of that back.
LEMMA ToldStays ==
    ASSUME ViewsInv, ClosedInv, PageInv, ServerNext \/ UNCHANGED serverVars,
           page' = page, asking' \subseteq asking, dash' = dash \/ dash' = "idle"
    PROVE  PageInv'
<1>1. Over => Over' /\ made' = made
  BY OverStays
<1>2. db.status \in Terminal => db' = db
  BY ClosedStays
<1>3. page.status \in Terminal => Covered(page.status, page)'
  BY <1>1, <1>2 DEF PageInv, Covered, Stored
<1>4. ASSUME NEW q \in asking PROVE Sound(q)'
  BY <1>1, <1>2 DEF PageInv, Sound, Covered, Stored
<1>. QED BY <1>2, <1>3, <1>4 DEF PageInv, Terminal, Active

LEMMA PageStep ==
    ASSUME ViewsInv, ClosedInv, PageInv, [Next]_vars
    PROVE  PageInv'
<1>0. /\ live.trials \in Seq(TrialType) /\ db.trials \in Seq(TrialType) /\ IsFiniteSet(made)
      /\ <<>> \in Seq(TrialType)
  BY EmptySeq DEF ViewsInv, ServerType, RecordType, RowType, ClosedInv
<1>1. \A ts \in Seq(TrialType) :
         Counts(ts) \in CountsType /\ Cardinality(SeqRange(ts)) <= Total(Counts(ts))
  BY CountsFacts DEF CountsType
<1>2. ASSUME UNCHANGED <<page, asking, dash>>, ServerNext \/ UNCHANGED serverVars
      PROVE  PageInv'
  BY <1>2, ToldStays
<1>3. ASSUME UNCHANGED <<serverVars, page, dash>>, NEW q, q.counts \in CountsType, Sound(q),
             asking' \subseteq asking \cup {q}
      PROVE  PageInv'
  BY <1>3 DEF PageInv, Sound, Covered, Over, Stored, serverVars
<1>4. CASE (RunStep \/ UserStep \/ RunBreaks \/ Heartbeat \/ FlushStep \/ FlushFails \/ Restart)
              /\ UNCHANGED pageVars
  BY <1>2, <1>4 DEF pageVars, ServerNext
<1>5. CASE ServerDies
  BY <1>5, ToldStays DEF ServerDies, ServerNext
<1>6. CASE AskState
  <2>1. /\ db.status # "none" /\ asking' = asking \cup {StateRead}
        /\ UNCHANGED <<serverVars, page, dash>>
    BY <1>6 DEF AskState
  <2>2. CASE SeesState(Owner, live)
    <3>1. StateRead = [ready |-> TRUE, status |-> live.status, counts |-> Counts(live.trials)]
      BY <2>2 DEF StateRead, Ready
    <3>2. made = SeqRange(live.trials)
      BY <2>2 DEF SeesState, OwnsRecord, ViewsInv, RecordInv
    <3>3. Cardinality(made) <= Total(Counts(live.trials)) /\ Counts(live.trials) \in CountsType
      BY <1>0, <1>1, <3>2
    <3>4. Sound(StateRead) /\ StateRead.counts \in CountsType
      BY <2>1, <3>1, <3>3 DEF Sound, Covered, Over, Terminal, Active
    <3>. QED BY <1>3, <2>1, <3>4
  <2>3. CASE ~SeesState(Owner, live)
    <3>1. StateRead = [ready |-> FALSE, status |-> db.status, counts |-> Counts(<<>>)]
      BY <2>3 DEF StateRead
    <3>2. Sound(StateRead) /\ StateRead.counts \in CountsType
      BY <1>0, <1>1, <3>1 DEF Sound
    <3>. QED BY <1>3, <2>1, <3>2
  <2>. QED BY <2>2, <2>3
<1>7. ASSUME NEW q \in asking, CountRows(q) PROVE PageInv'
  <2>. DEFINE new == Ready(q.status, Counts(db.trials))
  <2>1. /\ ~q.ready /\ asking' = (asking \ {q}) \cup {new}
        /\ UNCHANGED <<serverVars, page, dash>>
    BY <1>7 DEF CountRows
  <2>2. new.ready /\ new.status = q.status /\ new.counts = Counts(db.trials)
    BY DEF Ready
  <2>3. Cardinality(Stored) <= Total(Counts(db.trials)) /\ Counts(db.trials) \in CountsType
    BY <1>0, <1>1 DEF Stored
  <2>. HIDE DEF new
  <2>4. ASSUME q.status \in Terminal PROVE Covered(q.status, Counts(db.trials))
    <3>1. db.status = q.status
      BY <2>1, <2>4 DEF PageInv, Sound
    <3>2. Over
      BY <2>4, <3>1 DEF ClosedInv, Over, Terminal, Active
    <3>3. q.status # "interrupted" => made = Stored
      BY <2>4, <3>1 DEF ClosedInv
    <3>. QED BY <2>3, <2>4, <3>1, <3>2, <3>3 DEF Covered
  <2>5. Sound(new)
    BY <2>2, <2>4 DEF Sound
  <2>. QED BY <1>3, <2>1, <2>2, <2>3, <2>5
<1>8. ASSUME NEW q \in asking, StateArrives(q) PROVE PageInv'
  <2>1. /\ q.ready /\ asking' = asking \ {q} /\ UNCHANGED <<serverVars, dash>>
        /\ page' = [status |-> q.status, candidates |-> q.counts.candidates,
                    failures |-> q.counts.failures]
    BY <1>8 DEF StateArrives
  <2>2. page'.candidates \in Nat /\ page'.failures \in Nat /\ Total(page') = Total(q.counts)
    BY <2>1 DEF PageInv, CountsType, Total
  <2>3. page'.status \in Terminal => Covered(page.status, page)'
    BY <2>1, <2>2 DEF PageInv, Sound, Covered, Over, Stored, serverVars
  <2>4. \A o \in asking' : Sound(o)'
    BY <2>1 DEF PageInv, Sound, Covered, Over, Stored, serverVars
  <2>. QED BY <2>1, <2>2, <2>3, <2>4 DEF PageInv, serverVars
<1>9. CASE StreamStep \/ StreamExpires \/ StreamDrops \/ PollStep
  BY <1>2, <1>9
     DEF StreamStep, StreamRound, StreamFrame, StreamDone, StreamExpires, StreamDrops,
         PollStep, PollTick, PollRead, PollArrives
<1>10. CASE AskStats
  <2>1. dash' = db.status /\ UNCHANGED <<serverVars, page, asking>>
    BY <1>10 DEF AskStats
  <2>. QED BY <2>1 DEF PageInv, Sound, Covered, Over, Stored, serverVars
<1>11. CASE StatsDone
  BY <1>11, ToldStays DEF StatsDone
<1>12. CASE UNCHANGED vars
  BY <1>2, <1>12 DEF vars, pageVars
<1>. QED
  BY <1>4, <1>5, <1>6, <1>7, <1>8, <1>9, <1>10, <1>11, <1>12
     DEF Next, StateStep

(***************************************************************************)
(* What an endpoint has told, and what is on its way to the page, was true *)
(* when it was read, and a terminal status is only told with all the rows  *)
(* of its run behind it (get_run_state, useRunState).                      *)
(***************************************************************************)
THEOREM ToldInvariant == Spec => [](ClosedInv /\ PageInv)
<1>1. Init => ClosedInv /\ PageInv
  <2>. SUFFICES ASSUME Init PROVE ClosedInv /\ PageInv
    OBVIOUS
  <2>1. ClosedInv
    BY FS_EmptySet DEF Init, ServerInit, ClosedInv, Stored, NoRow, Terminal, Active, SeqRange
  <2>2. PageInv
    BY DEF Init, PageInv, NoPage, Terminal, Active
  <2>. QED BY <2>1, <2>2
<1>2. [Next]_vars => ServerNext \/ UNCHANGED serverVars
  BY DEF Next, StateStep, AskState, CountRows, StateArrives, StreamStep, StreamRound,
     StreamExpires, StreamFrame, StreamDone, StreamDrops, PollStep, PollTick, PollRead,
     PollArrives, AskStats, StatsDone, ServerDies, ServerNext, vars
<1>3. ViewsInv /\ ViewsInv' /\ ClosedInv /\ PageInv /\ [Next]_vars => ClosedInv' /\ PageInv'
  BY <1>2, ClosedStep, PageStep
<1>. QED BY <1>1, <1>3, ViewsInvariant, PTL DEF Spec

(***************************************************************************)
(* What the page or the dashboard shows of a run that has ended is final:  *)
(* however requests, flushes, cancels and restarts overlap, the counts     *)
(* beside a terminal status miss no trial (or, after a crash, none that is *)
(* stored), and neither do the statistics; for any number of trials and    *)
(* of requests under way.                                                  *)
(***************************************************************************)
THEOREM EndTheorem == Spec => []TheEndIsFinal
<1>1. ASSUME ViewsInv, ClosedInv, PageInv PROVE TerminalPageHidesNothing
  <2>. SUFFICES ASSUME page.status \in Terminal
                PROVE  Cardinality(IF page.status = "interrupted" THEN Stored ELSE made)
                          <= page.candidates + page.failures
    BY <1>1, FS_Subset, FS_CardinalityType
       DEF TerminalPageHidesNothing, IsTerminal, ClosedInv, PageInv
  <2>1. Cardinality(made) \in Nat /\ Cardinality(Stored) \in Nat
        /\ Cardinality(Stored) <= Cardinality(made) /\ Total(page) \in Nat
    BY <1>1, FS_Subset, FS_CardinalityType DEF ClosedInv, PageInv, Total
  <2>2. Covered(page.status, page)
    BY <1>1 DEF PageInv
  <2>. QED BY <2>1, <2>2 DEF Covered, Total
<1>2. ASSUME ViewsInv, ClosedInv, PageInv PROVE TerminalStatsAreFinal
  <2>. SUFFICES ASSUME dash \in Terminal \ {"interrupted"}
                PROVE  /\ Stats(db.trials).valid
                             >= Cardinality({t \in made : t.fate \notin RegimeStatuses})
                       /\ Stats(db.trials).passed + Stats(db.trials).failed <= Stats(db.trials).valid
    BY DEF TerminalStatsAreFinal
  <2>1. db.trials \in Seq(TrialType)
    BY <1>2 DEF ViewsInv, ServerType, RowType
  <2>2. made = SeqRange(db.trials)
    BY <1>2 DEF PageInv, ClosedInv, Stored
  <2>. QED BY <2>1, <2>2, StatsFacts
<1>. QED BY <1>1, <1>2, ViewsInvariant, ToldInvariant, PTL DEF TheEndIsFinal
=============================================================================

----------------------------- MODULE EdgeProofs -----------------------------
(***************************************************************************)
(* The three properties of EdgeSafety, for any debounce times, pulse       *)
(* widths, minimum interval and gaps between samples.                      *)
(***************************************************************************)
EXTENDS EdgeSafety, TLAPS

(* The settings make the trigger state the ARRIVE bit: signal_kind "bit", or *)
(* a value or mask that singles it out.                                    *)
ReadsArrive == \A word \in ReadSignal : TriggerState(word) = Arrives(word)

Decision == {"STARTUP_HIGH", "DUPLICATE_TRIGGER_IGNORED", "SUSPICIOUS_EARLY_TRIGGER",
             "ACCEPTED", "FALLING", "INVALID_PLC_PULSE"}
Sample == [at : Nat, raw : 0 .. 1]
Event == [at : Nat, edge : 0 .. 1, decision : Decision, width : Int]

Types ==
  /\ now \in Nat /\ raw \in 0 .. 1 /\ rawSince \in Nat /\ debounced \in 0 .. 1
  /\ rise \in Int /\ lastAccept \in Int
  /\ samples \in Seq(Sample)
  /\ rows \in Seq(Event)

(* The history is in the order of time and ends now.                       *)
History ==
  /\ \A j \in DOMAIN samples : 0 < samples[j].at /\ samples[j].at <= now
  /\ \A i, j \in DOMAIN samples : i < j => samples[i].at < samples[j].at
  /\ samples = << >> => raw = 0 /\ debounced = 0 /\ rows = << >>
  /\ samples # << >> => samples[Len(samples)].at = now /\ samples[Len(samples)].raw = raw

(* The stretch of equal samples that ends with sample e begins with b.     *)
Begins(line, b, e) ==
  /\ b \in 1 .. e
  /\ \A k \in b .. e : line[k].raw = line[e].raw
  /\ b > 1 => line[b - 1].raw # line[e].raw

(* _raw_since is the beginning of the last stretch, as far as feed asks    *)
(* for it; a value that has not settled has not lasted long enough.        *)
StretchFrom(b) ==
  /\ Begins(samples, b, Len(samples))
  /\ raw = 1 \/ debounced = 1 => rawSince = samples[b].at
  /\ raw # debounced => now - samples[b].at < Need(raw)
  /\ b = 1 /\ raw = 0 => debounced = 0

LastStretch == samples # << >> => \E b \in DOMAIN samples : StretchFrom(b)

(* The debounced value, with the last stable end named.                    *)
LastStable(m) == m \in StableEnds /\ \A j \in StableEnds : j <= m

Debounced ==
  \/ StableEnds = {} /\ debounced = 0
  \/ \E m \in DOMAIN samples : LastStable(m) /\ debounced = samples[m].raw

LineInv == Types /\ History /\ LastStretch /\ Debounced

USE EdgeConstants

LEMMA NeedType == \A v \in 0 .. 1 : Need(v) \in Nat
  BY DEF Need

-----------------------------------------------------------------------------
(* The history. *)

(* A poll adds one sample to the history.                                  *)
LEMMA Sampling ==
  ASSUME ReadsArrive, Types, History, NEW gap \in Gaps, NEW word \in ReadSignal,
         Poll(gap, word)
  PROVE  LET t == now + gap
             v == TriggerState(word)
         IN /\ gap \in Nat \ {0} /\ t \in Nat /\ v \in 0 .. 1 /\ now' = t
            /\ samples' = Append(samples, [at |-> t, raw |-> v])
            /\ samples' \in Seq(Sample)
            /\ Len(samples') = Len(samples) + 1 /\ Len(samples) \in Nat
            /\ DOMAIN samples = 1 .. Len(samples) /\ DOMAIN samples' = 1 .. Len(samples')
            /\ \A k \in 1 .. Len(samples) : samples'[k] = samples[k]
            /\ samples'[Len(samples')].at = t /\ samples'[Len(samples')].raw = v
<1> DEFINE t == now + gap
           v == TriggerState(word)
<1>1. gap \in Nat \ {0} /\ t \in Nat /\ now' = t
  BY DEF Poll, Types
<1>2. v \in 0 .. 1 /\ v = Arrives(word)
  BY DEF TriggerState, ReadsArrive
<1>3. samples' = Append(samples, [at |-> t, raw |-> v])
  BY <1>2 DEF Poll
<1>4. [at |-> t, raw |-> v] \in Sample
  BY <1>1, <1>2 DEF Sample
<1> HIDE DEF t, v
<1>5. samples \in Seq(Sample)
  BY DEF Types
<1>6. /\ samples' \in Seq(Sample)
      /\ Len(samples') = Len(samples) + 1 /\ Len(samples) \in Nat
      /\ DOMAIN samples = 1 .. Len(samples) /\ DOMAIN samples' = 1 .. Len(samples')
      /\ \A k \in 1 .. Len(samples) : samples'[k] = samples[k]
      /\ samples'[Len(samples')] = [at |-> t, raw |-> v]
  BY <1>3, <1>4, <1>5
<1>7. samples'[Len(samples')].at = t /\ samples'[Len(samples')].raw = v
  BY <1>6
<1> QED BY <1>1, <1>2, <1>3, <1>6, <1>7 DEF t, v

(* What the last stretch is after a poll: the new sample alone, or the old *)
(* stretch and the new sample.                                             *)
LEMMA NewStretch ==
  ASSUME ReadsArrive, LineInv, NEW gap \in Gaps, NEW word \in ReadSignal,
         Poll(gap, word)
  PROVE  LET t == now + gap
             v == TriggerState(word)
         IN \E b \in 1 .. Len(samples') :
              /\ Begins(samples', b, Len(samples'))
              /\ v = 1 \/ debounced = 1 => RawSince(t, v) = samples'[b].at
              /\ v # debounced => samples'[b].at = t \/ now - samples'[b].at < Need(v)
              /\ b = 1 /\ v = 0 => debounced = 0
              /\ \/ b = Len(samples') /\ (samples = << >> \/ v # raw)
                 \/ v = raw /\ b \in DOMAIN samples /\ StretchFrom(b)
<1> DEFINE t == now + gap
           v == TriggerState(word)
           n == Len(samples)
<1>1. /\ gap \in Nat \ {0} /\ t \in Nat /\ v \in 0 .. 1 /\ n \in Nat
      /\ Len(samples') = n + 1
      /\ DOMAIN samples = 1 .. n /\ DOMAIN samples' = 1 .. n + 1
      /\ \A k \in 1 .. n : samples'[k] = samples[k]
      /\ samples'[n + 1].at = t /\ samples'[n + 1].raw = v
  BY Sampling DEF LineInv
<1>2. samples = << >> => n = 0
  OBVIOUS
<1>3. /\ samples = << >> => raw = 0 /\ debounced = 0
      /\ samples # << >> => samples[n].raw = raw /\ n > 0
  BY DEF LineInv, History, Types
<1>4. raw \in 0 .. 1 /\ debounced \in 0 .. 1
  BY DEF LineInv, Types
<1> HIDE DEF t, v, n
<1>5. CASE samples = << >> \/ v # raw
  <2>1. Begins(samples', n + 1, n + 1)
    BY <1>1, <1>2, <1>3, <1>5 DEF Begins
  <2>2. v = 1 \/ debounced = 1 => RawSince(t, v) = t
    BY <1>3, <1>4, <1>5, <1>1 DEF RawSince
  <2>3. n + 1 = 1 /\ v = 0 => debounced = 0
    BY <1>1, <1>3, <1>5
  <2> QED BY <1>1, <1>5, <2>1, <2>2, <2>3 DEF t, v
<1>6. CASE samples # << >> /\ v = raw
  <2>1. PICK b \in DOMAIN samples : StretchFrom(b)
    BY <1>6 DEF LineInv, LastStretch
  <2>2. Begins(samples, b, n)
    BY <2>1 DEF StretchFrom, n
  <2>3. Begins(samples', b, n + 1)
    BY <1>1, <1>3, <1>6, <2>2 DEF Begins
  <2>4. v = 1 \/ debounced = 1 => RawSince(t, v) = samples'[b].at
    BY <1>1, <1>6, <2>1 DEF StretchFrom, RawSince
  <2>5. v # debounced => now - samples'[b].at < Need(v)
    BY <1>1, <1>6, <2>1 DEF StretchFrom
  <2>6. b = 1 /\ v = 0 => debounced = 0
    BY <1>6, <2>1 DEF StretchFrom
  <2>7. b \in 1 .. n + 1
    BY <1>1, <2>1
  <2> QED BY <1>1, <1>6, <2>1, <2>3, <2>4, <2>5, <2>6, <2>7 DEF t, v
<1> QED BY <1>5, <1>6 DEF t, v

(* When feed finds the sample settled, and what it does.                   *)
LEMMA Feeding ==
  ASSUME ReadsArrive, NEW gap \in Gaps, NEW word \in ReadSignal, Poll(gap, word)
  PROVE  LET t == now + gap
             v == TriggerState(word)
         IN /\ raw' = v /\ rawSince' = RawSince(t, v)
            /\ \/ /\ v # debounced /\ t - RawSince(t, v) >= Need(v) /\ debounced' = v
                  /\ \/ v = 1 /\ MakeRising(t, FALSE, FALSE)
                     \/ v # 1 /\ MakeFalling(t)
               \/ /\ v = debounced \/ ~(t - RawSince(t, v) >= Need(v))
                  /\ UNCHANGED <<debounced, rise, lastAccept, rows>>
<1> DEFINE t == now + gap
           v == TriggerState(word)
<1>1. Feed(t, v, FALSE, FALSE)
  BY DEF Poll
<1> HIDE DEF t, v
<1>2. CASE Settles(t, v) /\ debounced' = v
           /\ IF v = 1 THEN MakeRising(t, FALSE, FALSE) ELSE MakeFalling(t)
  BY <1>1, <1>2 DEF Feed, Settles, t, v
<1>3. CASE ~Settles(t, v) /\ UNCHANGED <<debounced, rise, lastAccept, rows>>
  BY <1>1, <1>3 DEF Feed, Settles, t, v
<1> QED BY <1>1, <1>2, <1>3 DEF Feed

(* A row is added for every edge, and for nothing else.                    *)
LEMMA Edges ==
  ASSUME ReadsArrive, Types, NEW gap \in Gaps, NEW word \in ReadSignal, Poll(gap, word)
  PROVE  \/ /\ UNCHANGED <<debounced, rise, lastAccept, rows>>
         \/ /\ debounced' = 1 /\ debounced = 0 /\ rise' = now'
            /\ lastAccept' \in {lastAccept, now'}
            /\ \E d \in Decision : rows' = Append(rows, Row(now', 1, d, 0))
         \/ /\ debounced' = 0 /\ debounced = 1 /\ UNCHANGED <<rise, lastAccept>>
            /\ \E d \in Decision : rows' = Append(rows, Row(now', 0, d, now' - rise))
<1> DEFINE t == now + gap
           v == TriggerState(word)
<1>1. v \in 0 .. 1 /\ debounced \in 0 .. 1 /\ now' = t
  BY DEF TriggerState, Types, Poll
<1> HIDE DEF t, v
<1>2. ASSUME MakeRising(t, FALSE, FALSE)
      PROVE  /\ rise' = t /\ lastAccept' \in {lastAccept, t}
             /\ \E d \in Decision : rows' = Append(rows, Row(t, 1, d, 0))
  <2>1. RisingDecision(t, FALSE, FALSE) \in Decision
    BY DEF RisingDecision, Decision
  <2> QED BY <1>2, <2>1 DEF MakeRising, Emit, Accept
<1>3. ASSUME MakeFalling(t)
      PROVE  /\ UNCHANGED <<rise, lastAccept>>
             /\ \E d \in Decision : rows' = Append(rows, Row(t, 0, d, t - rise))
  <2> DEFINE d == IF Width(t) \in PulseMin .. PulseMax THEN "FALLING"
                                                        ELSE "INVALID_PLC_PULSE"
  <2>1. d \in Decision
    BY DEF Decision
  <2>2. rows' = Append(rows, Row(t, 0, d, t - rise))
    BY <1>3 DEF MakeFalling, Emit, Width
  <2> HIDE DEF d
  <2> QED BY <1>3, <2>1, <2>2 DEF MakeFalling
<1>4. \/ /\ v # debounced /\ debounced' = v
         /\ \/ v = 1 /\ MakeRising(t, FALSE, FALSE)
            \/ v # 1 /\ MakeFalling(t)
      \/ UNCHANGED <<debounced, rise, lastAccept, rows>>
  BY Feeding DEF t, v
<1>5. CASE v # debounced /\ debounced' = v /\ v = 1 /\ MakeRising(t, FALSE, FALSE)
  <2>1. debounced' = 1 /\ debounced = 0
    BY <1>1, <1>5
  <2> QED BY <1>1, <1>2, <1>5, <2>1
<1>6. CASE v # debounced /\ debounced' = v /\ v # 1 /\ MakeFalling(t)
  <2>1. debounced' = 0 /\ debounced = 1
    BY <1>1, <1>6
  <2> QED BY <1>1, <1>3, <1>6, <2>1
<1> QED BY <1>4, <1>5, <1>6

LEMMA TypesPoll ==
  ASSUME ReadsArrive, Types, History,
         NEW gap \in Gaps, NEW word \in ReadSignal, Poll(gap, word)
  PROVE  Types'
<1> DEFINE t == now + gap
           v == TriggerState(word)
<1>1. /\ t \in Nat /\ v \in 0 .. 1 /\ now' = t
      /\ samples' \in Seq(Sample)
  BY Sampling
<1>2. raw' = v /\ rawSince' = RawSince(t, v)
  BY Feeding
<1> HIDE DEF t, v
<1>3. rawSince' \in Nat
  BY <1>1, <1>2 DEF Types, RawSince
<1>4. rise' \in Int /\ lastAccept' \in Int /\ debounced' \in 0 .. 1
  BY <1>1, Edges DEF Types
<1>5. rows' \in Seq(Event)
  <2>1. ASSUME NEW d \in Decision, NEW w \in Int, NEW e \in 0 .. 1
        PROVE  Append(rows, Row(t, e, d, w)) \in Seq(Event)
    <3>1. Row(t, e, d, w) \in Event
      BY <1>1 DEF Row, Event
    <3> QED BY <3>1 DEF Types
  <2>2. t - rise \in Int /\ rows \in Seq(Event)
    BY <1>1 DEF Types
  <2>3. \/ rows' = rows
        \/ \E d \in Decision : rows' = Append(rows, Row(t, 1, d, 0))
        \/ \E d \in Decision : rows' = Append(rows, Row(t, 0, d, t - rise))
    BY <1>1, Edges
  <2> QED BY <2>1, <2>2, <2>3
<1> QED BY <1>1, <1>2, <1>3, <1>4, <1>5 DEF Types

LEMMA HistoryPoll ==
  ASSUME ReadsArrive, Types, History,
         NEW gap \in Gaps, NEW word \in ReadSignal, Poll(gap, word)
  PROVE  History'
<1> DEFINE t == now + gap
           v == TriggerState(word)
           n == Len(samples)
<1>1. /\ gap \in Nat \ {0} /\ t \in Nat /\ now' = t /\ n \in Nat
      /\ Len(samples') = n + 1
      /\ DOMAIN samples = 1 .. n /\ DOMAIN samples' = 1 .. n + 1
      /\ \A k \in 1 .. n : samples'[k] = samples[k]
      /\ samples'[n + 1].at = t /\ samples'[n + 1].raw = v
  BY Sampling
<1>2. raw' = v
  BY Feeding
<1>3. now \in Nat /\ t = now + gap /\ \A j \in 1 .. n : samples[j].at \in Nat
  <2>1. samples \in Seq(Sample) /\ now \in Nat
    BY DEF Types
  <2>2. \A j \in 1 .. n : samples[j] \in Sample
    BY <2>1
  <2>3. \A s \in Sample : s.at \in Nat
    BY DEF Sample
  <2> QED BY <2>1, <2>2, <2>3
<1>4. samples' # << >>
  BY <1>1
<1> HIDE DEF t, v, n
<1>5. \A j \in 1 .. n : 0 < samples[j].at /\ samples[j].at <= now
  BY <1>1 DEF History
<1>6. \A j \in 1 .. n + 1 : 0 < samples'[j].at /\ samples'[j].at <= now'
  BY <1>1, <1>3, <1>5
<1>7. \A i, j \in 1 .. n + 1 : i < j => samples'[i].at < samples'[j].at
  <2> SUFFICES ASSUME NEW i \in 1 .. n + 1, NEW j \in 1 .. n + 1, i < j
               PROVE  samples'[i].at < samples'[j].at
    OBVIOUS
  <2>1. i \in 1 .. n
    BY <1>1
  <2>2. CASE j \in 1 .. n
    BY <1>1, <2>1, <2>2 DEF History
  <2>3. CASE j = n + 1
    BY <1>1, <1>3, <1>5, <2>1, <2>3
  <2> QED BY <1>1, <2>2, <2>3
<1> QED BY <1>1, <1>2, <1>4, <1>6, <1>7 DEF History

LEMMA LastStretchPoll ==
  ASSUME ReadsArrive, LineInv, NEW gap \in Gaps, NEW word \in ReadSignal,
         Poll(gap, word)
  PROVE  LastStretch'
<1> DEFINE t == now + gap
           v == TriggerState(word)
<1>1. PICK b \in 1 .. Len(samples') :
        /\ Begins(samples', b, Len(samples'))
        /\ v = 1 \/ debounced = 1 => RawSince(t, v) = samples'[b].at
        /\ b = 1 /\ v = 0 => debounced = 0
  BY NewStretch
<1>2. raw' = v /\ rawSince' = RawSince(t, v)
  BY Feeding
<1>3. v \in 0 .. 1 /\ now' = t /\ DOMAIN samples' = 1 .. Len(samples') /\ t \in Nat
  BY Sampling DEF LineInv
<1>4. \/ v # debounced /\ t - RawSince(t, v) >= Need(v) /\ debounced' = v
      \/ /\ v = debounced \/ ~(t - RawSince(t, v) >= Need(v))
         /\ debounced' = debounced
  BY Feeding
<1>5. debounced \in 0 .. 1 /\ RawSince(t, v) \in Nat /\ Need(v) \in Nat
  BY <1>3, NeedType DEF LineInv, Types, RawSince
<1> HIDE DEF t, v
<1>6. raw' = 1 \/ debounced' = 1 => rawSince' = samples'[b].at
  BY <1>1, <1>2, <1>4
<1>7. raw' # debounced' => now' - samples'[b].at < Need(raw')
  BY <1>1, <1>2, <1>3, <1>4, <1>5
<1>8. b = 1 /\ raw' = 0 => debounced' = 0
  BY <1>1, <1>2, <1>4
<1> QED BY <1>1, <1>3, <1>6, <1>7, <1>8 DEF LastStretch, StretchFrom

-----------------------------------------------------------------------------
(* The debounced value. *)

(* A stable stretch ends with the last sample if the last stretch of equal *)
(* samples has lasted long enough.                                         *)
LEMMA StableLast ==
  ASSUME Types', History', NEW b, Begins(samples', b, Len(samples'))
  PROVE  Len(samples') \in StableEnds' <=> now' - samples'[b].at >= Need(raw')
<1> DEFINE n == Len(samples')
           StableP(i) == /\ \A k \in i .. n : samples'[k].raw = samples'[n].raw
                         /\ samples'[n].at - samples'[i].at >= Need(samples'[n].raw)
<1>1. n \in Nat \ {0} /\ DOMAIN samples' = 1 .. n /\ b \in 1 .. n
  BY DEF Begins, Types
<1>2. samples'[n].at = now' /\ samples'[n].raw = raw'
  BY <1>1 DEF History
<1>3. \A i \in 1 .. n : samples'[i].at \in Nat
  <2>1. samples' \in Seq(Sample)
    BY DEF Types
  <2>2. \A i \in 1 .. n : samples'[i] \in Sample
    BY <2>1
  <2> QED BY <2>2 DEF Sample
<1>4. Need(raw') \in Nat /\ now' \in Nat
  BY NeedType DEF Types
<1> HIDE DEF n
<1>5. ASSUME now' - samples'[b].at >= Need(raw') PROVE StableP(b)
  BY <1>1, <1>2, <1>5 DEF Begins, n
<1>6. ASSUME NEW i \in 1 .. n, StableP(i) PROVE now' - samples'[b].at >= Need(raw')
  <2>1. i >= b
    <3> SUFFICES ASSUME i < b PROVE FALSE
      BY <1>1
    <3>1. b > 1 /\ b - 1 \in i .. n
      BY <1>1
    <3> QED BY <1>6, <3>1 DEF Begins, n
  <2>2. samples'[b].at <= samples'[i].at
    BY <1>1, <1>3, <2>1 DEF History
  <2>3. now' - samples'[i].at >= Need(raw')
    BY <1>2, <1>6
  <2> QED BY <1>1, <1>3, <1>4, <2>2, <2>3
<1>7. n \in StableEnds' <=> \E i \in 1 .. n : StableP(i)
  BY <1>1 DEF StableEnds, Stable, Need, n
<1> QED BY <1>1, <1>5, <1>6, <1>7 DEF n

(* A poll changes nothing about the earlier stretches.                     *)
LEMMA StableEarlier ==
  ASSUME ReadsArrive, Types, History,
         NEW gap \in Gaps, NEW word \in ReadSignal, Poll(gap, word)
  PROVE  StableEnds' \cap (1 .. Len(samples)) = StableEnds
<1> DEFINE n == Len(samples)
<1>1. /\ n \in Nat /\ DOMAIN samples = 1 .. n /\ DOMAIN samples' = 1 .. n + 1
      /\ \A k \in 1 .. n : samples'[k] = samples[k]
  BY Sampling
<1> HIDE DEF n
<1>2. ASSUME NEW i \in 1 .. n, NEW j \in 1 .. n PROVE Stable(i, j)' <=> Stable(i, j)
  BY <1>1 DEF Stable, Need
<1>3. \A j \in 1 .. n : \A i \in 1 .. j : i \in 1 .. n
  BY <1>1
<1>4. \A j \in 1 .. n : j \in StableEnds' <=> j \in StableEnds
  BY <1>1, <1>2, <1>3 DEF StableEnds
<1>5. StableEnds \subseteq 1 .. n
  BY <1>1 DEF StableEnds
<1> QED BY <1>4, <1>5 DEF n

LEMMA DebouncedPoll ==
  ASSUME ReadsArrive, LineInv, NEW gap \in Gaps, NEW word \in ReadSignal,
         Poll(gap, word), Types', History'
  PROVE  Debounced'
<1> DEFINE t == now + gap
           v == TriggerState(word)
           n == Len(samples)
<1>1. PICK b \in 1 .. Len(samples') :
        /\ Begins(samples', b, Len(samples'))
        /\ v = 1 \/ debounced = 1 => RawSince(t, v) = samples'[b].at
  BY NewStretch
<1>2. /\ v \in 0 .. 1 /\ now' = t /\ t \in Nat /\ n \in Nat /\ Len(samples') = n + 1
      /\ DOMAIN samples = 1 .. n /\ DOMAIN samples' = 1 .. n + 1
      /\ \A k \in 1 .. n : samples'[k] = samples[k]
      /\ samples'[n + 1].raw = v
  BY Sampling DEF LineInv
<1>3. raw' = v
  BY Feeding
<1>4. \/ v # debounced /\ t - RawSince(t, v) >= Need(v) /\ debounced' = v
      \/ /\ v = debounced \/ ~(t - RawSince(t, v) >= Need(v))
         /\ debounced' = debounced
  BY Feeding
<1>5. debounced \in 0 .. 1
  BY DEF LineInv, Types
<1> HIDE DEF t, v, n
<1>6. Len(samples') \in StableEnds' <=> now' - samples'[b].at >= Need(raw')
  BY <1>1, StableLast
<1>7. n + 1 \in StableEnds' <=> t - samples'[b].at >= Need(v)
  BY <1>1, <1>2, <1>3, <1>6
<1>8. StableEnds' \cap (1 .. n) = StableEnds /\ StableEnds' \subseteq 1 .. n + 1
  BY <1>2, StableEarlier DEF StableEnds, LineInv, n
<1>9. CASE n + 1 \in StableEnds'
  <2>1. debounced' = v
    BY <1>1, <1>2, <1>4, <1>5, <1>7, <1>9
  <2>2. \A j \in StableEnds' : j <= n + 1
    BY <1>2, <1>8
  <2> QED BY <1>2, <1>9, <2>1, <2>2 DEF Debounced, LastStable
<1>10. CASE n + 1 \notin StableEnds'
  <2>1. StableEnds' = StableEnds
    <3>1. \A j \in 1 .. n + 1 : j = n + 1 \/ j \in 1 .. n
      BY <1>2
    <3>2. StableEnds' \subseteq 1 .. n
      BY <1>8, <1>10, <3>1
    <3> QED BY <1>8, <3>2
  <2>2. debounced' = debounced
    BY <1>1, <1>2, <1>4, <1>5, <1>7, <1>10
  <2>3. CASE StableEnds = {} /\ debounced = 0
    BY <2>1, <2>2, <2>3 DEF Debounced
  <2>4. ASSUME NEW m \in DOMAIN samples, LastStable(m), debounced = samples[m].raw
        PROVE  Debounced'
    <3>1. LastStable(m)' /\ m \in DOMAIN samples' /\ debounced' = samples'[m].raw
      BY <1>2, <2>1, <2>2, <2>4 DEF LastStable
    <3> QED BY <3>1 DEF Debounced
  <2> QED BY <2>3, <2>4 DEF LineInv, Debounced
<1> QED BY <1>9, <1>10

LEMMA LineInit == Init => LineInv
<1> SUFFICES ASSUME Init PROVE LineInv
  OBVIOUS
<1>1. /\ now = 0 /\ raw = 0 /\ rawSince = 0 /\ debounced = 0 /\ rise = -1
      /\ lastAccept = -1 /\ samples = << >> /\ rows = << >>
  BY DEF Init, Never
<1>2. Types
  BY <1>1 DEF Types
<1>3. DOMAIN samples = {}
  BY <1>1
<1>4. History /\ LastStretch
  BY <1>1, <1>3 DEF History, LastStretch
<1>5. StableEnds = {}
  BY <1>3 DEF StableEnds
<1> QED BY <1>1, <1>2, <1>4, <1>5 DEF LineInv, Debounced

LEMMA LineStep == ReadsArrive /\ LineInv /\ [Next]_vars => LineInv'
<1> SUFFICES ASSUME ReadsArrive, LineInv, [Next]_vars PROVE LineInv'
  OBVIOUS
<1>1. ASSUME NEW gap \in Gaps, NEW word \in ReadSignal, Poll(gap, word)
      PROVE  LineInv'
  <2>1. Types' /\ History'
    BY <1>1, TypesPoll, HistoryPoll DEF LineInv
  <2> QED BY <1>1, <2>1, LastStretchPoll, DebouncedPoll DEF LineInv
<1>2. ASSUME UNCHANGED <<now, audit, samples>> PROVE LineInv'
  BY <1>2 DEF audit, LineInv, Types, History, LastStretch, StretchFrom, Begins,
     Debounced, LastStable, StableEnds, Stable, Need
<1> QED BY <1>1, <1>2 DEF Next, SessionEnds, vars

LEMMA DebouncedMeans == LineInv => DebouncedIsLastStable
<1> SUFFICES ASSUME LineInv PROVE DebouncedIsLastStable
  OBVIOUS
<1>1. CASE StableEnds = {} /\ debounced = 0
  BY <1>1 DEF DebouncedIsLastStable
<1>2. ASSUME NEW m \in DOMAIN samples, LastStable(m), debounced = samples[m].raw
      PROVE  DebouncedIsLastStable
  <2>1. \A j \in StableEnds : j \in Nat
    BY DEF StableEnds, LineInv, Types
  <2>2. Max(StableEnds) = m
    BY <1>2, <2>1 DEF Max, LastStable
  <2> QED BY <1>2, <2>2 DEF DebouncedIsLastStable, LastStable
<1> QED BY <1>1, <1>2 DEF LineInv, Debounced

LEMMA LineInvariance == Spec => [](ReadsArrive => LineInv)
<1>1. Init => (ReadsArrive => LineInv)
  BY LineInit
<1>2. (ReadsArrive => LineInv) /\ [Next]_vars => (ReadsArrive => LineInv)'
  BY LineStep DEF ReadsArrive, ReadSignal, Register, TriggerState, Arrives
<1> QED BY <1>1, <1>2, PTL DEF Spec

(* The debounced value is that of the last stable stretch of samples.      *)
THEOREM LastStableWins == Spec => [](ReadsArrive => DebouncedIsLastStable)
<1>1. (ReadsArrive => LineInv) => (ReadsArrive => DebouncedIsLastStable)
  BY DebouncedMeans
<1> QED BY <1>1, LineInvariance, PTL

-----------------------------------------------------------------------------
(* The width of a pulse. *)

Longest == Max(Gaps)

(* An edge is found no earlier than its debounce time after the beginning  *)
(* of its stretch, and no later than at the next sample.                   *)
Timely(line, row) ==
  \E e, b \in DOMAIN line :
    /\ line[e].at = row.at /\ Begins(line, b, e)
    /\ row.at - line[b].at >= Need(row.edge)
    /\ row.at - line[b].at < Need(row.edge) + Longest

(* Rising and falling edges take turns, and _rise_mono is the last rise.   *)
Turns ==
  /\ rows = << >> => debounced = 0
  /\ rows # << >> => rows[Len(rows)].edge = debounced
  /\ rows # << >> /\ debounced = 1 => rise = rows[Len(rows)].at
  /\ \A i \in DOMAIN rows : i > 1 /\ rows[i].edge = 0 =>
       rows[i - 1].edge = 1 /\ rows[i].width = rows[i].at - rows[i - 1].at

RowsInv == Turns /\ \A i \in DOMAIN rows : Timely(samples, rows[i])

LEMMA LongestIs == Longest \in Nat \ {0} /\ \A gap \in Gaps : gap <= Longest
<1>1. PICK longest \in Gaps : \A gap \in Gaps : gap <= longest
  OBVIOUS
<1>2. Gaps \subseteq Nat
  OBVIOUS
<1>3. longest \in Gaps /\ \A gap \in Gaps : longest >= gap
  BY <1>1, <1>2
<1>4. Longest \in Gaps /\ \A gap \in Gaps : Longest >= gap
  BY <1>3 DEF Longest, Max
<1> QED BY <1>2, <1>4

(* The beginning of a stretch is found in the history.                     *)
LEMMA StartOfStretch ==
  ASSUME Types, History, NEW e \in DOMAIN samples, NEW b, Begins(samples, b, e)
  PROVE  StretchStart(samples[e].at) = samples[b].at
<1> DEFINE Upto  == {k \in DOMAIN samples : samples[k].at <= samples[e].at}
           Other == {k \in Upto : samples[k].raw # samples[Max(Upto)].raw}
<1>1. /\ Len(samples) \in Nat /\ DOMAIN samples = 1 .. Len(samples)
      /\ \A k \in DOMAIN samples : samples[k].at \in Nat
  <2>1. samples \in Seq(Sample)
    BY DEF Types
  <2>2. \A k \in DOMAIN samples : samples[k] \in Sample
    BY <2>1
  <2> QED BY <2>1, <2>2 DEF Sample
<1>2. b \in 1 .. e /\ \A k \in b .. e : samples[k].raw = samples[e].raw
  BY DEF Begins
<1>3. \A k \in DOMAIN samples : samples[k].at <= samples[e].at <=> k <= e
  <2> SUFFICES ASSUME NEW k \in DOMAIN samples
               PROVE  samples[k].at <= samples[e].at <=> k <= e
    OBVIOUS
  <2>1. k < e => samples[k].at < samples[e].at
    BY DEF History
  <2>2. e < k => samples[e].at < samples[k].at
    BY DEF History
  <2> QED BY <1>1, <2>1, <2>2
<1>4. Upto = 1 .. e
  BY <1>1, <1>3
<1>5. Max(Upto) = e
  <2>1. e \in Upto /\ \A y \in Upto : e >= y /\ y \in Nat
    BY <1>1, <1>4
  <2> HIDE DEF Upto
  <2> QED BY <2>1, <1>1 DEF Max
<1>6. Other = {k \in 1 .. e : samples[k].raw # samples[e].raw}
  BY <1>4, <1>5
<1>7. StretchStart(samples[e].at) = samples[IF Other = {} THEN 1 ELSE Max(Other) + 1].at
  BY DEF StretchStart
<1> HIDE DEF Upto, Other
<1>8. \A k \in Other : k < b /\ k \in Nat
  BY <1>1, <1>2, <1>6
<1>9. CASE b = 1
  <2>1. Other = {}
    BY <1>6, <1>8, <1>9
  <2> QED BY <1>7, <1>9, <2>1
<1>10. CASE b > 1
  <2>1. b - 1 \in Other
    BY <1>1, <1>2, <1>6, <1>10 DEF Begins
  <2>2. \A y \in Other : b - 1 >= y
    BY <1>1, <1>2, <1>8
  <2>3. Max(Other) = b - 1
    BY <1>1, <1>2, <1>8, <2>1, <2>2 DEF Max
  <2>4. Max(Other) + 1 = b /\ Other # {}
    BY <1>1, <1>2, <2>1, <2>3
  <2> QED BY <1>7, <2>4
<1> QED BY <1>1, <1>2, <1>9, <1>10

(* A new row is timely.                                                    *)
LEMMA EdgeIsTimely ==
  ASSUME ReadsArrive, LineInv, NEW gap \in Gaps, NEW word \in ReadSignal,
         Poll(gap, word), debounced' # debounced,
         NEW row, row.at = now', row.edge = debounced'
  PROVE  Timely(samples', row)
<1> DEFINE t == now + gap
           v == TriggerState(word)
           n == Len(samples)
<1>1. PICK b \in 1 .. Len(samples') :
        /\ Begins(samples', b, Len(samples'))
        /\ v = 1 \/ debounced = 1 => RawSince(t, v) = samples'[b].at
        /\ v # debounced => samples'[b].at = t \/ now - samples'[b].at < Need(v)
  BY NewStretch
<1>2. /\ v \in 0 .. 1 /\ now' = t /\ t \in Nat /\ gap \in Nat /\ n \in Nat
      /\ Len(samples') = n + 1 /\ DOMAIN samples' = 1 .. n + 1
      /\ samples'[n + 1].at = t /\ t = now + gap
      /\ samples' \in Seq(Sample)
  BY Sampling DEF LineInv
<1>3. v # debounced /\ t - RawSince(t, v) >= Need(v) /\ debounced' = v
  BY Feeding
<1>4. debounced \in 0 .. 1 /\ now \in Nat
  BY DEF LineInv, Types
<1>5. gap <= Longest /\ Longest \in Nat \ {0} /\ Need(v) \in Nat
  BY <1>2, LongestIs, NeedType
<1> HIDE DEF t, v, n
<1>6. samples'[b].at \in Nat
  <2>1. samples'[b] \in Sample
    BY <1>2
  <2> QED BY <2>1 DEF Sample
<1>7. row.at = t /\ row.edge = v
  BY <1>2, <1>3
<1>8. row.at - samples'[b].at >= Need(row.edge)
  BY <1>1, <1>2, <1>3, <1>4, <1>7
<1>9. row.at - samples'[b].at < Need(row.edge) + Longest
  BY <1>1, <1>2, <1>3, <1>4, <1>5, <1>6, <1>7
<1>10. n + 1 \in DOMAIN samples' /\ b \in DOMAIN samples' /\ Begins(samples', b, n + 1)
       /\ samples'[n + 1].at = row.at
  BY <1>1, <1>2, <1>7
<1> QED BY <1>8, <1>9, <1>10 DEF Timely

(* An earlier row stays timely.                                            *)
LEMMA TimelyStays ==
  ASSUME ReadsArrive, LineInv, NEW gap \in Gaps, NEW word \in ReadSignal,
         Poll(gap, word), NEW row, Timely(samples, row)
  PROVE  Timely(samples', row)
<1>1. PICK e \in DOMAIN samples, b \in DOMAIN samples :
        /\ samples[e].at = row.at /\ Begins(samples, b, e)
        /\ row.at - samples[b].at >= Need(row.edge)
        /\ row.at - samples[b].at < Need(row.edge) + Longest
  BY DEF Timely
<1>2. /\ Len(samples) \in Nat /\ Len(samples') = Len(samples) + 1
      /\ DOMAIN samples = 1 .. Len(samples) /\ DOMAIN samples' = 1 .. Len(samples')
      /\ \A k \in 1 .. Len(samples) : samples'[k] = samples[k]
  BY Sampling DEF LineInv
<1>3. samples'[e] = samples[e] /\ samples'[b] = samples[b]
      /\ e \in DOMAIN samples' /\ b \in DOMAIN samples'
  BY <1>2
<1>4. Begins(samples', b, e)
  BY <1>1, <1>2 DEF Begins
<1> QED BY <1>1, <1>3, <1>4 DEF Timely

LEMMA RowsPoll ==
  ASSUME ReadsArrive, LineInv, RowsInv,
         NEW gap \in Gaps, NEW word \in ReadSignal, Poll(gap, word)
  PROVE  RowsInv'
<1> DEFINE n == Len(rows)
<1>1. rows \in Seq(Event) /\ now' \in Nat /\ rise \in Int
  BY Sampling DEF LineInv, Types
<1>2. \A i \in DOMAIN rows : Timely(samples', rows[i])
  BY TimelyStays DEF RowsInv
<1>3. CASE UNCHANGED <<debounced, rise, lastAccept, rows>>
  <2>1. Turns'
    BY <1>3 DEF RowsInv, Turns
  <2>2. \A i \in DOMAIN rows' : Timely(samples', rows'[i])
    BY <1>2, <1>3
  <2> QED BY <2>1, <2>2 DEF RowsInv
<1>4. ASSUME NEW row, row \in Event, rows' = Append(rows, row),
             debounced' # debounced, row.at = now', row.edge = debounced',
             debounced' = 1 => rise' = now',
             debounced' = 0 => debounced = 1 /\ row.width = now' - rise
      PROVE  RowsInv'
  <2>1. /\ n \in Nat /\ DOMAIN rows = 1 .. n /\ DOMAIN rows' = 1 .. n + 1 /\ Len(rows') = n + 1
        /\ \A i \in 1 .. n : rows'[i] = rows[i]
        /\ rows'[n + 1] = row
    BY <1>1, <1>4
  <2>2. Timely(samples', row)
    BY <1>4, EdgeIsTimely
  <2>3. \A i \in DOMAIN rows' : Timely(samples', rows'[i])
    BY <1>2, <2>1, <2>2
  <2>4. rows' # << >> /\ (rows = << >> <=> n = 0)
    BY <1>1, <2>1
  <2> HIDE DEF n
  <2>5. n > 0 => rows[n].edge = debounced /\ (debounced = 1 => rise = rows[n].at)
    BY <2>1, <2>4 DEF RowsInv, Turns, n
  <2>6. ASSUME NEW i \in 1 .. n + 1, i > 1, rows'[i].edge = 0
        PROVE  rows'[i - 1].edge = 1 /\ rows'[i].width = rows'[i].at - rows'[i - 1].at
    <3>1. CASE i \in 1 .. n
      <4>1. i - 1 \in 1 .. n
        BY <2>1, <2>6, <3>1
      <4> QED BY <2>1, <2>6, <3>1, <4>1 DEF RowsInv, Turns
    <3>2. CASE i = n + 1
      <4>1. n > 0 /\ i - 1 = n /\ n \in 1 .. n
        BY <2>1, <2>6, <3>2
      <4> QED BY <1>4, <2>1, <2>5, <2>6, <3>2, <4>1
    <3> QED BY <2>1, <3>1, <3>2
  <2>7. Turns'
    BY <1>4, <2>1, <2>4, <2>6 DEF Turns
  <2> QED BY <2>3, <2>7 DEF RowsInv
<1>5. CASE /\ debounced' = 1 /\ debounced = 0 /\ rise' = now'
           /\ \E d \in Decision : rows' = Append(rows, Row(now', 1, d, 0))
  <2>1. PICK d \in Decision : rows' = Append(rows, Row(now', 1, d, 0))
    BY <1>5
  <2>2. now' \in Nat
    BY <1>1
  <2>3. Row(now', 1, d, 0) \in Event /\ Row(now', 1, d, 0).at = now'
        /\ Row(now', 1, d, 0).edge = 1
    BY <2>2 DEF Row, Event
  <2> QED BY <1>4, <1>5, <2>1, <2>3
<1>6. CASE /\ debounced' = 0 /\ debounced = 1
           /\ \E d \in Decision : rows' = Append(rows, Row(now', 0, d, now' - rise))
  <2>1. PICK d \in Decision : rows' = Append(rows, Row(now', 0, d, now' - rise))
    BY <1>6
  <2>2. now' \in Nat /\ now' - rise \in Int
    BY <1>1
  <2> DEFINE row == Row(now', 0, d, now' - rise)
  <2>3. row \in Event /\ row.at = now' /\ row.edge = 0 /\ row.width = now' - rise
    BY <2>2 DEF Row, Event
  <2> HIDE DEF row
  <2> QED BY <1>4, <1>6, <2>1, <2>3 DEF row
<1> QED BY <1>3, <1>5, <1>6, Edges DEF LineInv

LEMMA RowsInit == Init => RowsInv
  BY DEF Init, RowsInv, Turns

LEMMA RowsStep == ReadsArrive /\ LineInv /\ RowsInv /\ [Next]_vars => RowsInv'
<1> SUFFICES ASSUME ReadsArrive, LineInv, RowsInv, [Next]_vars PROVE RowsInv'
  OBVIOUS
<1>1. ASSUME UNCHANGED <<now, audit, samples>> PROVE RowsInv'
  BY <1>1 DEF audit, RowsInv, Turns
<1> QED BY <1>1, RowsPoll DEF Next, SessionEnds, vars

LEMMA WidthMeans == LineInv /\ RowsInv => WidthIsOfThePulse
<1> SUFFICES ASSUME LineInv, RowsInv, NEW i \in 2 .. Len(rows), rows[i].edge = 0
             PROVE  Distance(rows[i].width,
                             StretchStart(rows[i].at) - StretchStart(rows[i - 1].at))
                      < Distance(DebounceOn, DebounceOff) + Longest
  BY DEF WidthIsOfThePulse, Longest
<1>1. Len(rows) \in Nat /\ DOMAIN rows = 1 .. Len(rows)
  BY DEF LineInv, Types
<1>2. i \in DOMAIN rows /\ i - 1 \in DOMAIN rows /\ i > 1
  BY <1>1
<1>3. rows[i - 1].edge = 1 /\ rows[i].width = rows[i].at - rows[i - 1].at
  BY <1>2 DEF RowsInv, Turns
<1>4. \A s \in DOMAIN samples : samples[s].at \in Nat
  <2>1. samples \in Seq(Sample)
    BY DEF LineInv, Types
  <2>2. \A s \in DOMAIN samples : samples[s] \in Sample
    BY <2>1
  <2> QED BY <2>2 DEF Sample
<1>5. ASSUME NEW r \in DOMAIN rows
      PROVE  /\ rows[r].at \in Nat /\ StretchStart(rows[r].at) \in Nat
             /\ rows[r].at - StretchStart(rows[r].at) >= Need(rows[r].edge)
             /\ rows[r].at - StretchStart(rows[r].at) < Need(rows[r].edge) + Longest
  <2>1. PICK e \in DOMAIN samples, b \in DOMAIN samples :
          /\ samples[e].at = rows[r].at /\ Begins(samples, b, e)
          /\ rows[r].at - samples[b].at >= Need(rows[r].edge)
          /\ rows[r].at - samples[b].at < Need(rows[r].edge) + Longest
    BY DEF RowsInv, Timely
  <2>2. StretchStart(samples[e].at) = samples[b].at
    BY <2>1, StartOfStretch DEF LineInv
  <2> QED BY <1>4, <2>1, <2>2
<1>6. Need(rows[i].edge) = DebounceOff /\ Need(rows[i - 1].edge) = DebounceOn
  BY <1>3 DEF Need
<1> DEFINE a == rows[i].at
           c == rows[i - 1].at
           sa == StretchStart(a)
           sc == StretchStart(c)
<1>7. /\ a \in Nat /\ c \in Nat /\ sa \in Nat /\ sc \in Nat
      /\ a - sa >= DebounceOff /\ a - sa < DebounceOff + Longest
      /\ c - sc >= DebounceOn /\ c - sc < DebounceOn + Longest
  BY <1>2, <1>5, <1>6
<1>8. Longest \in Nat /\ DebounceOn \in Nat /\ DebounceOff \in Nat
  BY LongestIs
<1> HIDE DEF a, c, sa, sc
<1>9. Distance(a - c, sa - sc) < Distance(DebounceOn, DebounceOff) + Longest
  BY <1>7, <1>8 DEF Distance
<1> QED BY <1>3, <1>9 DEF a, c, sa, sc

LEMMA RowsInvariance == Spec => [](ReadsArrive => RowsInv)
<1>1. Init => (ReadsArrive => RowsInv)
  BY RowsInit
<1>2. (ReadsArrive => LineInv) /\ (ReadsArrive => RowsInv) /\ [Next]_vars
        => (ReadsArrive => RowsInv)'
  BY RowsStep DEF ReadsArrive, ReadSignal, Register, TriggerState, Arrives
<1> QED BY <1>1, <1>2, LineInvariance, PTL DEF Spec

(* The audit's width of a pulse is that of the line but for the debounce   *)
(* times and one gap between two samples.                                  *)
THEOREM WidthOfPulse == Spec => [](ReadsArrive => WidthIsOfThePulse)
<1>1. (ReadsArrive => LineInv) /\ (ReadsArrive => RowsInv)
        => (ReadsArrive => WidthIsOfThePulse)
  BY WidthMeans
<1> QED BY <1>1, LineInvariance, RowsInvariance, PTL

-----------------------------------------------------------------------------
(* The audit and the sessions. *)

Accepted == {rows[i].at : i \in {j \in DOMAIN rows : rows[j].decision = "ACCEPTED"}}
Started == ToSet(starts)
Audited(times) == {s + DebounceOn : s \in times}

(* CleanLine, of a given history. *)
Clean(line) ==
  /\ \A k \in DOMAIN line : line[k].at = k
  /\ line # << >> => line[1].raw = 0
  /\ \A k \in DOMAIN line, b \in DOMAIN line :
       k > 1 /\ line[k].raw # line[k - 1].raw /\ b > 1 /\ Begins(line, b, k - 1) =>
         k - b > Need(line[k - 1].raw)

(* Clean is closed under prefixes; on a clean line a value has settled     *)
(* before it changes.                                                      *)
LEMMA CleanPoll ==
  ASSUME ReadsArrive, LineInv, NEW gap \in Gaps, NEW word \in ReadSignal,
         Poll(gap, word), Clean(samples')
  PROVE  /\ Clean(samples)
         /\ samples # << >> => now' = now + 1
         /\ samples = << >> => raw' = 0
         /\ raw' # raw => debounced = raw
<1> DEFINE t == now + gap
           v == TriggerState(word)
           n == Len(samples)
<1>1. /\ v \in 0 .. 1 /\ now' = t /\ t \in Nat /\ n \in Nat
      /\ Len(samples') = n + 1 /\ DOMAIN samples = 1 .. n /\ DOMAIN samples' = 1 .. n + 1
      /\ \A k \in 1 .. n : samples'[k] = samples[k]
      /\ samples'[n + 1].at = t /\ samples'[n + 1].raw = v
  BY Sampling DEF LineInv
<1>2. raw' = v
  BY Feeding
<1>3. /\ samples = << >> => n = 0 /\ raw = 0 /\ debounced = 0
      /\ samples # << >> => n > 0 /\ samples[n].at = now /\ samples[n].raw = raw
  BY DEF LineInv, History, Types
<1> HIDE DEF t, v, n
<1>4. Clean(samples)
  <2>1. \A k \in 1 .. n : samples[k].at = k
    BY <1>1 DEF Clean
  <2>2. samples # << >> => samples[1].raw = 0
    BY <1>1, <1>3 DEF Clean
  <2>3. ASSUME NEW k \in 1 .. n, NEW b \in 1 .. n,
               k > 1, samples[k].raw # samples[k - 1].raw, b > 1, Begins(samples, b, k - 1)
        PROVE  k - b > Need(samples[k - 1].raw)
    <3>1. k - 1 \in 1 .. n /\ k \in 1 .. n + 1 /\ b \in 1 .. n + 1
      BY <1>1, <2>3
    <3>2. Begins(samples', b, k - 1)
      BY <1>1, <2>3, <3>1 DEF Begins
    <3> QED BY <1>1, <2>3, <3>1, <3>2 DEF Clean
  <2> QED BY <1>1, <2>1, <2>2, <2>3 DEF Clean
<1>5. samples # << >> => now' = now + 1
  BY <1>1, <1>3, <1>4 DEF Clean
<1>6. samples = << >> => raw' = 0
  <2>1. samples' # << >>
    BY <1>1
  <2> QED BY <1>1, <1>2, <1>3, <2>1 DEF Clean
<1>7. ASSUME raw' # raw PROVE debounced = raw
  <2>1. samples # << >> /\ n > 0
    BY <1>3, <1>6, <1>7
  <2>2. PICK b \in DOMAIN samples : StretchFrom(b)
    BY <2>1 DEF LineInv, LastStretch
  <2>3. Begins(samples, b, n)
    BY <2>2 DEF StretchFrom, n
  <2>4. samples[b].at = b /\ now = n /\ b \in 1 .. n
    BY <1>1, <1>3, <1>4, <2>1 DEF Clean
  <2>5. raw \in 0 .. 1 /\ debounced \in 0 .. 1 /\ Need(raw) \in Nat
    BY NeedType DEF LineInv, Types
  <2>6. CASE b = 1
    <3>1. samples[1].raw = samples[n].raw
      BY <2>3, <2>4, <2>6 DEF Begins
    <3>2. raw = 0
      BY <1>3, <1>4, <2>1, <3>1 DEF Clean
    <3> QED BY <2>2, <2>6, <3>2 DEF StretchFrom
  <2>7. CASE b > 1
    <3>1. Begins(samples', b, n)
      BY <1>1, <2>3 DEF Begins
    <3>2. n + 1 - b > Need(samples'[n].raw)
      <4>1. samples'[n + 1].raw # samples'[n].raw
        BY <1>1, <1>2, <1>3, <1>7, <2>1
      <4>2. n + 1 \in DOMAIN samples' /\ b \in DOMAIN samples' /\ n + 1 > 1 /\ (n + 1) - 1 = n
        BY <1>1, <2>1, <2>4
      <4>3. \A k \in DOMAIN samples', c \in DOMAIN samples' :
              k > 1 /\ samples'[k].raw # samples'[k - 1].raw /\ c > 1
                /\ Begins(samples', c, k - 1) => k - c > Need(samples'[k - 1].raw)
        BY DEF Clean
      <4>4. PICK k \in DOMAIN samples' : k = n + 1
        BY <4>2
      <4>5. k - 1 = n /\ k > 1
        BY <1>1, <4>2, <4>4
      <4>6. k - b > Need(samples'[k - 1].raw)
        BY <2>7, <3>1, <4>1, <4>2, <4>3, <4>4, <4>5
      <4>7. samples'[k - 1] = samples'[n] /\ k - b = n + 1 - b
        BY <1>1, <2>4, <4>4, <4>5
      <4> QED BY <4>6, <4>7
    <3>3. now - samples[b].at >= Need(raw)
      BY <1>1, <1>3, <2>1, <2>4, <2>5, <3>2
    <3> QED BY <1>1, <2>2, <2>4, <2>5, <3>3 DEF StretchFrom
  <2> QED BY <2>4, <2>6, <2>7
<1> QED BY <1>4, <1>5, <1>6, <1>7

(* CleanLine says so of the whole history.                                 *)
LEMMA CleanMeans ==
  ASSUME LineInv, CleanLine PROVE Clean(samples)
<1>1. Len(samples) \in Nat /\ DOMAIN samples = 1 .. Len(samples)
  BY DEF LineInv, Types
<1>2. \A k \in DOMAIN samples : samples[k].at = k
  BY DEF CleanLine
<1>3. ASSUME NEW k \in DOMAIN samples, NEW b \in DOMAIN samples,
             k > 1, samples[k].raw # samples[k - 1].raw, b > 1, Begins(samples, b, k - 1)
      PROVE  k - b > Need(samples[k - 1].raw)
  <2>1. k - 1 \in DOMAIN samples /\ samples[k - 1].at = k - 1 /\ samples[b].at = b
    BY <1>1, <1>2, <1>3
  <2>2. StretchStart(k - 1) = b
    BY <1>3, <2>1, StartOfStretch DEF LineInv
  <2> QED BY <1>3, <2>2 DEF CleanLine
<1> QED BY <1>2, <1>3 DEF Clean, CleanLine

(* A session has a trigger, and the service has seen the last sample.      *)
Sessions ==
  /\ starts \in Seq(Nat) /\ lastTrigger \in Nat \cup {Never}
  /\ active => lastTrigger # Never
  /\ lastTrigger # Never => lastTrigger <= now
  /\ lastState = raw /\ (samples # << >> => firstPoll = TRUE)

(* While no rise waits to settle, the audit is the account of the triggers. *)
Settled ==
  /\ Accepted = Audited(Started)
  /\ \A s \in Started : s + DebounceOn <= now
  /\ lastAccept = IF lastTrigger = Never THEN Never ELSE lastTrigger + DebounceOn

(* While one does, it has started a session that the audit is yet to       *)
(* accept, or was suppressed and the audit is yet to see it early.         *)
Opened ==
  LET before == Started \ {rawSince}
  IN /\ lastTrigger = rawSince /\ rawSince \in Started
     /\ Accepted = Audited(before)
     /\ \A s \in before : s + DebounceOn <= now
     /\ lastAccept = Never \/ rawSince + DebounceOn - lastAccept >= MinInterval
Suppressed ==
  /\ Settled /\ lastTrigger # Never /\ rawSince - lastTrigger < MinInterval

Agree ==
  IF raw = 1 /\ debounced = 0
  THEN rawSince <= now /\ now < rawSince + DebounceOn /\ (Opened \/ Suppressed)
  ELSE Settled

Agreement == Clean(samples) => Sessions /\ Agree

(* What a poll does to the sessions. *)
LEMMA SessionsPoll ==
  ASSUME ReadsArrive, LineInv, NEW gap \in Gaps, NEW word \in ReadSignal,
         Poll(gap, word), Clean(samples'), Sessions
  PROVE  /\ Sessions'
         /\ \/ /\ raw' = 1 /\ raw = 0
               /\ lastTrigger # Never /\ now' - lastTrigger < MinInterval
               /\ lastTrigger' = lastTrigger /\ starts' = starts
            \/ /\ raw' = 1 /\ raw = 0
               /\ lastTrigger = Never \/ ~(now' - lastTrigger < MinInterval)
               /\ lastTrigger' = now' /\ starts' = Append(starts, now')
            \/ /\ ~(raw' = 1 /\ raw = 0)
               /\ lastTrigger' = lastTrigger /\ starts' = starts
<1> DEFINE t == now + gap
           v == TriggerState(word)
           keep == active \/ (lastTrigger # Never /\ t - lastTrigger < MinInterval)
<1>1. /\ gap \in Nat \ {0} /\ t \in Nat /\ v \in 0 .. 1 /\ now' = t
      /\ t = now + gap /\ Len(samples') = Len(samples) + 1 /\ Len(samples) \in Nat
  BY Sampling DEF LineInv
<1>2. raw' = v /\ (samples = << >> => raw' = 0)
  BY CleanPoll, Feeding
<1>3. /\ firstPoll' = TRUE /\ lastState' = v
      /\ IF firstPoll /\ lastState = 0 /\ v = 1 THEN PlcOn(t) ELSE UNCHANGED sessions
  BY DEF Poll, Transition
<1>4. active => t <= lastTrigger + HoldTime
  BY DEF Poll
<1> HIDE DEF t, v
<1>5. /\ now \in Nat /\ raw \in 0 .. 1 /\ lastState = raw
      /\ starts \in Seq(Nat) /\ lastTrigger \in Nat \cup {Never}
      /\ active => lastTrigger # Never
      /\ lastTrigger # Never => lastTrigger <= now
  BY DEF LineInv, Types, Sessions
<1>6. keep <=> lastTrigger # Never /\ t - lastTrigger < MinInterval
  BY <1>1, <1>4, <1>5
<1> HIDE DEF keep
<1>7. CASE v = 1 /\ raw = 0
  <2>1. samples # << >>
    BY <1>2, <1>7
  <2>2. PlcOn(t)
    BY <1>3, <1>5, <1>7, <2>1 DEF Sessions
  <2>3. CASE keep
    <3>1. UNCHANGED <<active, lastTrigger, starts>>
      BY <2>2, <2>3 DEF PlcOn, sessions, keep
    <3>2. Sessions'
      BY <1>1, <1>2, <1>3, <1>5, <3>1 DEF Sessions
    <3> QED BY <1>1, <1>2, <1>6, <1>7, <2>1, <2>3, <3>1, <3>2
  <2>4. CASE ~keep
    <3>1. active' = TRUE /\ lastTrigger' = t /\ starts' = Append(starts, t)
      BY <2>2, <2>4 DEF PlcOn, keep
    <3>2. Append(starts, t) \in Seq(Nat) /\ t # Never
      BY <1>1, <1>5 DEF Never
    <3>3. Sessions'
      BY <1>1, <1>2, <1>3, <3>1, <3>2 DEF Sessions
    <3> QED BY <1>1, <1>2, <1>6, <1>7, <2>1, <2>4, <3>1, <3>3
  <2> QED BY <2>3, <2>4
<1>8. CASE ~(v = 1 /\ raw = 0)
  <2>1. UNCHANGED <<active, lastTrigger, starts>>
    BY <1>3, <1>5, <1>8 DEF sessions
  <2>2. Sessions'
    BY <1>1, <1>2, <1>3, <1>5, <2>1 DEF Sessions
  <2> QED BY <1>2, <1>8, <2>1, <2>2
<1> QED BY <1>7, <1>8

LEMMA StartedPoll ==
  ASSUME starts \in Seq(Nat), NEW t \in Nat, starts' = Append(starts, t)
  PROVE  Started' = Started \cup {t}
<1>1. /\ Len(starts) \in Nat /\ DOMAIN starts = 1 .. Len(starts)
      /\ DOMAIN starts' = 1 .. Len(starts) + 1
      /\ \A i \in DOMAIN starts : starts'[i] = starts[i]
      /\ starts'[Len(starts) + 1] = t
  OBVIOUS
<1> QED BY <1>1 DEF Started, ToSet

LEMMA AcceptedPoll ==
  ASSUME rows \in Seq(Event), NEW row \in Event, rows' = Append(rows, row)
  PROVE  Accepted' = Accepted \cup (IF row.decision = "ACCEPTED" THEN {row.at} ELSE {})
<1>1. /\ Len(rows) \in Nat /\ DOMAIN rows = 1 .. Len(rows)
      /\ DOMAIN rows' = 1 .. Len(rows) + 1
      /\ \A i \in DOMAIN rows : rows'[i] = rows[i]
      /\ rows'[Len(rows) + 1] = row
  OBVIOUS
<1> QED BY <1>1 DEF Accepted

(* What a poll does to the audit. *)
LEMMA AuditPoll ==
  ASSUME ReadsArrive, LineInv, NEW gap \in Gaps, NEW word \in ReadSignal, Poll(gap, word)
  PROVE  \/ /\ raw' = debounced \/ now' - rawSince' < Need(raw')
            /\ debounced' = debounced /\ lastAccept' = lastAccept /\ Accepted' = Accepted
         \/ /\ raw' = 1 /\ debounced = 0 /\ debounced' = 1
            /\ now' - rawSince' >= DebounceOn
            /\ \/ Early(now') /\ lastAccept' = lastAccept /\ Accepted' = Accepted
               \/ ~Early(now') /\ lastAccept' = now' /\ Accepted' = Accepted \cup {now'}
         \/ /\ raw' = 0 /\ debounced = 1 /\ debounced' = 0
            /\ lastAccept' = lastAccept /\ Accepted' = Accepted
<1> DEFINE t == now + gap
           v == TriggerState(word)
<1>1. v \in 0 .. 1 /\ now' = t /\ t \in Nat
  BY Sampling DEF LineInv
<1>2. /\ raw' = v /\ rawSince' = RawSince(t, v)
      /\ \/ /\ v # debounced /\ t - RawSince(t, v) >= Need(v) /\ debounced' = v
            /\ \/ v = 1 /\ MakeRising(t, FALSE, FALSE)
               \/ v # 1 /\ MakeFalling(t)
         \/ /\ v = debounced \/ ~(t - RawSince(t, v) >= Need(v))
            /\ UNCHANGED <<debounced, rise, lastAccept, rows>>
  BY Feeding
<1>3. debounced \in 0 .. 1 /\ rise \in Int /\ rows \in Seq(Event) /\ rawSince \in Nat
  BY DEF LineInv, Types
<1>4. rawSince' \in Nat /\ Need(v) \in Nat
  BY <1>1, <1>2, <1>3, NeedType DEF RawSince
<1> HIDE DEF t, v
<1>5. CASE /\ v = debounced \/ ~(t - RawSince(t, v) >= Need(v))
           /\ UNCHANGED <<debounced, rise, lastAccept, rows>>
  <2>1. Accepted' = Accepted
    BY <1>5 DEF Accepted
  <2> QED BY <1>1, <1>2, <1>4, <1>5, <2>1
<1>6. CASE /\ v # debounced /\ t - RawSince(t, v) >= Need(v) /\ debounced' = v
           /\ v = 1 /\ MakeRising(t, FALSE, FALSE)
  <2> DEFINE d == IF Early(t) THEN "SUSPICIOUS_EARLY_TRIGGER" ELSE "ACCEPTED"
             row == Row(t, 1, d, 0)
  <2>1. d = RisingDecision(t, FALSE, FALSE) /\ d \in Decision
    BY DEF RisingDecision, Decision
  <2>2. rows' = Append(rows, row) /\ lastAccept' = Accept(t, d)
    BY <1>6, <2>1 DEF MakeRising, Emit
  <2>3. d = "ACCEPTED" <=> ~Early(t)
    OBVIOUS
  <2> HIDE DEF d
  <2>4. row \in Event /\ row.at = t /\ row.decision = d
    <3>1. row = [at |-> t, edge |-> 1, decision |-> d, width |-> 0]
      BY DEF Row
    <3>2. d \in Decision
      BY <2>1
    <3> QED BY <1>1, <3>1, <3>2 DEF Event
  <2> HIDE DEF row
  <2>5. Accepted' = Accepted \cup (IF d = "ACCEPTED" THEN {t} ELSE {})
    BY <1>3, <2>2, <2>4, AcceptedPoll
  <2>6. lastAccept' = IF d = "ACCEPTED" THEN t ELSE lastAccept
    BY <2>2 DEF Accept
  <2>7. debounced = 0 /\ debounced' = 1 /\ now' - rawSince' >= DebounceOn /\ raw' = 1
    BY <1>1, <1>2, <1>3, <1>6 DEF Need
  <2>8. CASE Early(t)
    <3>1. Accepted' = Accepted /\ lastAccept' = lastAccept
      BY <2>3, <2>5, <2>6, <2>8
    <3> QED BY <1>1, <2>7, <2>8, <3>1
  <2>9. CASE ~Early(t)
    <3>1. Accepted' = Accepted \cup {t} /\ lastAccept' = t
      BY <2>3, <2>5, <2>6, <2>9
    <3> QED BY <1>1, <2>7, <2>9, <3>1
  <2> QED BY <2>8, <2>9
<1>7. CASE /\ v # debounced /\ debounced' = v
           /\ v # 1 /\ MakeFalling(t)
  <2> DEFINE d == IF Width(t) \in PulseMin .. PulseMax THEN "FALLING"
                                                        ELSE "INVALID_PLC_PULSE"
             row == Row(t, 0, d, Width(t))
  <2>1. d \in Decision /\ d # "ACCEPTED"
    BY DEF Decision
  <2>2. rows' = Append(rows, row) /\ lastAccept' = lastAccept
    BY <1>7 DEF MakeFalling, Emit
  <2> HIDE DEF d
  <2>3. Width(t) \in Int
    BY <1>1, <1>3 DEF Width
  <2>4. row \in Event /\ row.decision = d
    BY <1>1, <2>1, <2>3 DEF Row, Event
  <2> HIDE DEF row
  <2>5. Accepted' = Accepted
    BY <1>3, <2>1, <2>2, <2>4, AcceptedPoll
  <2> QED BY <1>1, <1>2, <1>3, <1>7, <2>2, <2>5
<1> QED BY <1>2, <1>5, <1>6, <1>7

(* What does not change the account keeps it.                              *)
LEMMA SettledStays ==
  ASSUME Types, Settled, Sessions, Types', now <= now',
         Accepted' = Accepted, UNCHANGED <<lastAccept, lastTrigger, starts>>
  PROVE  Settled'
<1>1. Started' = Started /\ Started \subseteq Nat
  BY DEF Started, ToSet, Sessions
<1>2. now \in Nat /\ now' \in Nat /\ DebounceOn \in Nat
  BY DEF Types
<1>3. \A s \in Started' : s + DebounceOn <= now'
  BY <1>1, <1>2 DEF Settled
<1>4. Audited(Started)' = Audited(Started)
  BY <1>1 DEF Audited
<1> QED BY <1>3, <1>4 DEF Settled

LEMMA AgreePoll ==
  ASSUME ReadsArrive, LineInv, Types', NEW gap \in Gaps, NEW word \in ReadSignal,
         Poll(gap, word), Clean(samples'), Sessions, Agree
  PROVE  Agree'
<1>0. PICK t \in Nat : now' = t /\ t > now
  <2>1. now' = now + gap /\ gap \in Nat \ {0} /\ now \in Nat
    BY DEF Poll, LineInv, Types
  <2> QED BY <2>1
<1> USE <1>0
<1>1. /\ now \in Nat /\ now' = t /\ t > now /\ now <= t /\ t \in Nat
      /\ raw \in 0 .. 1 /\ raw' \in 0 .. 1
      /\ debounced \in 0 .. 1 /\ rawSince \in Nat
      /\ DebounceOn \in Nat /\ MinInterval \in Nat /\ Never = -1
      /\ lastAccept \in Int /\ lastTrigger \in Int
      /\ lastTrigger # Never => lastTrigger \in Nat
  BY <1>0 DEF LineInv, Types, Sessions, Never
<1>2. Started \subseteq Nat
  BY DEF Started, ToSet, Sessions
<1>3. samples # << >> => t = now + 1
  <2>1. samples # << >> => now' = now + 1
    BY CleanPoll
  <2> QED BY <2>1
<1>4. raw' # raw => debounced = raw
  BY CleanPoll
<1>5. rawSince' = IF raw' # raw THEN t ELSE rawSince
  <2>1. t = now + gap
    BY <1>0 DEF Poll
  <2> QED BY <2>1, Feeding DEF RawSince
<1>6. Need(1) = DebounceOn
  BY DEF Need
<1>7. CASE raw' = 0
  <2>1. Settled
    BY <1>1, <1>4, <1>7 DEF Agree
  <2>2. Accepted' = Accepted /\ lastAccept' = lastAccept
    BY <1>7, AuditPoll
  <2>3. lastTrigger' = lastTrigger /\ starts' = starts
    <3>1. ~(raw' = 1 /\ raw = 0)
      BY <1>7
    <3> QED BY <3>1, SessionsPoll
  <2>4. Settled'
    BY <1>1, <2>1, <2>2, <2>3, SettledStays DEF LineInv
  <2> QED BY <1>7, <2>4 DEF Agree
<1>8. CASE raw' = 1 /\ raw = 0
  <2>1. debounced = 0 /\ Settled /\ rawSince' = t
    BY <1>4, <1>5, <1>8 DEF Agree
  <2>2. /\ Accepted = Audited(Started)
        /\ \A s \in Started : s + DebounceOn <= now
        /\ lastAccept = IF lastTrigger = Never THEN Never ELSE lastTrigger + DebounceOn
    BY <2>1 DEF Settled
  <2>3. CASE /\ t - rawSince' < Need(raw')
             /\ debounced' = debounced /\ lastAccept' = lastAccept /\ Accepted' = Accepted
    <3>0. t - rawSince' < DebounceOn
      BY <1>6, <1>8, <2>3
    <3>1. rawSince' <= t /\ t < rawSince' + DebounceOn
      BY <1>1, <2>1, <3>0
    <3>2. CASE /\ lastTrigger # Never /\ t - lastTrigger < MinInterval
               /\ lastTrigger' = lastTrigger /\ starts' = starts
      <4>1. Settled'
        BY <1>1, <2>1, <2>3, <3>2, SettledStays DEF LineInv
      <4>2. Suppressed'
        BY <2>1, <3>2, <4>1 DEF Suppressed
      <4> QED BY <1>8, <2>1, <2>3, <3>1, <4>2 DEF Agree
    <3>3. CASE /\ lastTrigger = Never \/ ~(t - lastTrigger < MinInterval)
               /\ lastTrigger' = t /\ starts' = Append(starts, t)
      <4>1. Started' = Started \cup {t}
        BY <1>1, <3>3, StartedPoll DEF Sessions
      <4>2. t \notin Started
        BY <1>1, <2>2
      <4>3. Started' \ {rawSince'} = Started
        BY <2>1, <4>1, <4>2
      <4>4. \A s \in Started : s + DebounceOn <= t
        BY <1>1, <1>2, <2>2
      <4>5. lastAccept' = Never \/ rawSince' + DebounceOn - lastAccept' >= MinInterval
        <5>1. CASE lastTrigger = Never
          BY <2>2, <2>3, <5>1
        <5>2. CASE lastTrigger # Never
          <6>1. lastAccept = lastTrigger + DebounceOn /\ lastTrigger \in Nat
            BY <1>1, <2>2, <5>2
          <6>2. t - lastTrigger >= MinInterval
            BY <1>1, <3>3, <5>2, <6>1
          <6>3. t + DebounceOn - lastAccept >= MinInterval
            BY <1>1, <6>1, <6>2
          <6> QED BY <2>1, <2>3, <6>3
        <5> QED BY <5>1, <5>2
      <4>6. rawSince' \in Started' /\ lastTrigger' = rawSince'
        BY <2>1, <3>3, <4>1
      <4>7. Accepted' = {s + DebounceOn : s \in Started' \ {rawSince'}}
        BY <2>2, <2>3, <4>3 DEF Audited
      <4>8. Opened'
        BY <4>3, <4>4, <4>5, <4>6, <4>7 DEF Opened, Audited
      <4> QED BY <1>8, <2>1, <2>3, <3>1, <4>8 DEF Agree
    <3> QED BY <1>8, <3>2, <3>3, SessionsPoll
  <2>4. CASE /\ debounced' = 1 /\ t - rawSince' >= DebounceOn
             /\ \/ Early(t) /\ lastAccept' = lastAccept /\ Accepted' = Accepted
                \/ ~Early(t) /\ lastAccept' = t /\ Accepted' = Accepted \cup {t}
    <3>1. DebounceOn = 0
      BY <1>1, <2>1, <2>4
    <3>2. CASE /\ lastTrigger # Never /\ t - lastTrigger < MinInterval
               /\ lastTrigger' = lastTrigger /\ starts' = starts
      <4>1. Early(t)
        <5>1. lastAccept = lastTrigger /\ lastTrigger \in Nat
          BY <1>1, <2>2, <3>1, <3>2
        <5>2. t - lastAccept < MinInterval
          BY <3>2, <5>1
        <5> QED BY <1>1, <5>1, <5>2 DEF Early
      <4>2. Settled'
        BY <1>1, <2>1, <2>4, <3>2, <4>1, SettledStays DEF LineInv
      <4> QED BY <2>4, <4>2 DEF Agree
    <3>3. CASE /\ lastTrigger = Never \/ ~(t - lastTrigger < MinInterval)
               /\ lastTrigger' = t /\ starts' = Append(starts, t)
      <4>1. ~Early(t)
        <5>1. CASE lastTrigger = Never
          BY <2>2, <5>1 DEF Early
        <5>2. CASE lastTrigger # Never
          <6>1. lastAccept = lastTrigger
            BY <1>1, <2>2, <3>1, <5>2
          <6>2. ~(t - lastAccept < MinInterval)
            BY <3>3, <5>2, <6>1
          <6> QED BY <6>2 DEF Early
        <5> QED BY <5>1, <5>2
      <4>2. Started' = Started \cup {t}
        BY <1>1, <3>3, StartedPoll DEF Sessions
      <4>3. Accepted' = Audited(Started) \cup {t}
        BY <2>2, <2>4, <4>1
      <4>4. t + DebounceOn = t
        BY <1>1, <3>1
      <4>5. Audited(Started)' = Audited(Started) \cup {t}
        BY <4>2, <4>4 DEF Audited
      <4>6. \A s \in Started' : s + DebounceOn <= t
        BY <1>1, <1>2, <2>2, <3>1, <4>2
      <4>7. lastAccept' = lastTrigger' + DebounceOn /\ lastTrigger' # Never
        BY <1>1, <2>4, <3>3, <4>1, <4>4
      <4>8. Settled'
        BY <4>3, <4>5, <4>6, <4>7 DEF Settled
      <4> QED BY <1>8, <2>4, <4>8 DEF Agree
    <3> QED BY <1>8, <3>2, <3>3, SessionsPoll
  <2> QED BY <1>8, <2>1, <2>3, <2>4, AuditPoll
<1>9. CASE raw' = 1 /\ raw = 1
  <2>1. rawSince' = rawSince /\ lastTrigger' = lastTrigger /\ starts' = starts
    <3>1. ~(raw' = 1 /\ raw = 0) /\ rawSince' = rawSince
      BY <1>5, <1>9
    <3> QED BY <3>1, SessionsPoll
  <2>2. t = now + 1
    <3>1. samples # << >>
      BY <1>9 DEF LineInv, History
    <3> QED BY <1>3, <3>1
  <2>3. CASE debounced = 1
    <3>1. debounced' = 1 /\ Accepted' = Accepted /\ lastAccept' = lastAccept
      BY <1>9, <2>3, AuditPoll
    <3>2. Settled'
      BY <1>1, <2>1, <2>3, <3>1, SettledStays DEF LineInv, Agree
    <3> QED BY <3>1, <3>2 DEF Agree
  <2>4. CASE debounced = 0
    <3>1. rawSince <= now /\ now < rawSince + DebounceOn /\ (Opened \/ Suppressed)
      BY <1>9, <2>4 DEF Agree
    <3>2. Started' = Started
      BY <2>1 DEF Started
    <3>3. CASE /\ t - rawSince' < Need(raw')
               /\ debounced' = debounced /\ lastAccept' = lastAccept /\ Accepted' = Accepted
      <4>1. rawSince' <= t /\ t < rawSince' + DebounceOn
        BY <1>1, <1>6, <1>9, <2>1, <3>1, <3>3
      <4>2. CASE Opened
        <5>1. \A s \in Started \ {rawSince} : s + DebounceOn <= t
          BY <1>1, <1>2, <4>2 DEF Opened
        <5>2. Opened'
          BY <2>1, <3>2, <3>3, <4>2, <5>1 DEF Opened, Audited
        <5> QED BY <1>9, <2>4, <3>3, <4>1, <5>2 DEF Agree
      <4>3. CASE Suppressed
        <5>1. Settled'
          BY <1>1, <2>1, <3>3, <4>3, SettledStays DEF LineInv, Suppressed
        <5>2. Suppressed'
          BY <2>1, <4>3, <5>1 DEF Suppressed
        <5> QED BY <1>9, <2>4, <3>3, <4>1, <5>2 DEF Agree
      <4> QED BY <3>1, <4>2, <4>3
    <3>4. CASE /\ debounced' = 1 /\ t - rawSince' >= DebounceOn
               /\ \/ Early(t) /\ lastAccept' = lastAccept /\ Accepted' = Accepted
                  \/ ~Early(t) /\ lastAccept' = t /\ Accepted' = Accepted \cup {t}
      <4>1. t = rawSince + DebounceOn
        BY <1>1, <2>1, <2>2, <3>1, <3>4
      <4>2. CASE Opened
        <5>1. ~Early(t)
          <6>1. lastAccept = Never \/ rawSince + DebounceOn - lastAccept >= MinInterval
            BY <4>2 DEF Opened
          <6> QED BY <1>1, <4>1, <6>1 DEF Early
        <5>2. Accepted' = Audited(Started \ {rawSince}) \cup {rawSince + DebounceOn}
          BY <3>4, <4>1, <4>2, <5>1 DEF Opened
        <5>3. Audited(Started)' = Audited(Started \ {rawSince}) \cup {rawSince + DebounceOn}
          BY <3>2, <4>2 DEF Audited, Opened
        <5>4. \A s \in Started' : s + DebounceOn <= t
          <6>1. \A s \in Started \ {rawSince} : s + DebounceOn <= now
            BY <4>2 DEF Opened
          <6> QED BY <1>1, <1>2, <3>2, <4>1, <6>1
        <5>5. lastTrigger' # Never /\ lastAccept' = lastTrigger' + DebounceOn
          BY <1>1, <2>1, <3>4, <4>1, <4>2, <5>1 DEF Opened
        <5>6. Settled'
          BY <5>2, <5>3, <5>4, <5>5 DEF Settled
        <5> QED BY <3>4, <5>6 DEF Agree
      <4>3. CASE Suppressed
        <5>1. Early(t)
          <6>1. lastTrigger \in Nat /\ lastAccept = lastTrigger + DebounceOn
            BY <1>1, <4>3 DEF Suppressed, Settled
          <6>2. rawSince - lastTrigger < MinInterval
            BY <4>3 DEF Suppressed
          <6>3. t - lastAccept < MinInterval
            BY <1>1, <4>1, <6>1, <6>2
          <6> QED BY <1>1, <6>1, <6>3 DEF Early
        <5>2. Settled'
          BY <1>1, <2>1, <3>4, <4>3, <5>1, SettledStays DEF LineInv, Suppressed
        <5> QED BY <3>4, <5>2 DEF Agree
      <4> QED BY <3>1, <4>2, <4>3
    <3> QED BY <1>9, <2>4, <3>3, <3>4, AuditPoll
  <2> QED BY <1>1, <2>3, <2>4
<1> QED BY <1>1, <1>7, <1>8, <1>9

LEMMA AgreeInit == Init => Agreement
<1> SUFFICES ASSUME Init PROVE Sessions /\ Agree
  BY DEF Agreement
<1>1. /\ raw = 0 /\ starts = << >> /\ rows = << >> /\ samples = << >>
      /\ lastTrigger = Never /\ lastAccept = Never /\ active = FALSE /\ lastState = 0
  BY DEF Init
<1>2. Sessions
  BY <1>1 DEF Sessions
<1>3. Started = {} /\ Accepted = {}
  BY <1>1 DEF Started, ToSet, Accepted
<1>4. Settled
  BY <1>1, <1>3 DEF Settled, Audited
<1> QED BY <1>1, <1>2, <1>4 DEF Agree

LEMMA AgreeStep ==
  ReadsArrive /\ LineInv /\ LineInv' /\ Agreement /\ [Next]_vars => Agreement'
<1> SUFFICES ASSUME ReadsArrive, LineInv, LineInv', Agreement, [Next]_vars, Clean(samples)'
             PROVE  Sessions' /\ Agree'
  BY DEF Agreement
<1>1. ASSUME NEW gap \in Gaps, NEW word \in ReadSignal, Poll(gap, word)
      PROVE  Sessions' /\ Agree'
  <2>1. Clean(samples')
    BY DEF Clean, Begins, Need
  <2>2. Sessions /\ Agree
    BY <1>1, <2>1, CleanPoll DEF Agreement
  <2>3. Types'
    BY DEF LineInv
  <2> QED BY <1>1, <2>1, <2>2, <2>3, SessionsPoll, AgreePoll
<1>2. ASSUME UNCHANGED <<now, audit, service, lastTrigger, starts, samples>>,
             active' => active
      PROVE  Sessions' /\ Agree'
  <2>1. Sessions /\ Agree
    BY <1>2 DEF Agreement, Clean, Begins, Need
  <2>2. Sessions'
    BY <1>2, <2>1 DEF Sessions, service, audit
  <2>3. Settled => Settled'
    BY <1>2 DEF Settled, Accepted, Audited, Started, audit
  <2>4. Opened => Opened'
    BY <1>2 DEF Opened, Accepted, Audited, Started, audit
  <2>5. Suppressed => Suppressed'
    BY <1>2, <2>3 DEF Suppressed, audit
  <2> QED BY <1>2, <2>1, <2>2, <2>3, <2>4, <2>5 DEF Agree, audit
<1>3. SessionEnds => /\ active' = FALSE
                     /\ UNCHANGED <<now, audit, service, lastTrigger, starts, samples>>
  BY DEF SessionEnds
<1>4. UNCHANGED vars => /\ active' = active
                        /\ UNCHANGED <<now, audit, service, lastTrigger, starts, samples>>
  BY DEF vars, sessions
<1> QED BY <1>1, <1>2, <1>3, <1>4 DEF Next

(* What the audit has accepted by now. *)
LEMMA AgreeMeans == LineInv /\ Agreement => AuditAgrees
<1> SUFFICES ASSUME LineInv, Agreement, CleanLine
             PROVE  Accepted = {s + DebounceOn : s \in {x \in Started : x + DebounceOn <= now}}
  BY DEF AuditAgrees, Accepted, Started
<1>1. Sessions /\ Agree
  BY CleanMeans DEF Agreement
<1>2. CASE Settled
  <2>1. {x \in Started : x + DebounceOn <= now} = Started
    BY <1>2 DEF Settled
  <2> QED BY <1>2, <2>1 DEF Settled, Audited
<1>3. CASE Opened /\ now < rawSince + DebounceOn
  <2>1. ~(rawSince + DebounceOn <= now)
    BY <1>3 DEF LineInv, Types
  <2>2. {x \in Started : x + DebounceOn <= now} = Started \ {rawSince}
    BY <1>3, <2>1 DEF Opened
  <2> QED BY <1>3, <2>2 DEF Opened, Audited
<1> QED BY <1>1, <1>2, <1>3 DEF Agree, Suppressed

LEMMA AgreeInvariance == Spec => [](ReadsArrive => Agreement)
<1>1. Init => (ReadsArrive => Agreement)
  BY AgreeInit
<1>2. (ReadsArrive => LineInv) /\ (ReadsArrive => LineInv)' /\ (ReadsArrive => Agreement)
        /\ [Next]_vars => (ReadsArrive => Agreement)'
  BY AgreeStep DEF ReadsArrive, ReadSignal, Register, TriggerState, Arrives
<1> QED BY <1>1, <1>2, LineInvariance, PTL DEF Spec

(* On a clean line the accepted edges are the triggers that started a      *)
(* session.                                                                *)
THEOREM AuditIsRight == Spec => [](ReadsArrive => AuditAgrees)
<1>1. (ReadsArrive => LineInv) /\ (ReadsArrive => Agreement) => (ReadsArrive => AuditAgrees)
  BY AgreeMeans
<1> QED BY <1>1, LineInvariance, AgreeInvariance, PTL
=============================================================================

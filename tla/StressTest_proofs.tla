------------------------- MODULE StressTest_proofs -------------------------
(***************************************************************************)
(* The stress test for every number of terminals and messages, and every   *)
(* threshold: a terminal has one message ahead of its interface, the       *)
(* terminals and the application agree on the phase, and every terminal    *)
(* logs its messages once each.                                            *)
(***************************************************************************)
EXTENDS StressTest, FiniteSetTheorems, TLAPS

Terms == [sendEvents : Nat, limiter : Seq(BOOLEAN), network : [BOOLEAN -> Nat],
          warmupEnable : BOOLEAN, samples : Nat, enableLogging : BOOLEAN,
          enableSending : BOOLEAN, remaining : 0..NumMessages, loggedOut : 0..NumMessages]
Apps == [warmed : 0..N, saturated : 0..N, completed : 0..N, warmupComplete : BOOLEAN,
         monitoring : {"no", "on", "ended"}, killFast : BOOLEAN, killed : BOOLEAN,
         roundedDown : BOOLEAN]
States == [app : Apps, term : [Terminals -> Terms]]

-----------------------------------------------------------------------------
(* One terminal.                                                           *)

LoggedInLimiter(l) == Cardinality({i \in DOMAIN l : l[i]})

(* With at most one message ahead the limiter is as simple as this.        *)
LEMMA ShortLimiter ==
  /\ LoggedInLimiter(<<>>) = 0
  /\ \A x \in BOOLEAN : LoggedInLimiter(<<x>>) = IF x THEN 1 ELSE 0
<1>1. {i \in DOMAIN <<>> : <<>>[i]} = {}
  OBVIOUS
<1>2. ASSUME NEW x \in BOOLEAN
      PROVE  {i \in DOMAIN <<x>> : <<x>>[i]} = IF x THEN {1} ELSE {}
  <2>1. 1 \in DOMAIN <<x>> /\ \A i \in DOMAIN <<x>> : i = 1 /\ <<x>>[1] = x
    OBVIOUS
  <2> QED
    BY <2>1, Zenon
<1>3. Cardinality({}) = 0 /\ Cardinality({1}) = 1
  BY FS_EmptySet, FS_Singleton
<1>4. ASSUME NEW x \in BOOLEAN PROVE LoggedInLimiter(<<x>>) = IF x THEN 1 ELSE 0
  BY <1>2, <1>3, Zenon DEF LoggedInLimiter
<1> QED
  BY <1>1, <1>3, <1>4 DEF LoggedInLimiter

(* A limiter of one message at most is empty or holds that one.            *)
LEMMA LimiterCases ==
  ASSUME NEW l \in Seq(BOOLEAN), Len(l) <= 1
  PROVE  l = <<>> \/ \E x \in BOOLEAN : l = <<x>>
<1>1. Len(l) = 0 => l = <<>>
  OBVIOUS
<1>2. Len(l) = 1 => l[1] \in BOOLEAN /\ l = <<l[1]>>
  OBVIOUS
<1>3. Len(l) \in Nat
  OBVIOUS
<1>4. Len(l) = 0 \/ Len(l) = 1
  BY <1>3
<1> QED
  BY <1>1, <1>2, <1>4

(* The messages of a terminal that are logged and not out yet.             *)
LoggedNet(m) == m.network[TRUE]
LoggedAhead(m) == LoggedInLimiter(m.limiter) + LoggedNet(m)

(* The second is a number, and goes with the field.                        *)
LEMMA LoggedNetIsField ==
  /\ \A m \in Terms : LoggedNet(m) \in Nat
  /\ \A r, e : r.network = e.network => LoggedNet(r) = LoggedNet(e)
<1>1. ASSUME NEW m \in Terms PROVE LoggedNet(m) \in Nat
  BY DEF Terms, LoggedNet
<1>2. ASSUME NEW r, NEW e, r.network = e.network PROVE LoggedNet(r) = LoggedNet(e)
  BY <1>2, Zenon DEF LoggedNet
<1> QED
  BY <1>1, <1>2

(* What concerns only one terminal.                                        *)
Ahead(m) == m.sendEvents + Len(m.limiter)
OneTerminal(m) ==
  /\ Ahead(m) <= 1 /\ (m.enableSending => Ahead(m) = 1)
  /\ m.remaining + LoggedAhead(m) + m.loggedOut = NumMessages
  /\ ~m.enableLogging => m.remaining = NumMessages

(* The logged messages in the limiter are a number.                        *)
LEMMA LimiterCounts ==
  ASSUME NEW m \in Terms, OneTerminal(m)
  PROVE  LoggedInLimiter(m.limiter) \in Nat /\ LoggedNet(m) \in Nat
<1>1. m.limiter \in Seq(BOOLEAN) /\ Len(m.limiter) \in Nat /\ m.sendEvents \in Nat
  BY DEF Terms
<1>2. Len(m.limiter) <= 1
  BY <1>1 DEF OneTerminal, Ahead
<1>3. PICK l \in Seq(BOOLEAN) : l = m.limiter /\ Len(l) <= 1
  BY <1>1, <1>2
<1>4. l = <<>> \/ \E x \in BOOLEAN : l = <<x>>
  BY <1>3, LimiterCases
<1>5. LoggedInLimiter(l) \in Nat
  BY <1>4, ShortLimiter
<1> QED
  BY <1>3, <1>5, LoggedNetIsField

(* The fields that sending leaves alone.                                   *)
SameOtherwise(r, m) ==
  /\ r.warmupEnable = m.warmupEnable /\ r.samples = m.samples
  /\ r.enableLogging = m.enableLogging /\ r.enableSending = m.enableSending
  /\ r.loggedOut = m.loggedOut

(* Messages come to the network and leave it.                              *)
LEMMA NetworkChanges ==
  ASSUME NEW m \in Terms, NEW x \in BOOLEAN, NEW n \in Nat
  PROVE  LET r == [m EXCEPT !.network[x] = n]
         IN /\ r \in Terms /\ SameOtherwise(r, m)
            /\ x = TRUE => LoggedNet(r) = n
            /\ x = FALSE => LoggedNet(r) = LoggedNet(m)
            /\ r.sendEvents = m.sendEvents /\ r.limiter = m.limiter /\ r.remaining = m.remaining
<1>1. PICK f \in [BOOLEAN -> Nat] : f = m.network
  BY DEF Terms
<1>2. PICK h : h = [f EXCEPT ![x] = n]
  OBVIOUS
<1>3. h \in [BOOLEAN -> Nat]
  BY <1>2
<1>4. PICK r : r = [m EXCEPT !.network = h]
  OBVIOUS
<1>5. r = [m EXCEPT !.network[x] = n]
  BY <1>1, <1>2, <1>4 DEF Terms
<1>6. /\ r \in Terms /\ r.network = h
      /\ r.sendEvents = m.sendEvents /\ r.limiter = m.limiter /\ r.remaining = m.remaining
  BY <1>3, <1>4 DEF Terms
<1>7. SameOtherwise(r, m)
  BY <1>4 DEF Terms, SameOtherwise
<1>8. ASSUME x = TRUE PROVE LoggedNet(r) = n
  <2>1. [f EXCEPT ![x] = n][TRUE] = n
    BY <1>8
  <2> QED
    BY <1>2, <1>6, <2>1, Zenon DEF LoggedNet
<1>9. ASSUME x = FALSE PROVE LoggedNet(r) = LoggedNet(m)
  <2>1. [f EXCEPT ![x] = n][TRUE] = f[TRUE]
    BY <1>9
  <2> QED
    BY <1>1, <1>2, <1>6, <2>1, Zenon DEF LoggedNet
<1> QED
  BY <1>5, <1>6, <1>7, <1>8, <1>9

(* A message, x if it is logged, enters at once or is delayed.             *)
PassedOn(m, x, atOnce) == IF atOnce
                          THEN EnteredAtOnce([m EXCEPT !.network[x] = @ + 1])
                          ELSE [m EXCEPT !.limiter = Append(@, x)]

(* It is ahead then, once, or in the network.                              *)
LEMMA PassingOn ==
  ASSUME NEW m \in Terms, NEW x \in BOOLEAN, NEW atOnce \in BOOLEAN,
         m.sendEvents = 0, m.limiter = <<>>
  PROVE  LET r == PassedOn(m, x, atOnce)
         IN /\ r \in Terms /\ SameOtherwise(r, m) /\ r.remaining = m.remaining
            /\ Ahead(r) <= 1 /\ (r.enableSending => Ahead(r) = 1)
            /\ x = TRUE => LoggedAhead(r) = LoggedNet(m) + 1
            /\ x = FALSE => LoggedAhead(r) = LoggedNet(m)
<1>0. LoggedNet(m) \in Nat
  BY LoggedNetIsField
<1>1. CASE atOnce
  <2>1. PICK n \in Nat : n = m.network[x]
    BY DEF Terms
  <2>2. PICK e : e = [m EXCEPT !.network[x] = n + 1]
    OBVIOUS
  <2>3. PICK k \in Nat : k = n + 1
    OBVIOUS
  <2>4. /\ e \in Terms /\ SameOtherwise(e, m)
        /\ x = TRUE => LoggedNet(e) = k
        /\ x = FALSE => LoggedNet(e) = LoggedNet(m)
        /\ e.sendEvents = 0 /\ e.limiter = <<>> /\ e.remaining = m.remaining
    <3>1. e = [m EXCEPT !.network[x] = k]
      BY <2>2, <2>3
    <3> QED
      BY <3>1, NetworkChanges
  <2>5. PICK r : r = IF e.enableSending THEN [e EXCEPT !.sendEvents = 1] ELSE e
    OBVIOUS
  <2>6. r = PassedOn(m, x, atOnce)
    <3>1. e = [m EXCEPT !.network[x] = @ + 1]
      BY <2>1, <2>2
    <3>2. PassedOn(m, x, atOnce) = IF e.enableSending THEN [e EXCEPT !.sendEvents = @ + 1] ELSE e
      BY <1>1, <3>1 DEF PassedOn, EnteredAtOnce
    <3>3. [e EXCEPT !.sendEvents = @ + 1] = [e EXCEPT !.sendEvents = 1]
      BY <2>4 DEF Terms
    <3> QED
      BY <2>5, <3>2, <3>3
  <2>7. /\ r \in Terms /\ SameOtherwise(r, e)
        /\ r.limiter = <<>> /\ r.network = e.network /\ r.remaining = m.remaining
        /\ r.sendEvents = IF e.enableSending THEN 1 ELSE 0
    <3>1. CASE e.enableSending
      <4>1. r = [e EXCEPT !.sendEvents = 1]
        BY <2>5, <3>1
      <4>2. r \in Terms /\ r.limiter = <<>> /\ r.network = e.network /\ r.remaining = m.remaining
        BY <2>4, <4>1 DEF Terms
      <4>3. SameOtherwise(r, e) /\ r.sendEvents = 1
        BY <2>4, <4>1 DEF Terms, SameOtherwise
      <4> QED
        BY <3>1, <4>2, <4>3
    <3>2. CASE ~e.enableSending
      BY <2>4, <2>5, <3>2 DEF SameOtherwise
    <3> QED
      BY <3>1, <3>2
  <2>8. SameOtherwise(r, m)
    BY <2>4, <2>7 DEF SameOtherwise
  <2>9. Ahead(r) <= 1 /\ (r.enableSending => Ahead(r) = 1)
    BY <2>7 DEF Ahead, SameOtherwise
  <2>10. LoggedAhead(r) = LoggedNet(e)
    <3>1. LoggedNet(e) \in Nat /\ LoggedNet(r) = LoggedNet(e)
      BY <2>4, <2>7, LoggedNetIsField
    <3>2. LoggedInLimiter(r.limiter) = 0
      BY <2>7, ShortLimiter
    <3> QED
      BY <3>1, <3>2 DEF LoggedAhead
  <2>11. x = TRUE => LoggedNet(m) = n
    BY <2>1, Zenon DEF LoggedNet
  <2> QED
    BY <2>3, <2>4, <2>6, <2>7, <2>8, <2>9, <2>10, <2>11
<1>2. CASE ~atOnce
  <2>1. Append(m.limiter, x) = <<x>> /\ <<x>> \in Seq(BOOLEAN)
    OBVIOUS
  <2>2. PICK r : r = [m EXCEPT !.limiter = <<x>>]
    OBVIOUS
  <2>3. r = PassedOn(m, x, atOnce)
    BY <1>2, <2>1, <2>2 DEF PassedOn
  <2>4. /\ r \in Terms /\ SameOtherwise(r, m)
        /\ r.sendEvents = 0 /\ r.limiter = <<x>>
        /\ r.network = m.network /\ r.remaining = m.remaining
    BY <2>1, <2>2 DEF Terms, SameOtherwise
  <2>5. Ahead(r) = 1 /\ Ahead(r) <= 1
    BY <2>4 DEF Ahead
  <2>6. LoggedNet(r) = LoggedNet(m)
    BY <2>4, LoggedNetIsField
  <2>7. ASSUME x = TRUE PROVE LoggedAhead(r) = LoggedNet(m) + 1
    <3>1. LoggedInLimiter(r.limiter) = 1
      BY <2>4, <2>7, ShortLimiter
    <3> QED
      BY <1>0, <2>6, <3>1 DEF LoggedAhead
  <2>8. ASSUME x = FALSE PROVE LoggedAhead(r) = LoggedNet(m)
    <3>1. LoggedInLimiter(r.limiter) = 0
      BY <2>4, <2>8, ShortLimiter
    <3> QED
      BY <1>0, <2>6, <3>1 DEF LoggedAhead
  <2> QED
    BY <2>3, <2>4, <2>5, <2>7, <2>8
<1> QED
  BY <1>1, <1>2

(* sendNextMessage() on a terminal with nothing ahead.                     *)
LEMMA SendNextKeeps ==
  ASSUME NEW m \in Terms, NEW atOnce \in BOOLEAN,
         m.sendEvents = 0, m.limiter = <<>>,
         m.remaining + LoggedNet(m) + m.loggedOut = NumMessages,
         ~m.enableLogging => m.remaining = NumMessages
  PROVE  /\ SendNext(m, atOnce) \in Terms
         /\ OneTerminal(SendNext(m, atOnce))
         /\ SameOtherwise(SendNext(m, atOnce), m)
<1>0. NumMessages \in Nat /\ m.remaining \in 0..NumMessages /\ m.loggedOut \in 0..NumMessages
      /\ LoggedNet(m) \in Nat /\ m.enableLogging \in BOOLEAN
  BY StressSettings, LoggedNetIsField DEF Settings, Terms
<1>1. CASE m.enableLogging /\ m.remaining > 0
  <2>1. m.remaining - 1 \in 0..NumMessages
    BY <1>0, <1>1
  <2>2. PICK g : g = [m EXCEPT !.remaining = @ - 1]
    OBVIOUS
  <2>3. /\ g \in Terms /\ SameOtherwise(g, m) /\ g.remaining = m.remaining - 1
        /\ g.sendEvents = 0 /\ g.limiter = <<>> /\ g.network = m.network
    BY <2>1, <2>2 DEF Terms, SameOtherwise
  <2>4. PICK r : r = PassedOn(g, TRUE, atOnce)
    OBVIOUS
  <2>5. r = SendNext(m, atOnce)
    <3> DEFINE logged == m.enableLogging /\ m.remaining > 0
               tagged == IF logged THEN [m EXCEPT !.remaining = @ - 1] ELSE m
    <3>1. logged = TRUE /\ tagged = g
      BY <1>1, <2>2
    <3>2. SendNext(m, atOnce) = PassedOn(tagged, logged, atOnce)
      BY DEF SendNext, PassedOn
    <3> HIDE DEF logged, tagged
    <3> QED
      BY <2>4, <3>1, <3>2
  <2>6. /\ r \in Terms /\ SameOtherwise(r, g) /\ r.remaining = g.remaining
        /\ Ahead(r) <= 1 /\ (r.enableSending => Ahead(r) = 1)
        /\ LoggedAhead(r) = LoggedNet(g) + 1
    BY <2>3, <2>4, PassingOn
  <2>7. SameOtherwise(r, m)
    BY <2>3, <2>6 DEF SameOtherwise
  <2>8. r.remaining + LoggedAhead(r) + r.loggedOut = NumMessages
    <3>1. LoggedNet(g) = LoggedNet(m)
      BY <2>3, LoggedNetIsField
    <3>2. r.loggedOut = m.loggedOut
      BY <2>7 DEF SameOtherwise
    <3> QED
      BY <1>0, <2>1, <2>3, <2>6, <3>1, <3>2
  <2>9. r.enableLogging
    BY <1>1, <2>7 DEF SameOtherwise
  <2>10. OneTerminal(r)
    BY <2>6, <2>8, <2>9 DEF OneTerminal
  <2> QED
    BY <2>5, <2>6, <2>7, <2>10
<1>2. CASE ~(m.enableLogging /\ m.remaining > 0)
  <2>1. PICK r : r = PassedOn(m, FALSE, atOnce)
    OBVIOUS
  <2>2. r = SendNext(m, atOnce)
    <3>1. (m.enableLogging /\ m.remaining > 0) = FALSE
      BY <1>2
    <3> QED
      BY <1>2, <2>1, <3>1 DEF SendNext, PassedOn
  <2>3. /\ r \in Terms /\ SameOtherwise(r, m) /\ r.remaining = m.remaining
        /\ Ahead(r) <= 1 /\ (r.enableSending => Ahead(r) = 1)
        /\ LoggedAhead(r) = LoggedNet(m)
    BY <2>1, PassingOn
  <2>4. r.remaining + LoggedAhead(r) + r.loggedOut = NumMessages
    BY <1>0, <2>3 DEF SameOtherwise
  <2>5. ~r.enableLogging => r.remaining = NumMessages
    BY <2>3 DEF SameOtherwise
  <2>6. OneTerminal(r)
    BY <2>3, <2>4, <2>5 DEF OneTerminal
  <2> QED
    BY <2>2, <2>3, <2>6
<1> QED
  BY <1>1, <1>2

-----------------------------------------------------------------------------
(* All terminals and the application.                                      *)

Enabled(ts) == {t \in Terminals : ts[t].warmupEnable}
Done(ts) == {t \in Terminals : NumMessages > 0 /\ ts[t].loggedOut = NumMessages}

(* PhasesAgree, of any application and terminals.                          *)
Phases(a, ts) ==
  /\ a.warmupComplete /\ ~a.killed => \A t \in Terminals : ~ts[t].warmupEnable
  /\ \A t \in Terminals :
       /\ ts[t].enableLogging = (a.monitoring # "no")
       /\ ts[t].enableLogging => a.warmupComplete
       /\ ~ts[t].enableSending =>
            a.warmupComplete /\ (ts[t].enableLogging => a.monitoring = "ended")
  /\ a.monitoring = "ended" => \A t \in Terminals : ts[t].loggedOut = NumMessages

(* The counters: who may still report is not counted yet.                  *)
Counts(a, ts) == /\ a.warmed + a.saturated + Cardinality(Enabled(ts)) <= N
                 /\ a.completed = Cardinality(Done(ts))

Agreed(a, ts) == /\ a \in Apps /\ ts \in [Terminals -> Terms]
                 /\ Phases(a, ts) /\ Counts(a, ts)

IInv == Agreed(app, term) /\ \A t \in Terminals : OneTerminal(term[t])

(* All counters are numbers.                                               *)
LEMMA Numbers ==
  /\ N \in Nat /\ NumMessages \in Nat
  /\ \A S \in SUBSET Terminals : IsFiniteSet(S) /\ Cardinality(S) \in Nat /\ Cardinality(S) <= N
  /\ \A S \in SUBSET Terminals : Cardinality(S) = N => S = Terminals
<1>1. N \in Nat /\ NumMessages \in Nat
  BY TerminalsAssumption, StressSettings, FS_CardinalityType DEF N, Settings
<1>2. ASSUME NEW S \in SUBSET Terminals
      PROVE  /\ IsFiniteSet(S) /\ Cardinality(S) \in Nat /\ Cardinality(S) <= N
             /\ Cardinality(S) = N => S = Terminals
  <2>1. IsFiniteSet(S) /\ Cardinality(S) <= Cardinality(Terminals)
        /\ (Cardinality(S) = Cardinality(Terminals) => S = Terminals)
    BY TerminalsAssumption, FS_Subset
  <2> QED
    BY <2>1, FS_CardinalityType DEF N
<1> QED
  BY <1>1, <1>2

(* A terminal that reports is one less that may.                           *)
LEMMA OneLess ==
  ASSUME NEW S \in SUBSET Terminals, NEW t \in S, NEW T, T \subseteq S \ {t}
  PROVE  Cardinality(T) <= Cardinality(S) - 1
<1>1. IsFiniteSet(S) /\ IsFiniteSet(S \ {t}) /\ Cardinality(S) \in Nat
  BY Numbers
<1>2. Cardinality(S \ {t}) = Cardinality(S) - 1
  BY <1>1, FS_RemoveElement
<1>3. Cardinality(T) <= Cardinality(S \ {t})
  BY <1>1, FS_Subset
<1> QED
  BY <1>2, <1>3

(* What a detector's report may change of a terminal.                      *)
SameMessages(r, m) ==
  /\ r.sendEvents = m.sendEvents /\ r.limiter = m.limiter /\ r.network = m.network
  /\ r.remaining = m.remaining /\ r.loggedOut = m.loggedOut
  /\ m.enableLogging => r.enableLogging
  /\ r.enableSending => m.enableSending

(* A terminal whose messages are the same counts them the same.            *)
LEMMA SameMessagesKeep ==
  ASSUME NEW r, NEW m, SameMessages(r, m), OneTerminal(m)
  PROVE  OneTerminal(r)
<1>1. LoggedAhead(r) = LoggedAhead(m)
  BY LoggedNetIsField DEF SameMessages, LoggedAhead
<1> QED
  BY <1>1 DEF SameMessages, OneTerminal, Ahead

(* What the handlers do to terminals has its type.                         *)
LEMMA DetectorTypes ==
  ASSUME NEW m \in Terms
  PROVE  /\ DetectorOff(m) \in Terms /\ SameMessages(DetectorOff(m), m)
         /\ ~DetectorOff(m).warmupEnable
         /\ DetectorOff(m).enableLogging = m.enableLogging
         /\ DetectorOff(m).enableSending = m.enableSending
<1>1. PICK r : r = [m EXCEPT !.warmupEnable = FALSE, !.samples = 0]
  OBVIOUS
<1>2. r \in Terms
  BY <1>1 DEF Terms
<1>3. /\ SameMessages(r, m) /\ ~r.warmupEnable
      /\ r.enableLogging = m.enableLogging /\ r.enableSending = m.enableSending
  BY <1>1 DEF Terms, SameMessages
<1> QED
  BY <1>1, <1>2, <1>3 DEF DetectorOff

(* Starting to log keeps the types of a terminal.                          *)
LEMMA StartLoggingTypes ==
  ASSUME NEW ts \in [Terminals -> Terms]
  PROVE  /\ StartLogging(ts) \in [Terminals -> Terms]
         /\ \A u \in Terminals :
              /\ SameMessages(StartLogging(ts)[u], ts[u])
              /\ ~StartLogging(ts)[u].warmupEnable /\ StartLogging(ts)[u].enableLogging = TRUE
              /\ StartLogging(ts)[u].enableSending = ts[u].enableSending
<1>1. ASSUME NEW m \in Terms
      PROVE  LET r == [m EXCEPT !.enableLogging = TRUE, !.warmupEnable = FALSE]
             IN /\ r \in Terms /\ SameMessages(r, m) /\ ~r.warmupEnable
                /\ r.enableLogging = TRUE /\ r.enableSending = m.enableSending
  <2>1. PICK r : r = [m EXCEPT !.enableLogging = TRUE, !.warmupEnable = FALSE]
    OBVIOUS
  <2>2. r \in Terms
    BY <2>1 DEF Terms
  <2>3. /\ SameMessages(r, m) /\ ~r.warmupEnable
        /\ r.enableLogging = TRUE /\ r.enableSending = m.enableSending
    BY <2>1 DEF Terms, SameMessages
  <2> QED
    BY <2>1, <2>2, <2>3
<1> QED
  BY <1>1 DEF StartLogging

(* Stopping to send keeps the types of a terminal.                         *)
LEMMA StopSendingTypes ==
  ASSUME NEW ts \in [Terminals -> Terms]
  PROVE  /\ StopSending(ts) \in [Terminals -> Terms]
         /\ \A u \in Terminals :
              /\ SameMessages(StopSending(ts)[u], ts[u])
              /\ ~StopSending(ts)[u].warmupEnable /\ ~StopSending(ts)[u].enableSending
              /\ StopSending(ts)[u].enableLogging = ts[u].enableLogging
<1>1. ASSUME NEW m \in Terms
      PROVE  LET r == [DetectorOff(m) EXCEPT !.enableSending = FALSE]
             IN /\ r \in Terms /\ SameMessages(r, m) /\ ~r.warmupEnable
                /\ r.enableLogging = m.enableLogging /\ ~r.enableSending
  <2>1. PICK d \in Terms : /\ d = DetectorOff(m) /\ SameMessages(d, m)
                           /\ ~d.warmupEnable /\ d.enableLogging = m.enableLogging
    BY DetectorTypes
  <2>2. PICK r : r = [d EXCEPT !.enableSending = FALSE]
    OBVIOUS
  <2>3. r \in Terms
    BY <2>2 DEF Terms
  <2>4. /\ SameMessages(r, d) /\ ~r.warmupEnable
        /\ r.enableLogging = d.enableLogging /\ ~r.enableSending
    BY <2>1, <2>2 DEF Terms, SameMessages
  <2>5. SameMessages(r, m)
    BY <2>1, <2>4 DEF SameMessages
  <2> QED
    BY <2>1, <2>2, <2>3, <2>4, <2>5
<1> QED
  BY <1>1 DEF StopSending

(* What the application makes of a report of terminal t: it is counted,    *)
(* and the phase may change, in the application, now b, and in the         *)
(* terminals, now us.                                                      *)
Reported(a, ts, t, b, us) ==
  /\ b \in Apps /\ us \in [Terminals -> Terms]
  /\ \A u \in Terminals : /\ SameMessages(us[u], ts[u])
                          /\ us[u].warmupEnable => ts[u].warmupEnable
  /\ b.warmed + b.saturated = a.warmed + a.saturated + 1 /\ b.completed = a.completed
  /\ b.warmupComplete /\ ~b.killed => \A u \in Terminals \ {t} : ~us[u].warmupEnable
  /\ \A u \in Terminals :
       /\ us[u].enableLogging = (b.monitoring # "no")
       /\ us[u].enableLogging => b.warmupComplete
       /\ ~us[u].enableSending =>
            b.warmupComplete /\ (us[u].enableLogging => b.monitoring = "ended")
  /\ b.monitoring = "ended" => \A u \in Terminals : ts[u].loggedOut = NumMessages

(* Then the detector of t is switched off, and all agree again.            *)
LEMMA ReportKeeps ==
  ASSUME NEW a, NEW ts, Agreed(a, ts), NEW t \in Terminals, ts[t].warmupEnable,
         NEW b, NEW us, Reported(a, ts, t, b, us)
  PROVE  LET T == [us EXCEPT ![t] = DetectorOff(@)]
         IN /\ Agreed(b, T)
            /\ \A u \in Terminals : SameMessages(T[u], ts[u])
<1> USE DEF Reported
<1>1. PICK T : T = [us EXCEPT ![t] = DetectorOff(@)]
  OBVIOUS
<1>2. /\ DetectorOff(us[t]) \in Terms /\ SameMessages(DetectorOff(us[t]), us[t])
      /\ ~DetectorOff(us[t]).warmupEnable
      /\ DetectorOff(us[t]).enableLogging = us[t].enableLogging
      /\ DetectorOff(us[t]).enableSending = us[t].enableSending
  BY DetectorTypes
<1>3. /\ T \in [Terminals -> Terms]
      /\ \A u \in Terminals : T[u] = IF u = t THEN DetectorOff(us[t]) ELSE us[u]
  BY <1>1, <1>2
<1>4. \A u \in Terminals : SameMessages(T[u], ts[u])
  BY <1>2, <1>3 DEF SameMessages
<1>5. ~T[t].warmupEnable /\ \A u \in Terminals : T[u].warmupEnable => u # t /\ us[u].warmupEnable
  BY <1>2, <1>3
<1>6. \A u \in Terminals : /\ T[u].enableLogging = us[u].enableLogging
                           /\ T[u].enableSending = us[u].enableSending
  BY <1>2, <1>3
<1>7. Phases(b, T)
  <2>1. b.warmupComplete /\ ~b.killed => \A u \in Terminals : ~T[u].warmupEnable
    BY <1>5
  <2>2. \A u \in Terminals :
          /\ T[u].enableLogging = (b.monitoring # "no")
          /\ T[u].enableLogging => b.warmupComplete
          /\ ~T[u].enableSending =>
               b.warmupComplete /\ (T[u].enableLogging => b.monitoring = "ended")
    BY <1>6
  <2>3. b.monitoring = "ended" => \A u \in Terminals : T[u].loggedOut = NumMessages
    BY <1>4 DEF SameMessages
  <2> QED
    BY <2>1, <2>2, <2>3 DEF Phases
<1>8. Counts(b, T)
  <2>1. Enabled(ts) \in SUBSET Terminals /\ t \in Enabled(ts)
        /\ Enabled(T) \subseteq Enabled(ts) \ {t} /\ Enabled(T) \in SUBSET Terminals
    BY <1>5 DEF Enabled
  <2>2. Cardinality(Enabled(T)) <= Cardinality(Enabled(ts)) - 1
    BY <2>1, OneLess
  <2>3. /\ Cardinality(Enabled(T)) \in Nat /\ Cardinality(Enabled(ts)) \in Nat /\ N \in Nat
    BY <2>1, Numbers
  <2>4. a.warmed \in Nat /\ a.saturated \in Nat /\ b.warmed \in Nat /\ b.saturated \in Nat
    BY <2>3 DEF Agreed, Apps
  <2>5. b.warmed + b.saturated + Cardinality(Enabled(T)) <= N
    BY <2>2, <2>3, <2>4 DEF Agreed, Counts
  <2>6. Done(T) = Done(ts)
    BY <1>4 DEF Done, SameMessages
  <2> QED
    BY <2>5, <2>6 DEF Counts, Agreed
<1> QED
  BY <1>1, <1>3, <1>4, <1>7, <1>8 DEF Agreed

(* The counters have room for a report.                                    *)
LEMMA RoomForReport ==
  ASSUME NEW a, NEW ts, Agreed(a, ts), NEW t \in Terminals, ts[t].warmupEnable
  PROVE  a.warmed + 1 \in 0..N /\ a.saturated + 1 \in 0..N
<1>1. Enabled(ts) \in SUBSET Terminals /\ t \in Enabled(ts) /\ {} \subseteq Enabled(ts) \ {t}
  BY DEF Enabled
<1>2. Cardinality({}) <= Cardinality(Enabled(ts)) - 1 /\ Cardinality({}) = 0
  BY <1>1, OneLess, FS_EmptySet
<1>3. Cardinality(Enabled(ts)) \in Nat /\ N \in Nat
  BY <1>1, Numbers
<1>4. a.warmed \in Nat /\ a.saturated \in Nat
  BY <1>3 DEF Agreed, Apps
<1>5. Cardinality(Enabled(ts)) >= 1
  BY <1>2, <1>3
<1> QED
  BY <1>3, <1>4, <1>5 DEF Agreed, Counts

(* Where a report leaves the application and the terminals.                *)
LEMMA AfterReport ==
  ASSUME NEW b, NEW us, NEW t, NEW x, x = [app |-> b, term |-> us]
  PROVE  LET d == [x EXCEPT !.term[t] = DetectorOff(@)]
         IN d = [app |-> b, term |-> [us EXCEPT ![t] = DetectorOff(@)]]
OBVIOUS

(* A sample leaves everybody in agreement.                                 *)
LEMMA DetectKeeps ==
  ASSUME NEW a, NEW ts, Agreed(a, ts), ~a.killed, NEW t \in Terminals,
         NEW v \in {"none", "warmed", "saturated"}
  PROVE  LET r == Detect([app |-> a, term |-> ts], t, v)
         IN /\ r = [app |-> r.app, term |-> r.term]
            /\ Agreed(r.app, r.term)
            /\ \A u \in Terminals : SameMessages(r.term[u], ts[u])
            /\ r.app.killed => ts[t].warmupEnable /\ ~a.warmupComplete
<1> DEFINE s == [app |-> a, term |-> ts]
<1>0. /\ a \in Apps /\ ts \in [Terminals -> Terms] /\ Phases(a, ts)
      /\ \A u \in Terminals : SameMessages(ts[u], ts[u])
  BY DEF Agreed, SameMessages
<1>1. CASE ~ts[t].warmupEnable
  <2>1. Detect(s, t, v) = s
    BY <1>1 DEF Detect
  <2> QED
    BY <1>0, <2>1
<1>2. CASE ts[t].warmupEnable /\ v = "none"
  <2>1. PICK m : m = [ts[t] EXCEPT !.samples = @ + 1]
    OBVIOUS
  <2>2. ts[t] \in Terms
    BY <1>0
  <2>3. /\ m \in Terms /\ SameMessages(m, ts[t]) /\ m.warmupEnable = ts[t].warmupEnable
        /\ m.enableLogging = ts[t].enableLogging /\ m.enableSending = ts[t].enableSending
    <3>1. m \in Terms
      <4>1. ts[t].samples + 1 \in Nat
        BY <2>2 DEF Terms
      <4> QED
        BY <2>1, <2>2, <4>1 DEF Terms
    <3>2. /\ SameMessages(m, ts[t]) /\ m.warmupEnable = ts[t].warmupEnable
          /\ m.enableLogging = ts[t].enableLogging /\ m.enableSending = ts[t].enableSending
      BY <2>1, <2>2 DEF Terms, SameMessages
    <3> QED
      BY <3>1, <3>2
  <2>4. PICK us : us = [ts EXCEPT ![t] = m]
    OBVIOUS
  <2>5. /\ us \in [Terminals -> Terms]
        /\ \A u \in Terminals : us[u] = IF u = t THEN m ELSE ts[u]
    BY <1>0, <2>3, <2>4
  <2>6. Detect(s, t, v) = [app |-> a, term |-> us]
    <3>1. Detect(s, t, v) = [s EXCEPT !.term[t].samples = @ + 1]
      BY <1>2 DEF Detect
    <3> QED
      BY <1>0, <2>1, <2>4, <3>1
  <2>7. \A u \in Terminals :
          /\ SameMessages(us[u], ts[u]) /\ us[u].warmupEnable = ts[u].warmupEnable
          /\ us[u].enableLogging = ts[u].enableLogging
          /\ us[u].enableSending = ts[u].enableSending /\ us[u].loggedOut = ts[u].loggedOut
    BY <1>0, <2>3, <2>5 DEF SameMessages
  <2>8. Phases(a, us)
    BY <1>0, <2>7 DEF Phases
  <2>9. Counts(a, us)
    <3>1. Enabled(us) = Enabled(ts) /\ Done(us) = Done(ts)
      BY <2>7 DEF Enabled, Done
    <3> QED
      BY <3>1 DEF Agreed, Counts
  <2> QED
    BY <1>0, <2>5, <2>6, <2>7, <2>8, <2>9 DEF Agreed
<1>3. CASE ts[t].warmupEnable /\ v # "none"
  <2>0. ~a.warmupComplete /\ a.monitoring = "no"
    BY <1>0, <1>3 DEF Phases, Apps
  <2>1. a.warmed + 1 \in 0..N /\ a.saturated + 1 \in 0..N
    BY <1>3, RoomForReport
  <2>2. \A u \in Terminals : ts[u].enableLogging = FALSE /\ ts[u].enableSending = TRUE
    BY <1>0, <2>0 DEF Phases, Terms
  <2>3. N \in Nat
    BY Numbers
  <2>4. CASE v = "warmed"
    <3>1. PICK b0 : b0 = [a EXCEPT !.warmed = @ + 1]
      OBVIOUS
    <3>2. /\ b0 \in Apps /\ b0.warmed = a.warmed + 1 /\ b0.saturated = a.saturated
          /\ b0.completed = a.completed /\ b0.warmupComplete = FALSE
          /\ b0.monitoring = "no" /\ b0.killed = FALSE
      BY <1>0, <2>0, <2>1, <3>1 DEF Apps
    <3>3. CASE EnoughWarmed(b0.warmed)
      <4>1. PICK b : b = [b0 EXCEPT !.warmupComplete = TRUE, !.monitoring = "on"]
        OBVIOUS
      <4>2. /\ b \in Apps /\ b.warmed = a.warmed + 1 /\ b.saturated = a.saturated
            /\ b.completed = a.completed /\ b.warmupComplete = TRUE
            /\ b.monitoring = "on" /\ b.killed = FALSE
        BY <3>2, <4>1 DEF Apps
      <4>3. PICK us : us = StartLogging(ts)
        OBVIOUS
      <4>4. /\ us \in [Terminals -> Terms]
            /\ \A u \in Terminals :
                 /\ SameMessages(us[u], ts[u]) /\ ~us[u].warmupEnable
                 /\ us[u].enableLogging = TRUE /\ us[u].enableSending = TRUE
        BY <1>0, <2>2, <4>3, StartLoggingTypes
      <4>5. PICK d : d = Detect(s, t, v)
        OBVIOUS
      <4>6. PICK T : T = [us EXCEPT ![t] = DetectorOff(@)]
        OBVIOUS
      <4>7. d = [app |-> b, term |-> T]
        <5>1. PICK x : x = TerminalWarmed(s)
          OBVIOUS
        <5>2. x = [app |-> b, term |-> us]
          BY <5>1, <3>1, <3>3, <4>1, <4>3 DEF TerminalWarmed
        <5>3. d = [x EXCEPT !.term[t] = DetectorOff(@)]
          BY <5>1, <1>3, <2>4, <4>5 DEF Detect
        <5> QED
          BY <4>6, <5>2, <5>3, AfterReport
      <4>8. b.warmed + b.saturated = a.warmed + a.saturated + 1
        BY <1>0, <2>3, <4>2 DEF Apps
      <4>9. Reported(a, ts, t, b, us)
        BY <2>0, <4>2, <4>4, <4>8 DEF Reported
      <4>10. Agreed(b, T) /\ \A u \in Terminals : SameMessages(T[u], ts[u])
        BY <1>3, <4>6, <4>9, ReportKeeps
      <4> QED
        BY <1>3, <2>0, <4>5, <4>7, <4>10
    <3>4. CASE ~EnoughWarmed(b0.warmed)
      <4>1. PICK d : d = Detect(s, t, v)
        OBVIOUS
      <4>2. PICK T : T = [ts EXCEPT ![t] = DetectorOff(@)]
        OBVIOUS
      <4>3. d = [app |-> b0, term |-> T]
        <5>1. PICK x : x = TerminalWarmed(s)
          OBVIOUS
        <5>2. x = [app |-> b0, term |-> ts]
          BY <5>1, <3>1, <3>4 DEF TerminalWarmed
        <5>3. d = [x EXCEPT !.term[t] = DetectorOff(@)]
          BY <5>1, <1>3, <2>4, <4>1 DEF Detect
        <5> QED
          BY <4>2, <5>2, <5>3, AfterReport
      <4>4. b0.warmed + b0.saturated = a.warmed + a.saturated + 1
        BY <1>0, <2>3, <3>2 DEF Apps
      <4>5. Reported(a, ts, t, b0, ts)
        BY <1>0, <1>3, <2>0, <2>2, <3>2, <4>4 DEF Reported
      <4>6. Agreed(b0, T) /\ \A u \in Terminals : SameMessages(T[u], ts[u])
        BY <1>3, <4>2, <4>5, ReportKeeps
      <4> QED
        BY <1>3, <2>0, <4>1, <4>3, <4>6
    <3> QED
      BY <3>3, <3>4
  <2>5. CASE v = "saturated"
    <3>1. PICK b0 : b0 = [a EXCEPT !.saturated = @ + 1]
      OBVIOUS
    <3>2. /\ b0 \in Apps /\ b0.warmed = a.warmed /\ b0.saturated = a.saturated + 1
          /\ b0.completed = a.completed /\ b0.warmupComplete = FALSE
          /\ b0.monitoring = "no" /\ b0.killed = FALSE /\ b0.killFast \in BOOLEAN
      BY <1>0, <2>0, <2>1, <3>1 DEF Apps
    <3>3. CASE TooManySaturated(b0)
      <4>1. PICK b : b = [b0 EXCEPT !.warmupComplete = TRUE, !.killed = b0.killFast]
        OBVIOUS
      <4>2. /\ b \in Apps /\ b.warmed = a.warmed /\ b.saturated = a.saturated + 1
            /\ b.completed = a.completed /\ b.warmupComplete = TRUE
            /\ b.monitoring = "no" /\ b.killed = b0.killFast
        BY <3>2, <4>1 DEF Apps
      <4>3. PICK us : us = IF b0.killFast THEN ts ELSE StopSending(ts)
        OBVIOUS
      <4>4. /\ us \in [Terminals -> Terms]
            /\ \A u \in Terminals :
                 /\ SameMessages(us[u], ts[u]) /\ us[u].enableLogging = FALSE
                 /\ us[u].warmupEnable => ts[u].warmupEnable
                 /\ ~b0.killFast => ~us[u].warmupEnable
        <5>1. CASE b0.killFast
          BY <1>0, <2>2, <4>3, <5>1
        <5>2. CASE ~b0.killFast
          BY <1>0, <2>2, <4>3, <5>2, StopSendingTypes
        <5> QED
          BY <5>1, <5>2
      <4>5. PICK d : d = Detect(s, t, v)
        OBVIOUS
      <4>6. PICK T : T = [us EXCEPT ![t] = DetectorOff(@)]
        OBVIOUS
      <4>7. d = [app |-> b, term |-> T]
        <5>1. PICK x : x = TerminalSaturated(s)
          OBVIOUS
        <5>2. x = [app |-> b, term |-> us]
          BY <5>1, <3>1, <3>3, <4>1, <4>3 DEF TerminalSaturated
        <5>3. d = [x EXCEPT !.term[t] = DetectorOff(@)]
          BY <5>1, <1>3, <2>5, <4>5 DEF Detect
        <5> QED
          BY <4>6, <5>2, <5>3, AfterReport
      <4>8. b.warmed + b.saturated = a.warmed + a.saturated + 1
        BY <1>0, <2>3, <4>2 DEF Apps
      <4>9. Reported(a, ts, t, b, us)
        BY <2>0, <4>2, <4>4, <4>8 DEF Reported
      <4>10. Agreed(b, T) /\ \A u \in Terminals : SameMessages(T[u], ts[u])
        BY <1>3, <4>6, <4>9, ReportKeeps
      <4> QED
        BY <1>3, <2>0, <4>5, <4>7, <4>10
    <3>4. CASE ~TooManySaturated(b0)
      <4>1. PICK d : d = Detect(s, t, v)
        OBVIOUS
      <4>2. PICK T : T = [ts EXCEPT ![t] = DetectorOff(@)]
        OBVIOUS
      <4>3. d = [app |-> b0, term |-> T]
        <5>1. PICK x : x = TerminalSaturated(s)
          OBVIOUS
        <5>2. x = [app |-> b0, term |-> ts]
          BY <5>1, <3>1, <3>4 DEF TerminalSaturated
        <5>3. d = [x EXCEPT !.term[t] = DetectorOff(@)]
          BY <5>1, <1>3, <2>5, <4>1 DEF Detect
        <5> QED
          BY <4>2, <5>2, <5>3, AfterReport
      <4>4. b0.warmed + b0.saturated = a.warmed + a.saturated + 1
        BY <1>0, <2>3, <3>2 DEF Apps
      <4>5. Reported(a, ts, t, b0, ts)
        BY <1>0, <1>3, <2>0, <2>2, <3>2, <4>4 DEF Reported
      <4>6. Agreed(b0, T) /\ \A u \in Terminals : SameMessages(T[u], ts[u])
        BY <1>3, <4>2, <4>5, ReportKeeps
      <4> QED
        BY <1>3, <2>0, <4>1, <4>3, <4>6
    <3> QED
      BY <3>3, <3>4
  <2> QED
    BY <1>3, <2>4, <2>5
<1> QED
  BY <1>1, <1>2, <1>3

(* A logged message of t is out: it is counted, and the last one of all    *)
(* ends the test.                                                          *)
LEMMA CountLoggedKeeps ==
  ASSUME NEW a, NEW ts, Agreed(a, ts), NEW t \in Terminals,
         ts[t].enableLogging, ts[t].loggedOut < NumMessages
  PROVE  LET r == CountLogged([app |-> a, term |-> ts], t, TRUE)
         IN /\ Agreed(r.app, r.term)
            /\ \A u \in Terminals \ {t} : SameMessages(r.term[u], ts[u])
            /\ SameMessages(r.term[t], [ts[t] EXCEPT !.loggedOut = @ + 1])
<1>0. /\ a \in Apps /\ ts \in [Terminals -> Terms] /\ Phases(a, ts) /\ Counts(a, ts)
      /\ ts[t] \in Terms /\ NumMessages \in Nat /\ N \in Nat
  BY Numbers DEF Agreed
<1>1. a.monitoring = "on" /\ a.warmupComplete /\ \A u \in Terminals : ts[u].enableLogging
  <2>1. a.monitoring # "ended"
    BY <1>0 DEF Phases
  <2>2. a.monitoring # "no" /\ a.warmupComplete
    <3>1. ts[t].enableLogging = (a.monitoring # "no") /\ (ts[t].enableLogging => a.warmupComplete)
      BY <1>0 DEF Phases
    <3> QED
      BY <3>1
  <2>3. \A u \in Terminals : ts[u].enableLogging
    BY <1>0, <2>2 DEF Phases
  <2> QED
    BY <1>0, <2>1, <2>2, <2>3 DEF Apps
<1>2. PICK k : k = ts[t].loggedOut + 1
  OBVIOUS
<1>3. k \in 0..NumMessages /\ NumMessages > 0
  BY <1>0, <1>2 DEF Terms
<1>4. PICK m : m = [ts[t] EXCEPT !.loggedOut = k]
  OBVIOUS
<1>5. /\ m \in Terms /\ m.loggedOut = k /\ m.warmupEnable = ts[t].warmupEnable
      /\ m.enableLogging = ts[t].enableLogging /\ m.enableSending = ts[t].enableSending
  BY <1>0, <1>3, <1>4 DEF Terms
<1>6. PICK us : us = [ts EXCEPT ![t] = m]
  OBVIOUS
<1>7. /\ us \in [Terminals -> Terms]
      /\ \A u \in Terminals : us[u] = IF u = t THEN m ELSE ts[u]
  BY <1>0, <1>5, <1>6
<1>8. \A u \in Terminals :
        /\ us[u].warmupEnable = ts[u].warmupEnable /\ us[u].enableLogging = ts[u].enableLogging
        /\ us[u].enableSending = ts[u].enableSending
  BY <1>5, <1>7
<1>9. \A u \in Terminals \ {t} : SameMessages(us[u], ts[u])
  BY <1>7 DEF SameMessages
<1>10. m = [ts[t] EXCEPT !.loggedOut = @ + 1] /\ SameMessages(us[t], m)
  BY <1>2, <1>4, <1>7 DEF SameMessages
<1>11. Enabled(us) = Enabled(ts)
  BY <1>8 DEF Enabled
<1>12. PICK r : r = CountLogged([app |-> a, term |-> ts], t, TRUE)
  OBVIOUS
<1>13. PICK x : x = [app |-> a, term |-> us]
  OBVIOUS
<1>14. r = IF k = NumMessages THEN TerminalComplete(x) ELSE x
  <2>1. x = [[app |-> a, term |-> ts] EXCEPT !.term[t].loggedOut = @ + 1]
    BY <1>0, <1>2, <1>4, <1>6, <1>13
  <2>2. x.term[t].loggedOut = k
    BY <1>5, <1>7, <1>13
  <2> QED
    BY <1>12, <2>1, <2>2 DEF CountLogged
<1>15. CASE k # NumMessages
  <2>1. r.app = a /\ r.term = us
    BY <1>13, <1>14, <1>15
  <2>2. Done(us) = Done(ts)
    BY <1>0, <1>5, <1>7, <1>15 DEF Done
  <2>3. Phases(a, us)
    BY <1>0, <1>1, <1>8 DEF Phases
  <2>4. Agreed(a, us)
    BY <1>0, <1>7, <1>11, <2>2, <2>3 DEF Agreed, Counts
  <2> QED
    BY <1>9, <1>10, <1>12, <2>1, <2>4
<1>16. CASE k = NumMessages
  <2>1. Done(us) = Done(ts) \cup {t} /\ t \notin Done(ts)
    BY <1>3, <1>5, <1>7, <1>16 DEF Done
  <2>2. /\ Done(us) \in SUBSET Terminals /\ Done(ts) \in SUBSET Terminals
        /\ \A T : Done(T) \in SUBSET Terminals
    BY DEF Done
  <2>3. Cardinality(Done(us)) = a.completed + 1
    <3>1. IsFiniteSet(Done(ts)) /\ Cardinality(Done(ts)) = a.completed
      BY <1>0, <2>2, Numbers DEF Counts
    <3> QED
      BY <2>1, <3>1, FS_AddElement
  <2>4. a.completed + 1 \in 0..N
    BY <1>0, <2>2, <2>3, Numbers
  <2>5. PICK b0 : b0 = [a EXCEPT !.completed = @ + 1]
    OBVIOUS
  <2>6. /\ b0 \in Apps /\ b0.completed = a.completed + 1 /\ b0.warmed = a.warmed
        /\ b0.saturated = a.saturated /\ b0.warmupComplete = a.warmupComplete
        /\ b0.killed = a.killed /\ b0.monitoring = a.monitoring
    BY <1>0, <2>4, <2>5 DEF Apps
  <2>7. CASE b0.completed # N
    <3>1. r.app = b0 /\ r.term = us
      BY <1>13, <1>14, <1>16, <2>5, <2>7 DEF TerminalComplete
    <3>2. Phases(b0, us)
      BY <1>0, <1>1, <1>8, <2>6 DEF Phases
    <3>3. Counts(b0, us)
      BY <1>0, <1>11, <2>3, <2>6 DEF Counts
    <3>4. Agreed(b0, us)
      BY <1>7, <2>6, <3>2, <3>3 DEF Agreed
    <3> QED
      BY <1>9, <1>10, <1>12, <3>1, <3>4
  <2>8. CASE b0.completed = N
    <3>1. PICK b : b = [b0 EXCEPT !.monitoring = "ended"]
      OBVIOUS
    <3>2. /\ b \in Apps /\ b.completed = a.completed + 1 /\ b.warmed = a.warmed
          /\ b.saturated = a.saturated /\ b.warmupComplete = TRUE
          /\ b.killed = a.killed /\ b.monitoring = "ended"
      BY <1>1, <2>6, <3>1 DEF Apps
    <3>3. PICK T : T = StopSending(us)
      OBVIOUS
    <3>4. /\ T \in [Terminals -> Terms]
          /\ \A u \in Terminals :
               /\ SameMessages(T[u], us[u]) /\ ~T[u].warmupEnable
               /\ T[u].enableLogging = us[u].enableLogging
      BY <1>7, <3>3, StopSendingTypes
    <3>5. r.app = b /\ r.term = T
      BY <1>13, <1>14, <1>16, <2>5, <2>8, <3>1, <3>3 DEF TerminalComplete
    <3>6. Done(T) = Done(us)
      BY <3>4 DEF Done, SameMessages
    <3>7. Done(us) = Terminals
      BY <2>2, <2>3, <2>6, <2>8, Numbers
    <3>8. Phases(b, T)
      <4>1. \A u \in Terminals : T[u].loggedOut = NumMessages
        BY <3>6, <3>7 DEF Done
      <4>2. \A u \in Terminals : T[u].enableLogging = TRUE
        <5>1. \A u \in Terminals : ts[u].enableLogging = TRUE
          BY <1>0, <1>1 DEF Terms
        <5> QED
          BY <1>8, <3>4, <5>1
      <4> QED
        BY <3>2, <3>4, <4>1, <4>2 DEF Phases
    <3>9. Counts(b, T)
      <4>1. Enabled(T) = {}
        BY <3>4 DEF Enabled
      <4>2. Enabled(us) \in SUBSET Terminals
        BY DEF Enabled
      <4>3. Cardinality(Enabled(us)) \in Nat /\ Cardinality(Enabled(T)) = 0
        BY <4>1, <4>2, Numbers, FS_EmptySet
      <4>4. a.warmed + a.saturated + Cardinality(Enabled(us)) <= N
        BY <1>0, <1>11 DEF Counts
      <4>5. a.warmed \in Nat /\ a.saturated \in Nat
        BY <1>0 DEF Apps
      <4>6. b.warmed + b.saturated + Cardinality(Enabled(T)) <= N
        BY <1>0, <3>2, <4>3, <4>4, <4>5
      <4> QED
        BY <2>3, <3>2, <3>6, <4>6 DEF Counts
    <3>10. Agreed(b, T)
      BY <3>2, <3>4, <3>8, <3>9 DEF Agreed
    <3>11. /\ \A u \in Terminals \ {t} : SameMessages(T[u], ts[u])
           /\ SameMessages(T[t], m)
      BY <1>9, <1>10, <3>4 DEF SameMessages
    <3> QED
      BY <1>10, <1>12, <3>5, <3>10, <3>11
  <2> QED
    BY <2>7, <2>8
<1> QED
  BY <1>15, <1>16

-----------------------------------------------------------------------------
(* The invariant is inductive.                                             *)

(* The types in the form the proofs use; TLC checks it as part of IInv.    *)
LEMMA IInvTypes ==
  ASSUME IInv
  PROVE  /\ app \in Apps /\ term \in [Terminals -> Terms]
         /\ NumMessages \in Nat
         /\ \A t \in Terminals : term[t] \in Terms /\ OneTerminal(term[t])
BY Numbers DEF IInv, Agreed

(* The invariant holds at the start.                                       *)
LEMMA InitIInv == Init => IInv
<1> SUFFICES ASSUME Init PROVE IInv
  OBVIOUS
<1>0. NumMessages \in Nat /\ N \in Nat
  BY Numbers
<1>1. PICK f : f = [l \in BOOLEAN |-> 0]
  OBVIOUS
<1>2. f \in [BOOLEAN -> Nat] /\ f[TRUE] = 0
  BY <1>1
<1>3. PICK m : m = [sendEvents |-> 1, limiter |-> <<>>, network |-> f,
                    warmupEnable |-> TRUE, samples |-> 0, enableLogging |-> FALSE,
                    enableSending |-> TRUE, remaining |-> NumMessages, loggedOut |-> 0]
  OBVIOUS
<1>4. term = [t \in Terminals |-> m]
  BY <1>1, <1>3 DEF Init
<1>5. m \in Terms
  BY <1>0, <1>2, <1>3 DEF Terms
<1>6. term \in [Terminals -> Terms] /\ \A t \in Terminals : term[t] = m
  BY <1>4, <1>5
<1>7. /\ app \in Apps /\ app.warmed = 0 /\ app.saturated = 0 /\ app.completed = 0
      /\ app.warmupComplete = FALSE /\ app.monitoring = "no"
  BY <1>0 DEF Init, Apps
<1>8. OneTerminal(m)
  <2>1. LoggedNet(m) = 0
    BY <1>2, <1>3, Zenon DEF LoggedNet
  <2>2. LoggedInLimiter(m.limiter) = 0
    BY <1>3, ShortLimiter
  <2>3. LoggedAhead(m) = 0
    BY <2>1, <2>2 DEF LoggedAhead
  <2>4. Ahead(m) = 1
    BY <1>3 DEF Ahead
  <2> QED
    BY <1>0, <1>3, <2>3, <2>4 DEF OneTerminal
<1>9. Phases(app, term)
  <2>1. m.enableLogging = FALSE /\ m.enableSending = TRUE
    BY <1>3
  <2>2. (app.monitoring # "no") = FALSE /\ app.monitoring # "ended"
    BY <1>7
  <2>3. \A t \in Terminals : term[t].enableLogging = FALSE /\ term[t].enableSending = TRUE
    BY <1>6, <2>1
  <2> QED
    BY <1>7, <2>2, <2>3 DEF Phases
<1>10. Counts(app, term)
  <2>1. Enabled(term) = Terminals /\ Done(term) = {}
    BY <1>0, <1>3, <1>6 DEF Enabled, Done
  <2>2. Cardinality(Enabled(term)) = N /\ Cardinality(Done(term)) = 0
    BY <2>1, FS_EmptySet DEF N
  <2> QED
    BY <1>0, <1>7, <2>2 DEF Counts
<1> QED
  BY <1>6, <1>7, <1>8, <1>9, <1>10 DEF IInv, Agreed

(* Messages that move on change nothing that the phases depend on.         *)
LEMMA AgreedStill ==
  ASSUME NEW a, NEW ts, Agreed(a, ts), NEW t \in Terminals, NEW m \in Terms,
         SameOtherwise(m, ts[t]), NEW us, us = [ts EXCEPT ![t] = m]
  PROVE  /\ Agreed(a, us)
         /\ \A u \in Terminals : us[u] = IF u = t THEN m ELSE ts[u]
<1>1. /\ a \in Apps /\ ts \in [Terminals -> Terms] /\ us \in [Terminals -> Terms]
      /\ \A u \in Terminals : us[u] = IF u = t THEN m ELSE ts[u]
  BY DEF Agreed
<1>2. \A u \in Terminals :
        /\ us[u].warmupEnable = ts[u].warmupEnable
        /\ us[u].enableLogging = ts[u].enableLogging
        /\ us[u].enableSending = ts[u].enableSending
        /\ us[u].loggedOut = ts[u].loggedOut
  BY <1>1 DEF SameOtherwise
<1>3. Phases(a, us)
  BY <1>2 DEF Agreed, Phases
<1>4. Counts(a, us)
  <2>1. Enabled(us) = Enabled(ts) /\ Done(us) = Done(ts)
    BY <1>2 DEF Enabled, Done
  <2> QED
    BY <2>1 DEF Agreed, Counts
<1> QED
  BY <1>1, <1>3, <1>4 DEF Agreed

(* A terminal that sends.                                                  *)
LEMMA SenderKeeps ==
  ASSUME IInv, NEW t \in Terminals, NEW m \in Terms, OneTerminal(m),
         SameOtherwise(m, term[t]), term' = [term EXCEPT ![t] = m], UNCHANGED app
  PROVE  IInv'
<1>1. Agreed(app, term) /\ \A u \in Terminals : OneTerminal(term[u])
  BY DEF IInv
<1>2. PICK us : us = [term EXCEPT ![t] = m]
  OBVIOUS
<1>3. Agreed(app, us) /\ \A u \in Terminals : us[u] = IF u = t THEN m ELSE term[u]
  <2>1. SameOtherwise(m, term[t]) /\ m \in Terms /\ t \in Terminals
    OBVIOUS
  <2>2. Agreed(app, us)
    BY <1>1, <1>2, <2>1, AgreedStill
  <2>3. \A u \in Terminals : us[u] = IF u = t THEN m ELSE term[u]
    BY <1>1, <1>2, <2>1 DEF Agreed
  <2> QED
    BY <2>2, <2>3
<1>4. \A u \in Terminals : OneTerminal(us[u])
  BY <1>1, <1>3
<1>5. app' = app /\ term' = us
  BY <1>2
<1>6. Agreed(app', term') /\ \A u \in Terminals : OneTerminal(term'[u])
  BY <1>3, <1>4, <1>5
<1> QED
  BY <1>6 DEF IInv

(* Sending a message keeps the invariant.                                  *)
LEMMA SendEventKeeps ==
  ASSUME IInv, NEW t \in Terminals, SendEvent(t)
  PROVE  IInv'
<1>1. PICK atOnce \in BOOLEAN :
        term' = [term EXCEPT ![t] = SendNext([term[t] EXCEPT !.sendEvents = @ - 1], atOnce)]
  BY DEF SendEvent
<1>2. PICK m : m = term[t]
  OBVIOUS
<1>3. m \in Terms /\ OneTerminal(m) /\ m.sendEvents > 0 /\ NumMessages \in Nat
  BY <1>2, IInvTypes DEF SendEvent
<1>4. m.sendEvents = 1 /\ m.limiter = <<>>
  <2>1. m.sendEvents \in Nat /\ m.limiter \in Seq(BOOLEAN) /\ Len(m.limiter) \in Nat
    BY <1>3 DEF Terms
  <2>2. m.sendEvents = 1 /\ Len(m.limiter) = 0
    BY <1>3, <2>1 DEF OneTerminal, Ahead
  <2> QED
    BY <2>1, <2>2
<1>5. PICK g : g = [m EXCEPT !.sendEvents = 0]
  OBVIOUS
<1>6. /\ g \in Terms /\ SameOtherwise(g, m) /\ g.sendEvents = 0 /\ g.limiter = <<>>
      /\ g.network = m.network /\ g.remaining = m.remaining
  BY <1>3, <1>4, <1>5 DEF Terms, SameOtherwise
<1>7. g.remaining + LoggedNet(g) + g.loggedOut = NumMessages
  <2>1. LoggedNet(g) = LoggedNet(m) /\ LoggedNet(m) \in Nat
    BY <1>3, <1>6, LoggedNetIsField
  <2>2. LoggedAhead(m) = LoggedNet(m)
    BY <1>4, <2>1, ShortLimiter DEF LoggedAhead
  <2> QED
    BY <1>3, <1>6, <2>1, <2>2 DEF OneTerminal, SameOtherwise
<1>8. ~g.enableLogging => g.remaining = NumMessages
  BY <1>3, <1>6 DEF OneTerminal, SameOtherwise
<1>9. PICK r : r = SendNext(g, atOnce)
  OBVIOUS
<1>10. r \in Terms /\ OneTerminal(r) /\ SameOtherwise(r, g)
  BY <1>6, <1>7, <1>8, <1>9, SendNextKeeps
<1>11. term' = [term EXCEPT ![t] = r]
  <2>1. g = [term[t] EXCEPT !.sendEvents = @ - 1]
    BY <1>2, <1>4, <1>5
  <2>2. r = SendNext([term[t] EXCEPT !.sendEvents = @ - 1], atOnce)
    BY <1>9, <2>1
  <2> QED
    BY <1>1, <2>2
<1>12. SameOtherwise(r, term[t])
  BY <1>2, <1>6, <1>10 DEF SameOtherwise
<1>13. UNCHANGED app
  BY DEF SendEvent
<1> QED
  BY <1>10, <1>11, <1>12, <1>13, SenderKeeps

(* A message that leaves the limiter keeps the invariant.                  *)
LEMMA LimiterEventKeeps ==
  ASSUME IInv, NEW t \in Terminals, LimiterEvent(t)
  PROVE  IInv'
<1>1. PICK atOnce \in BOOLEAN :
        term' = [term EXCEPT ![t] =
                   Entered([term[t] EXCEPT !.limiter = Tail(@),
                                           !.network[Head(term[t].limiter)] = @ + 1], atOnce)]
  BY DEF LimiterEvent
<1>2. PICK m : m = term[t]
  OBVIOUS
<1>3. m \in Terms /\ OneTerminal(m) /\ m.limiter # <<>> /\ NumMessages \in Nat
  BY <1>2, IInvTypes DEF LimiterEvent
<1>4. m.sendEvents = 0 /\ m.limiter \in Seq(BOOLEAN) /\ Len(m.limiter) = 1
  <2>1. m.sendEvents \in Nat /\ m.limiter \in Seq(BOOLEAN) /\ Len(m.limiter) \in Nat
    BY <1>3 DEF Terms
  <2>2. Len(m.limiter) # 0
    BY <1>3, <2>1
  <2>3. m.sendEvents + Len(m.limiter) <= 1
    BY <1>3 DEF OneTerminal, Ahead
  <2>4. PICK i \in Nat, j \in Nat : i = m.sendEvents /\ j = Len(m.limiter)
    BY <2>1
  <2>5. i + j <= 1 /\ j # 0
    BY <2>2, <2>3, <2>4
  <2>6. i = 0 /\ j = 1
    BY <2>5
  <2> QED
    BY <2>1, <2>4, <2>6
<1>5. PICK x \in BOOLEAN : m.limiter = <<x>>
  BY <1>3, <1>4, LimiterCases
<1>6. Head(m.limiter) = x /\ Tail(m.limiter) = <<>>
  BY <1>5
<1>7. PICK e : e = [m EXCEPT !.limiter = <<>>]
  OBVIOUS
<1>8. /\ e \in Terms /\ SameOtherwise(e, m) /\ e.sendEvents = 0 /\ e.limiter = <<>>
      /\ e.network = m.network /\ e.remaining = m.remaining
  <2>1. <<>> \in Seq(BOOLEAN)
    OBVIOUS
  <2>2. e \in Terms
    BY <1>3, <1>7, <2>1 DEF Terms
  <2>3. /\ SameOtherwise(e, m) /\ e.limiter = <<>>
        /\ e.network = m.network /\ e.remaining = m.remaining
    BY <1>3, <1>7 DEF Terms, SameOtherwise
  <2>4. e.sendEvents = 0
    BY <1>3, <1>4, <1>7 DEF Terms
  <2> QED
    BY <2>2, <2>3, <2>4
<1>9. PICK n \in Nat : n = m.network[x]
  BY <1>3 DEF Terms
<1>10. PICK k \in Nat : k = n + 1
  OBVIOUS
<1>11. PICK g : g = [e EXCEPT !.network[x] = k]
  OBVIOUS
<1>12. /\ g \in Terms /\ SameOtherwise(g, e)
       /\ x = TRUE => LoggedNet(g) = k
       /\ x = FALSE => LoggedNet(g) = LoggedNet(e)
       /\ g.sendEvents = 0 /\ g.limiter = <<>> /\ g.remaining = m.remaining
  BY <1>8, <1>11, NetworkChanges
<1>13. g = [m EXCEPT !.limiter = Tail(@), !.network[Head(m.limiter)] = @ + 1]
  BY <1>6, <1>7, <1>8, <1>9, <1>10, <1>11
<1>14. SameOtherwise(g, m)
  BY <1>8, <1>12 DEF SameOtherwise
<1>15. LoggedNet(g) = LoggedAhead(m) /\ LoggedNet(g) \in Nat
  <2>1. LoggedNet(e) = LoggedNet(m) /\ LoggedNet(m) \in Nat
    BY <1>3, <1>8, LoggedNetIsField
  <2>2. CASE x = TRUE
    <3>1. LoggedInLimiter(m.limiter) = 1
      BY <1>5, <2>2, ShortLimiter
    <3>2. LoggedNet(m) = n
      BY <1>9, <2>2, Zenon DEF LoggedNet
    <3> QED
      BY <1>10, <1>12, <2>2, <3>1, <3>2 DEF LoggedAhead
  <2>3. CASE x = FALSE
    <3>1. LoggedInLimiter(m.limiter) = 0
      BY <1>5, <2>3, ShortLimiter
    <3> QED
      BY <1>12, <2>1, <2>3, <3>1 DEF LoggedAhead
  <2> QED
    BY <2>2, <2>3
<1>16. g.remaining + LoggedNet(g) + g.loggedOut = NumMessages
  BY <1>3, <1>12, <1>14, <1>15 DEF OneTerminal, SameOtherwise
<1>17. ~g.enableLogging => g.remaining = NumMessages
  BY <1>3, <1>12, <1>14 DEF OneTerminal, SameOtherwise
<1>18. PICK r : r = Entered(g, atOnce)
  OBVIOUS
<1>19. r \in Terms /\ OneTerminal(r) /\ SameOtherwise(r, g)
  <2>1. CASE g.enableSending
    <3>1. r = SendNext(g, atOnce)
      BY <1>18, <2>1 DEF Entered
    <3> QED
      BY <1>12, <1>16, <1>17, <3>1, SendNextKeeps
  <2>2. CASE ~g.enableSending
    <3>1. r = g
      BY <1>18, <2>2 DEF Entered
    <3>2. Ahead(g) = 0
      BY <1>12 DEF Ahead
    <3>3. LoggedAhead(g) = LoggedNet(g)
      BY <1>12, <1>15, ShortLimiter DEF LoggedAhead
    <3>4. OneTerminal(g)
      BY <1>16, <1>17, <2>2, <3>2, <3>3 DEF OneTerminal
    <3> QED
      BY <1>12, <3>1, <3>4 DEF SameOtherwise
  <2> QED
    BY <2>1, <2>2
<1>20. term' = [term EXCEPT ![t] = r]
  <2>1. r = Entered([term[t] EXCEPT !.limiter = Tail(@),
                                    !.network[Head(term[t].limiter)] = @ + 1], atOnce)
    BY <1>2, <1>13, <1>18
  <2> QED
    BY <1>1, <2>1
<1>21. SameOtherwise(r, term[t])
  BY <1>2, <1>14, <1>19 DEF SameOtherwise
<1>22. UNCHANGED app
  BY DEF LimiterEvent
<1> QED
  BY <1>19, <1>20, <1>21, <1>22, SenderKeeps

(* A verdict of the detector keeps the types, whatever it says.            *)
LEMMA VerdictTypes == \A m : Verdicts(m) \subseteq {"none", "warmed", "saturated"}
BY DEF Verdicts

(* A message that leaves the network keeps the invariant: verdict,         *)
(* broadcast and count.                                                    *)
LEMMA ExitKeeps ==
  ASSUME IInv, NEW t \in Terminals, NEW logged \in BOOLEAN, Exit(t, logged)
  PROVE  IInv'
<1>1. PICK v \in Verdicts(term[t]) :
        LET s0 == [app |-> app, term |-> [term EXCEPT ![t].network[logged] = @ - 1]]
            s1 == Detect(s0, t, v)
            s2 == IF s1.app.killed THEN s1 ELSE CountLogged(s1, t, logged)
        IN app' = s2.app /\ term' = s2.term
  BY DEF Exit
<1>2. v \in {"none", "warmed", "saturated"}
  BY <1>1, VerdictTypes
<1>3. PICK m : m = term[t]
  OBVIOUS
<1>4. /\ m \in Terms /\ OneTerminal(m) /\ NumMessages \in Nat /\ Agreed(app, term)
      /\ term \in [Terminals -> Terms] /\ \A u \in Terminals : OneTerminal(term[u])
  BY <1>3, IInvTypes DEF IInv
<1>5. PICK n \in Nat : n = m.network[logged] /\ n > 0
  BY <1>3, <1>4 DEF Exit, Terms
<1>6. PICK k \in Nat : k = n - 1
  BY <1>5
<1>7. PICK g : g = [m EXCEPT !.network[logged] = k]
  OBVIOUS
<1>8. /\ g \in Terms /\ SameOtherwise(g, m)
      /\ logged = TRUE => LoggedNet(g) = k
      /\ logged = FALSE => LoggedNet(g) = LoggedNet(m)
      /\ g.sendEvents = m.sendEvents /\ g.limiter = m.limiter /\ g.remaining = m.remaining
  BY <1>4, <1>7, NetworkChanges
<1>9. PICK us : us = [term EXCEPT ![t] = g]
  OBVIOUS
<1>10. us = [term EXCEPT ![t].network[logged] = @ - 1]
  BY <1>3, <1>5, <1>6, <1>7, <1>9
<1>11. Agreed(app, us) /\ \A u \in Terminals : us[u] = IF u = t THEN g ELSE term[u]
  BY <1>3, <1>4, <1>8, <1>9, AgreedStill
<1>12. PICK d : d = Detect([app |-> app, term |-> us], t, v)
  OBVIOUS
<1>13. PICK b, T : b = d.app /\ T = d.term
  OBVIOUS
<1>14. ~app.killed
  BY DEF Exit
<1>15. /\ d = [app |-> b, term |-> T] /\ Agreed(b, T)
       /\ \A u \in Terminals : SameMessages(T[u], us[u])
       /\ b.killed => us[t].warmupEnable /\ ~app.warmupComplete
  <2>1. Agreed(app, us)
    BY <1>11
  <2>2. LET r == Detect([app |-> app, term |-> us], t, v)
        IN /\ r = [app |-> r.app, term |-> r.term]
           /\ Agreed(r.app, r.term)
           /\ \A u \in Terminals : SameMessages(r.term[u], us[u])
           /\ r.app.killed => us[t].warmupEnable /\ ~app.warmupComplete
    BY <1>2, <1>14, <2>1, DetectKeeps
  <2>3. /\ d = [app |-> d.app, term |-> d.term] /\ Agreed(d.app, d.term)
        /\ \A u \in Terminals : SameMessages(d.term[u], us[u])
        /\ d.app.killed => us[t].warmupEnable /\ ~app.warmupComplete
    BY <1>12, <2>2
  <2> QED
    BY <1>13, <2>3
<1>16. LET s2 == IF b.killed THEN d ELSE CountLogged(d, t, logged)
       IN app' = s2.app /\ term' = s2.term
  BY <1>1, <1>10, <1>12, <1>13
<1>17. LoggedInLimiter(m.limiter) \in Nat /\ LoggedNet(m) \in Nat
  BY <1>4, LimiterCounts
<1>18. CASE logged = FALSE
  <2>1. CountLogged(d, t, logged) = d
    BY <1>18 DEF CountLogged
  <2>2. app' = b /\ term' = T
    BY <1>13, <1>16, <2>1
  <2>3. OneTerminal(g)
    <3>1. LoggedAhead(g) = LoggedAhead(m) /\ Ahead(g) = Ahead(m)
      BY <1>8, <1>18 DEF LoggedAhead, Ahead
    <3> QED
      BY <1>4, <1>8, <3>1 DEF OneTerminal, SameOtherwise
  <2>4. \A u \in Terminals : OneTerminal(us[u])
    BY <1>4, <1>11, <2>3
  <2>5. \A u \in Terminals : OneTerminal(T[u])
    BY <1>15, <2>4, SameMessagesKeep
  <2>6. Agreed(app', term') /\ \A u \in Terminals : OneTerminal(term'[u])
    BY <1>15, <2>2, <2>5
  <2> QED
    BY <2>6 DEF IInv
<1>19. CASE logged = TRUE
  <2>1. LoggedNet(m) = n
    BY <1>5, <1>19, Zenon DEF LoggedNet
  <2>2. m.remaining \in Nat /\ m.loggedOut \in Nat /\ m.remaining + LoggedAhead(m) + m.loggedOut = NumMessages
    BY <1>4 DEF OneTerminal, Terms
  <2>3. m.loggedOut < NumMessages /\ m.remaining < NumMessages
    BY <1>4, <1>5, <1>17, <2>1, <2>2 DEF LoggedAhead
  <2>4. m.enableLogging
    BY <1>4, <2>2, <2>3 DEF OneTerminal
  <2>5. app.warmupComplete
    BY <1>3, <1>4, <2>4 DEF Agreed, Phases
  <2>6. ~b.killed
    BY <1>15, <2>5
  <2>7. PICK q : q = T[t]
    OBVIOUS
  <2>8. q \in Terms /\ SameMessages(q, g)
    BY <1>11, <1>15, <2>7 DEF Agreed
  <2>9. q.enableLogging /\ q.loggedOut = m.loggedOut
    BY <1>8, <2>4, <2>8 DEF SameMessages, SameOtherwise
  <2>10. PICK r : r = CountLogged([app |-> b, term |-> T], t, TRUE)
    OBVIOUS
  <2>11. PICK e : e = [q EXCEPT !.loggedOut = @ + 1]
    OBVIOUS
  <2>12. /\ Agreed(r.app, r.term)
         /\ \A u \in Terminals \ {t} : SameMessages(r.term[u], T[u])
         /\ SameMessages(r.term[t], e)
    BY <1>15, <2>3, <2>7, <2>9, <2>10, <2>11, CountLoggedKeeps
  <2>13. app' = r.app /\ term' = r.term
    BY <1>15, <1>16, <1>19, <2>6, <2>10
  <2>14. OneTerminal(e)
    <3>1. /\ e.loggedOut = m.loggedOut + 1 /\ e.remaining = m.remaining
          /\ e.sendEvents = m.sendEvents /\ e.limiter = m.limiter /\ e.network = g.network
          /\ e.enableLogging /\ (e.enableSending => m.enableSending)
      BY <1>8, <2>8, <2>9, <2>11 DEF SameMessages, SameOtherwise, Terms
    <3>2. Ahead(e) = Ahead(m)
      BY <3>1 DEF Ahead
    <3>3. LoggedNet(e) = k
      BY <1>8, <1>19, <3>1, LoggedNetIsField
    <3>4. LoggedAhead(e) = LoggedAhead(m) - 1
      BY <1>6, <1>17, <2>1, <3>1, <3>3 DEF LoggedAhead
    <3>5. e.remaining + LoggedAhead(e) + e.loggedOut = NumMessages
      BY <1>17, <2>2, <3>1, <3>4 DEF LoggedAhead
    <3> QED
      BY <1>4, <3>1, <3>2, <3>5 DEF OneTerminal
  <2>15. \A u \in Terminals \ {t} : OneTerminal(T[u])
    <3>1. \A u \in Terminals \ {t} : OneTerminal(us[u])
      BY <1>4, <1>11
    <3> QED
      BY <1>15, <3>1, SameMessagesKeep
  <2>16. \A u \in Terminals : OneTerminal(r.term[u])
    BY <2>12, <2>14, <2>15, SameMessagesKeep
  <2>17. Agreed(app', term') /\ \A u \in Terminals : OneTerminal(term'[u])
    BY <2>12, <2>13, <2>16
  <2> QED
    BY <2>17 DEF IInv
<1> QED
  BY <1>18, <1>19

(* Every step keeps the invariant.                                         *)
LEMMA NextKeeps == IInv /\ [Next]_vars => IInv'
<1> SUFFICES ASSUME IInv, [Next]_vars PROVE IInv'
  OBVIOUS
<1>1. CASE UNCHANGED vars
  BY <1>1 DEF vars, IInv
<1>2. ASSUME NEW t \in Terminals, SendEvent(t) PROVE IInv'
  BY <1>2, SendEventKeeps
<1>3. ASSUME NEW t \in Terminals, LimiterEvent(t) PROVE IInv'
  BY <1>3, LimiterEventKeeps
<1>4. ASSUME NEW t \in Terminals, NEW logged \in BOOLEAN, Exit(t, logged) PROVE IInv'
  BY <1>4, ExitKeeps
<1> QED
  BY <1>1, <1>2, <1>3, <1>4 DEF Next

(* The inductive invariant always holds.                                   *)
LEMMA Invariant == Spec => []IInv
BY InitIInv, NextKeeps, PTL DEF Spec

-----------------------------------------------------------------------------
(* What it gives.                                                          *)

(* Counters never leave their range: no terminal reports twice, none is    *)
(* counted as complete twice, and none logs more than it was told to.      *)
THEOREM TypeCorrect == Spec => []TypeOK
<1>1. IInv => TypeOK
  <2> SUFFICES ASSUME IInv PROVE TypeOK
    OBVIOUS
  <2>1. app \in Apps /\ \A t \in Terminals : term[t] \in Terms
    BY IInvTypes
  <2> QED
    BY <2>1 DEF TypeOK, Apps, Terms
<1> QED
  BY <1>1, Invariant, PTL

(* For any traffic, rates and network: what keeps a terminal sending is    *)
(* never lost and never doubled (BlastTerminal.cc, InjectionLimiter.cc).   *)
THEOREM OneAhead == Spec => []OneMessageAhead
<1>1. IInv => OneMessageAhead
  BY DEF IInv, OneTerminal, Ahead, OneMessageAhead
<1> QED
  BY <1>1, Invariant, PTL

(* Terminals and application agree on the phase in every order of their    *)
(* reports: the application's assertions in terminalWarmed() and           *)
(* terminalSaturated() hold, and sending ends only when all is logged or   *)
(* the network is saturated.                                               *)
THEOREM AllAgree == Spec => []PhasesAgree
<1>1. IInv => PhasesAgree
  BY DEF IInv, Agreed, Phases, PhasesAgree
<1> QED
  BY <1>1, Invariant, PTL

(* Every message that is to be logged is in one place, and a terminal is   *)
(* complete when all of its are out.  Without messages to log nobody is    *)
(* ever counted as complete.                                               *)
THEOREM EachLoggedOnce == Spec => [](NumMessages > 0 => LoggedOnce)
<1>1. IInv /\ NumMessages > 0 => LoggedOnce
  <2> SUFFICES ASSUME IInv, NumMessages > 0 PROVE LoggedOnce
    OBVIOUS
  <2>1. app.completed = Cardinality({t \in Terminals : term[t].loggedOut = NumMessages})
    <3>1. Done(term) = {t \in Terminals : term[t].loggedOut = NumMessages}
      BY DEF Done
    <3> QED
      BY <3>1 DEF IInv, Agreed, Counts
  <2>2. ASSUME NEW t \in Terminals
        PROVE  term[t].remaining
                 + Cardinality({i \in DOMAIN term[t].limiter : term[t].limiter[i]})
                 + term[t].network[TRUE] + term[t].loggedOut = NumMessages
    <3>1. PICK m : m = term[t]
      OBVIOUS
    <3>2. m \in Terms /\ OneTerminal(m) /\ NumMessages \in Nat
      BY <3>1, IInvTypes
    <3>3. /\ LoggedInLimiter(m.limiter) \in Nat /\ LoggedNet(m) \in Nat
          /\ m.remaining \in Nat /\ m.loggedOut \in Nat
      BY <3>2, LimiterCounts DEF Terms
    <3>4. m.remaining + (LoggedInLimiter(m.limiter) + LoggedNet(m)) + m.loggedOut = NumMessages
      BY <3>2 DEF OneTerminal, LoggedAhead
    <3>5. m.remaining + LoggedInLimiter(m.limiter) + LoggedNet(m) + m.loggedOut = NumMessages
      BY <3>3, <3>4
    <3> QED
      BY <3>1, <3>5, Zenon DEF LoggedInLimiter, LoggedNet
  <2> QED
    BY <2>1, <2>2 DEF LoggedOnce
<1> QED
  BY <1>1, Invariant, PTL
=============================================================================

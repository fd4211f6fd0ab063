--------------------------- MODULE DiscoveryProofs ---------------------------
(***************************************************************************)
(* The safety of Discovery, for any number of data sources, any texts, any  *)
(* ranges of addresses and any bounds; and the arithmetic of addresses.     *)
(***************************************************************************)
EXTENDS Discovery, TLAPS

-----------------------------------------------------------------------------
(* Addresses.                                                                *)

(* An address is four bytes.                                                *)
LEMMA FourBytes ==
    ASSUME NEW a \in Address
    PROVE  \E p \in Byte, q \in Byte, s \in Byte, t \in Byte : a = <<p, q, s, t>>
<1>1. /\ a[1] \in Byte /\ a[2] \in Byte /\ a[3] \in Byte /\ a[4] \in Byte
      /\ a = <<a[1], a[2], a[3], a[4]>>
  BY DEF Address
<1> QED
  BY <1>1, Zenon

(* The last address is the largest number.                                  *)
LEMMA ValueBound ==
    ASSUME NEW a \in Address
    PROVE  Value(a) \in Int /\ Value(a) =< Value(Last)
<1>1. PICK p \in Byte, q \in Byte, s \in Byte, t \in Byte : a = <<p, q, s, t>>
  BY FourBytes, Zenon
<1>2. Value(a) = Number(p, q, s, t)
  BY <1>1 DEF Value
<1>3. Value(Last) = Number(255, 255, 255, 255)
  BY DEF Value, Last
<1>4. /\ Number(p, q, s, t) \in Int
      /\ Number(p, q, s, t) =< Number(255, 255, 255, 255)
  BY DEF Number, Byte
<1> QED
  BY <1>2, <1>3, <1>4, Zenon

(* AR_ipv4cmp orders addresses as numbers: the sweep's test "not yet at the *)
(* end" (DiscoveryViewDataSource.m, handle_write and on_timer) is < on      *)
(* 32-bit numbers.                                                          *)
THEOREM CmpIsOrder ==
    ASSUME NEW l \in Address, NEW r \in Address
    PROVE  /\ AR_ipv4cmp(l, r) < 0 <=> Value(l) < Value(r)
           /\ AR_ipv4cmp(l, r) = 0 <=> l = r
<1>1. PICK p \in Byte, q \in Byte, s \in Byte, t \in Byte : l = <<p, q, s, t>>
  BY FourBytes, Zenon
<1>2. PICK u \in Byte, v \in Byte, w \in Byte, x \in Byte : r = <<u, v, w, x>>
  BY FourBytes, Zenon
<1>3. /\ Value(l) = Number(p, q, s, t)
      /\ Value(r) = Number(u, v, w, x)
  BY <1>1, <1>2 DEF Value
<1>4. l = r <=> p = u /\ q = v /\ s = w /\ t = x
  BY <1>1, <1>2
<1>5. AR_ipv4cmp(l, r) = IF p # u THEN p - u ELSE IF q # v THEN q - v
                         ELSE IF s # w THEN s - w ELSE t - x
  BY <1>1, <1>2 DEF AR_ipv4cmp
<1>6. Number(p, q, s, t) < Number(u, v, w, x) <=>
             \/ p < u
             \/ p = u /\ q < v
             \/ p = u /\ q = v /\ s < w
             \/ p = u /\ q = v /\ s = w /\ t < x
  BY DEF Number, Byte
<1>7. AR_ipv4cmp(l, r) < 0 <=> Number(p, q, s, t) < Number(u, v, w, x)
  BY <1>5, <1>6 DEF Byte
<1>8. AR_ipv4cmp(l, r) = 0 <=> p = u /\ q = v /\ s = w /\ t = x
  BY <1>5 DEF Byte
<1> QED
  BY <1>3, <1>4, <1>7, <1>8, Zenon

(* AR_ipv4add is the successor of the address as a number, and fails on the *)
(* last address alone.                                                      *)
THEOREM AddIsSuccessor ==
    ASSUME NEW a \in Address
    PROVE  /\ AR_ipv4add(a).addr \in Address
           /\ AR_ipv4add(a).ok <=> a # Last
           /\ AR_ipv4add(a).ok => Value(AR_ipv4add(a).addr) = Value(a) + 1
<1>1. PICK p \in Byte, q \in Byte, s \in Byte, t \in Byte : a = <<p, q, s, t>>
  BY FourBytes, Zenon
<1>2. Value(a) = Number(p, q, s, t)
  BY <1>1 DEF Value
<1>3. AR_ipv4add(a)
        = IF t < 255 THEN [ok |-> TRUE, addr |-> <<p, q, s, t + 1>>]
          ELSE IF s < 255 THEN [ok |-> TRUE, addr |-> <<p, q, s + 1, 0>>]
          ELSE IF q < 255 THEN [ok |-> TRUE, addr |-> <<p, q + 1, 0, 0>>]
          ELSE IF p < 255 THEN [ok |-> TRUE, addr |-> <<p + 1, 0, 0, 0>>]
          ELSE [ok |-> FALSE, addr |-> <<0, 0, 0, 0>>]
  BY <1>1 DEF AR_ipv4add
<1>4. CASE t < 255
  <2>1. AR_ipv4add(a) = [ok |-> TRUE, addr |-> <<p, q, s, t + 1>>]
    BY <1>3, <1>4
  <2>2. t + 1 \in Byte
    BY <1>4 DEF Byte
  <2>3. <<p, q, s, t + 1>> \in Address
    BY <2>2 DEF Address
  <2>4. Value(<<p, q, s, t + 1>>) = Number(p, q, s, t + 1)
    BY DEF Value
  <2>5. Number(p, q, s, t + 1) = Number(p, q, s, t) + 1
    BY <1>4 DEF Number, Byte
  <2>6. a # Last
    BY <1>1, <1>4 DEF Last
  <2> QED
    BY <1>2, <2>1, <2>3, <2>4, <2>5, <2>6
<1>5. CASE t = 255 /\ s < 255
  <2>1. AR_ipv4add(a) = [ok |-> TRUE, addr |-> <<p, q, s + 1, 0>>]
    BY <1>3, <1>5
  <2>2. s + 1 \in Byte /\ 0 \in Byte
    BY <1>5 DEF Byte
  <2>3. <<p, q, s + 1, 0>> \in Address
    BY <2>2 DEF Address
  <2>4. Value(<<p, q, s + 1, 0>>) = Number(p, q, s + 1, 0)
    BY DEF Value
  <2>5. Number(p, q, s + 1, 0) = Number(p, q, s, t) + 1
    BY <1>5 DEF Number, Byte
  <2>6. a # Last
    BY <1>1, <1>5 DEF Last
  <2> QED
    BY <1>2, <2>1, <2>3, <2>4, <2>5, <2>6
<1>6. CASE t = 255 /\ s = 255 /\ q < 255
  <2>1. AR_ipv4add(a) = [ok |-> TRUE, addr |-> <<p, q + 1, 0, 0>>]
    BY <1>3, <1>6
  <2>2. q + 1 \in Byte /\ 0 \in Byte
    BY <1>6 DEF Byte
  <2>3. <<p, q + 1, 0, 0>> \in Address
    BY <2>2 DEF Address
  <2>4. Value(<<p, q + 1, 0, 0>>) = Number(p, q + 1, 0, 0)
    BY DEF Value
  <2>5. Number(p, q + 1, 0, 0) = Number(p, q, s, t) + 1
    BY <1>6 DEF Number, Byte
  <2>6. a # Last
    BY <1>1, <1>6 DEF Last
  <2> QED
    BY <1>2, <2>1, <2>3, <2>4, <2>5, <2>6
<1>7. CASE t = 255 /\ s = 255 /\ q = 255 /\ p < 255
  <2>1. AR_ipv4add(a) = [ok |-> TRUE, addr |-> <<p + 1, 0, 0, 0>>]
    BY <1>3, <1>7
  <2>2. p + 1 \in Byte /\ 0 \in Byte
    BY <1>7 DEF Byte
  <2>3. <<p + 1, 0, 0, 0>> \in Address
    BY <2>2 DEF Address
  <2>4. Value(<<p + 1, 0, 0, 0>>) = Number(p + 1, 0, 0, 0)
    BY DEF Value
  <2>5. Number(p + 1, 0, 0, 0) = Number(p, q, s, t) + 1
    BY <1>7 DEF Number, Byte
  <2>6. a # Last
    BY <1>1, <1>7 DEF Last
  <2> QED
    BY <1>2, <2>1, <2>3, <2>4, <2>5, <2>6
<1>8. CASE t = 255 /\ s = 255 /\ q = 255 /\ p = 255
  <2>1. AR_ipv4add(a) = [ok |-> FALSE, addr |-> <<0, 0, 0, 0>>]
    BY <1>3, <1>8
  <2>2. 0 \in Byte
    BY DEF Byte
  <2>3. <<0, 0, 0, 0>> \in Address
    BY <2>2 DEF Address
  <2>4. a = Last
    BY <1>1, <1>8 DEF Last
  <2> QED
    BY <2>1, <2>3, <2>4
<1> QED
  BY <1>4, <1>5, <1>6, <1>7, <1>8 DEF Byte

(* The sweep cannot run past its end: a step from below the end succeeds    *)
(* and does not overshoot.  handle_write's branch that restores the address *)
(* after a failed increment is dead code.                                   *)
THEOREM StepStaysInRange ==
    ASSUME NEW a \in Address, NEW e \in Address, AR_ipv4cmp(a, e) < 0
    PROVE  /\ AR_ipv4add(a).ok
           /\ Value(AR_ipv4add(a).addr) = Value(a) + 1
           /\ Value(AR_ipv4add(a).addr) =< Value(e)
<1>1. Value(a) \in Int /\ Value(e) \in Int /\ Value(e) =< Value(Last)
  BY ValueBound
<1>2. Value(a) < Value(e)
  BY CmpIsOrder
<1>3. a # Last
  BY <1>1, <1>2
<1>4. AR_ipv4add(a).ok /\ Value(AR_ipv4add(a).addr) = Value(a) + 1
  BY <1>3, AddIsSuccessor
<1> QED
  BY <1>1, <1>2, <1>4

-----------------------------------------------------------------------------
(* The invariant.                                                            *)

\* What is true of one data source by itself.
Sound(d) ==
    /\ d \in SourceState
    /\ Ordered(d)
    /\ InRange(d)
    /\ d.sock \/ d.armed => d.isStarted
    /\ d.isStarted => d.wifiEnable /\ d.auto
    /\ d.blind => d.wifiEnable
    /\ d.phase = "orphan" => d.isStarted

\* It runs if it may.
Keen(d) == d.wifiEnable /\ d.auto => d.isStarted \/ d.gaveUp

\* It is set as the settings say.
Configured(d) == d.auto = AutoSetting /\ d.first = RangeStart /\ d.ipEnd = RangeStop

IInv ==
    /\ TypeOK
    /\ \A s \in Source : Sound(ds[s])
    /\ \A s, t \in Attached : s = t
    /\ \A s \in Attached : ~note /\ ~ds[s].blind => (ds[s].wifiEnable <=> wifi)
    /\ app = "active" => \A s \in Attached : Keen(ds[s])
    /\ ~prefsNote => \A s \in Attached : Configured(ds[s])
    /\ app # "active" => \A s \in Source : ~ds[s].isStarted
    /\ app = "dead" => Alive = {}

-----------------------------------------------------------------------------
(* The methods of one data source.                                          *)

(* The settings a data source reads are of the right types.                 *)
LEMMA SettingTypes ==
    ASSUME DiscoveryAssumption, TypeOK
    PROVE  AutoSetting \in BOOLEAN /\ RangeStart \in Address /\ RangeStop \in Address
<1>1. Zero \in Address
  BY DEF Zero, Address, Byte
<1> QED
  BY <1>1 DEF DiscoveryAssumption, TypeOK, AutoSetting, HasRange, RangeStart, RangeStop

(* The value of an address is an integer.                                   *)
LEMMA ValueType ==
    ASSUME NEW a \in Address
    PROVE  Value(a) \in Int
  BY ValueBound

LEMMA NoSourceSound == Sound(NoSource) /\ NoSource.phase = "free" /\ ~NoSource.isStarted
<1>1. Zero \in Address
  BY DEF Zero, Address, Byte
<1>2. NoSource \in SourceState
  BY <1>1 DEF NoSource, SourceState
<1>3. Value(Zero) \in Int
  BY <1>1, ValueType
<1>4. Ordered(NoSource) /\ InRange(NoSource)
  BY <1>3 DEF NoSource, Ordered, InRange
<1> QED
  BY <1>2, <1>4 DEF Sound, NoSource

LEMMA LoadConfigSound ==
    ASSUME DiscoveryAssumption, TypeOK, NEW d, Sound(d), NEW e, e = LoadConfig(d)
    PROVE  /\ e \in SourceState /\ Ordered(e) /\ InRange(e) /\ Configured(e)
           /\ e.phase = d.phase /\ e.wifiEnable = d.wifiEnable /\ e.blind = d.blind
           /\ e.isStarted = d.isStarted /\ e.sock = d.sock /\ e.armed = d.armed
<1>1. AutoSetting \in BOOLEAN /\ RangeStart \in Address /\ RangeStop \in Address
  BY SettingTypes
<1>2. d \in SourceState
  BY DEF Sound
<1>3. e = [d EXCEPT !.auto = AutoSetting, !.first = RangeStart,
                    !.ipBeg = RangeStart, !.ipEnd = RangeStop, !.probes = <<>>]
  BY DEF LoadConfig
<1>4. e \in SourceState
  <2>1. <<>> \in Seq(Address)
    OBVIOUS
  <2> QED
    BY <1>1, <1>2, <1>3, <2>1 DEF SourceState
<1>5. /\ e.auto = AutoSetting /\ e.first = RangeStart /\ e.ipBeg = RangeStart
      /\ e.ipEnd = RangeStop /\ e.probes = <<>>
      /\ e.phase = d.phase /\ e.wifiEnable = d.wifiEnable /\ e.blind = d.blind
      /\ e.isStarted = d.isStarted /\ e.sock = d.sock /\ e.armed = d.armed
  BY <1>2, <1>3 DEF SourceState
<1>6. Value(RangeStart) \in Int
  BY <1>1, ValueType
<1> QED
  BY <1>4, <1>5, <1>6 DEF Ordered, InRange, Configured

LEMMA StartSound ==
    ASSUME NEW d, Sound(d), NEW ok \in BOOLEAN, NEW e, e = Start(d, ok)
    PROVE  /\ Sound(e) /\ Keen(e)
           /\ e.phase = d.phase /\ e.wifiEnable = d.wifiEnable /\ e.blind = d.blind
           /\ e.auto = d.auto /\ e.first = d.first /\ e.ipEnd = d.ipEnd
<1>1. d \in SourceState
  BY DEF Sound
<1>2. CASE ~d.wifiEnable \/ d.isStarted \/ ~d.auto
  <2>1. e = d
    BY <1>2 DEF Start
  <2> QED
    BY <1>2, <2>1 DEF Keen
<1>3. CASE d.wifiEnable /\ ~d.isStarted /\ d.auto
  <2>1. e = [d EXCEPT !.isStarted = TRUE, !.sock = ok, !.armed = ok, !.gaveUp = FALSE]
    BY <1>3 DEF Start
  <2>2. e \in SourceState
    BY <1>1, <2>1 DEF SourceState
  <2>3. /\ e.isStarted /\ e.phase = d.phase /\ e.wifiEnable = d.wifiEnable
        /\ e.blind = d.blind /\ e.auto = d.auto /\ e.first = d.first
        /\ e.ipEnd = d.ipEnd /\ e.ipBeg = d.ipBeg /\ e.probes = d.probes
    BY <1>1, <2>1 DEF SourceState
  <2> QED
    BY <1>3, <2>2, <2>3 DEF Sound, Keen, Ordered, InRange
<1> QED
  BY <1>2, <1>3

LEMMA StopSound ==
    ASSUME NEW d, d \in SourceState, Ordered(d), InRange(d),
           d.sock \/ d.armed => d.isStarted,
           d.blind => d.wifiEnable \/ d.isStarted,
           d.phase = "orphan" => d.isStarted,
           NEW e, e = Stop(d)
    PROVE  /\ e \in SourceState /\ Ordered(e) /\ InRange(e)
           /\ ~e.isStarted /\ ~e.sock /\ ~e.armed
           /\ e.phase # "orphan"
           /\ e = NoSource \/ ( /\ e.phase = d.phase /\ e.wifiEnable = d.wifiEnable
                                /\ e.blind = d.blind /\ e.auto = d.auto
                                /\ e.first = d.first /\ e.ipEnd = d.ipEnd
                                /\ e.gaveUp = d.gaveUp /\ e.ipBeg = d.ipBeg
                                /\ e.probes = d.probes)
           /\ d.phase = "attached" => e.phase = "attached"
<1>1. CASE ~d.isStarted
  <2>1. e = d
    BY <1>1 DEF Stop
  <2> QED
    BY <1>1, <2>1 DEF SourceState
<1>2. CASE d.isStarted /\ d.phase = "orphan"
  <2>1. e = NoSource
    BY <1>2 DEF Stop
  <2> QED
    BY <1>2, <2>1, NoSourceSound DEF Sound
<1>3. CASE d.isStarted /\ d.phase # "orphan"
  <2>1. e = [d EXCEPT !.isStarted = FALSE, !.sock = FALSE, !.armed = FALSE]
    BY <1>3 DEF Stop
  <2>2. e \in SourceState
    BY <2>1 DEF SourceState
  <2>3. /\ ~e.isStarted /\ ~e.sock /\ ~e.armed
        /\ e.phase = d.phase /\ e.wifiEnable = d.wifiEnable
        /\ e.blind = d.blind /\ e.auto = d.auto
        /\ e.first = d.first /\ e.ipEnd = d.ipEnd
        /\ e.gaveUp = d.gaveUp /\ e.ipBeg = d.ipBeg
        /\ e.probes = d.probes
    BY <2>1 DEF SourceState
  <2> QED
    BY <1>3, <2>2, <2>3 DEF Ordered, InRange
<1> QED
  BY <1>1, <1>2, <1>3

LEMMA NewSourceSound ==
    ASSUME DiscoveryAssumption, TypeOK, NEW ok \in BOOLEAN, NEW e, e = NewSource(ok)
    PROVE  /\ Sound(e) /\ Keen(e) /\ Configured(e)
           /\ e.phase = "attached" /\ e.wifiEnable /\ (e.blind <=> ~wifi)
<1>1. wifi \in BOOLEAN
  BY DEF TypeOK
<1> DEFINE n == [NoSource EXCEPT !.phase = "attached", !.wifiEnable = TRUE, !.blind = ~wifi]
           l == LoadConfig(n)
<1>2. /\ n \in SourceState /\ n.phase = "attached" /\ n.wifiEnable /\ n.blind = ~wifi
      /\ ~n.isStarted /\ ~n.sock /\ ~n.armed
      /\ n.first = NoSource.first /\ n.ipBeg = NoSource.ipBeg
      /\ n.ipEnd = NoSource.ipEnd /\ n.probes = NoSource.probes
  <2>1. NoSource \in SourceState /\ ~NoSource.isStarted /\ ~NoSource.sock /\ ~NoSource.armed
    BY NoSourceSound DEF Sound
  <2> QED
    BY <1>1, <2>1 DEF SourceState
<1>3. Sound(n)
  BY <1>2, NoSourceSound DEF Sound, Ordered, InRange
<1> HIDE DEF n
<1>4. /\ l \in SourceState /\ Ordered(l) /\ InRange(l) /\ Configured(l)
      /\ l.phase = n.phase /\ l.wifiEnable = n.wifiEnable /\ l.blind = n.blind
      /\ l.isStarted = n.isStarted /\ l.sock = n.sock /\ l.armed = n.armed
  BY <1>3, LoadConfigSound
<1>5. e = Start(l, ok)
  BY DEF NewSource, n
<1> HIDE DEF l
<1>6. Sound(l)
  BY <1>2, <1>4 DEF Sound
<1>7. /\ Sound(e) /\ Keen(e)
      /\ e.phase = l.phase /\ e.wifiEnable = l.wifiEnable /\ e.blind = l.blind
      /\ e.auto = l.auto /\ e.first = l.first /\ e.ipEnd = l.ipEnd
  BY <1>5, <1>6, StartSound
<1> QED
  BY <1>2, <1>4, <1>7 DEF Configured

LEMMA HearWifiSound ==
    ASSUME TypeOK, NEW d, Sound(d), d.phase # "free",
           NEW ok \in BOOLEAN, NEW e, e = HearWifi(d, ok)
    PROVE  /\ Sound(e)
           /\ d.phase = "attached" => e.phase = "attached"
           /\ e.phase = "attached" =>
                 /\ d.phase = "attached" /\ Keen(e) /\ (e.wifiEnable <=> wifi)
                 /\ Configured(d) => Configured(e)
<1>1. wifi \in BOOLEAN /\ d \in SourceState
  BY DEF TypeOK, Sound
<1> DEFINE h == [d EXCEPT !.wifiEnable = wifi, !.blind = FALSE]
<1>2. /\ h \in SourceState /\ h.wifiEnable = wifi /\ ~h.blind
      /\ h.phase = d.phase /\ h.auto = d.auto /\ h.first = d.first /\ h.ipBeg = d.ipBeg
      /\ h.ipEnd = d.ipEnd /\ h.probes = d.probes /\ h.isStarted = d.isStarted
      /\ h.sock = d.sock /\ h.armed = d.armed
  BY <1>1 DEF SourceState
<1>3. /\ Ordered(h) /\ InRange(h)
      /\ h.sock \/ h.armed => h.isStarted
      /\ h.isStarted => h.auto
      /\ h.phase = "orphan" => h.isStarted
  BY <1>2 DEF Sound, Ordered, InRange
<1>4. e = IF wifi THEN Start(h, ok) ELSE Stop(h)
  BY DEF HearWifi
<1> HIDE DEF h
<1>5. CASE wifi
  <2>1. Sound(h)
    BY <1>2, <1>3, <1>5 DEF Sound
  <2>2. /\ Sound(e) /\ Keen(e)
        /\ e.phase = h.phase /\ e.wifiEnable = h.wifiEnable /\ e.blind = h.blind
        /\ e.auto = h.auto /\ e.first = h.first /\ e.ipEnd = h.ipEnd
    BY <1>4, <1>5, <2>1, StartSound
  <2> QED
    BY <1>2, <1>5, <2>2 DEF Configured
<1>6. CASE ~wifi
  <2>1. e = Stop(h)
    BY <1>4, <1>6
  <2>2. h.blind => h.wifiEnable \/ h.isStarted
    BY <1>2
  <2>3. /\ e \in SourceState /\ Ordered(e) /\ InRange(e)
        /\ ~e.isStarted /\ ~e.sock /\ ~e.armed
        /\ e.phase # "orphan"
        /\ e = NoSource \/ ( /\ e.phase = h.phase /\ e.wifiEnable = h.wifiEnable
                             /\ e.blind = h.blind /\ e.auto = h.auto
                             /\ e.first = h.first /\ e.ipEnd = h.ipEnd)
        /\ h.phase = "attached" => e.phase = "attached"
    BY <1>2, <1>3, <2>1, <2>2, StopSound
  <2>4. NoSource.phase = "free" /\ ~NoSource.blind
    BY DEF NoSource
  <2>5. Sound(e)
    BY <1>2, <2>3, <2>4 DEF Sound
  <2> QED
    BY <1>2, <1>6, <2>3, <2>4, <2>5 DEF Keen, Configured
<1> QED
  BY <1>5, <1>6

LEMMA RestartSound ==
    ASSUME DiscoveryAssumption, TypeOK, NEW d, Sound(d), d.phase # "free",
           NEW ok \in BOOLEAN, NEW e, e = Restart(d, ok)
    PROVE  /\ Sound(e)
           /\ e.phase = "attached" =>
                 /\ d.phase = "attached" /\ Keen(e) /\ Configured(e)
                 /\ e.wifiEnable = d.wifiEnable /\ e.blind = d.blind
<1> DEFINE l == LoadConfig(d)
           q == Stop(l)
<1>1. /\ l \in SourceState /\ Ordered(l) /\ InRange(l) /\ Configured(l)
      /\ l.phase = d.phase /\ l.wifiEnable = d.wifiEnable /\ l.blind = d.blind
      /\ l.isStarted = d.isStarted /\ l.sock = d.sock /\ l.armed = d.armed
  BY LoadConfigSound
<1>2. e = Start(q, ok)
  BY DEF Restart
<1> HIDE DEF l
<1>3. /\ l.sock \/ l.armed => l.isStarted
      /\ l.blind => l.wifiEnable \/ l.isStarted
      /\ l.phase = "orphan" => l.isStarted
      /\ l.blind => l.wifiEnable
  BY <1>1 DEF Sound
<1>4. /\ q \in SourceState /\ Ordered(q) /\ InRange(q)
      /\ ~q.isStarted /\ ~q.sock /\ ~q.armed
      /\ q.phase # "orphan"
      /\ q = NoSource \/ ( /\ q.phase = l.phase /\ q.wifiEnable = l.wifiEnable
                           /\ q.blind = l.blind /\ q.auto = l.auto
                           /\ q.first = l.first /\ q.ipEnd = l.ipEnd)
  BY <1>1, <1>3, StopSound
<1> HIDE DEF q
<1>5. NoSource.phase = "free" /\ ~NoSource.blind
  BY DEF NoSource
<1>6. Sound(q)
  BY <1>3, <1>4, <1>5 DEF Sound
<1>7. /\ Sound(e) /\ Keen(e)
      /\ e.phase = q.phase /\ e.wifiEnable = q.wifiEnable /\ e.blind = q.blind
      /\ e.auto = q.auto /\ e.first = q.first /\ e.ipEnd = q.ipEnd
  BY <1>2, <1>6, StartSound
<1> QED
  BY <1>1, <1>4, <1>5, <1>7 DEF Configured

(* A datagram of the sweep: the step of the address keeps the order and the *)
(* range, whether sendto succeeds, fails, or fails for good.                *)
LEMMA HandleWriteSound ==
    ASSUME NEW d, Sound(d), d.armed, NEW answer \in Answer,
           ~(d.phase = "orphan" /\ answer = "fatal" /\ BeforeEnd(d)),
           NEW e, e = HandleWrite(d, answer)
    PROVE  /\ Sound(e) /\ (Keen(d) => Keen(e)) /\ (d.isStarted \/ ~e.isStarted)
           /\ e.phase = d.phase /\ e.wifiEnable = d.wifiEnable /\ e.blind = d.blind
           /\ e.auto = d.auto /\ e.first = d.first /\ e.ipEnd = d.ipEnd
<1>0. d \in SourceState /\ d.isStarted
  BY DEF Sound
<1> DEFINE f == [d EXCEPT !.armed = FALSE]
           p == [f EXCEPT !.probes = Append(@, f.ipBeg)]
<1>1. /\ f \in SourceState /\ f.isStarted /\ ~f.armed
      /\ f.phase = d.phase /\ f.wifiEnable = d.wifiEnable /\ f.blind = d.blind
      /\ f.auto = d.auto /\ f.first = d.first /\ f.ipEnd = d.ipEnd /\ f.ipBeg = d.ipBeg
      /\ f.probes = d.probes /\ f.sock = d.sock /\ f.gaveUp = d.gaveUp
  BY <1>0 DEF SourceState
<1>2. e = IF BeforeEnd(d) THEN Probe(f, answer) ELSE f
  BY DEF HandleWrite
<1>3. CASE ~BeforeEnd(d)
  <2>1. e = f
    BY <1>2, <1>3
  <2>2. Sound(e)
    BY <1>1, <2>1 DEF Sound, Ordered, InRange
  <2> QED
    BY <1>1, <2>1, <2>2 DEF Keen
<1>4. CASE BeforeEnd(d)
  <2> DEFINE r == AR_ipv4add(d.ipBeg)
  <2>1. /\ d.ipBeg \in Address /\ d.ipEnd \in Address /\ d.first \in Address
        /\ d.probes \in Seq(Address)
    BY <1>0 DEF SourceState
  <2>2. /\ r.ok /\ r.addr \in Address
        /\ Value(r.addr) = Value(d.ipBeg) + 1
        /\ Value(r.addr) =< Value(d.ipEnd)
    BY <1>4, <2>1, StepStaysInRange, AddIsSuccessor DEF BeforeEnd
  <2>3. /\ p \in SourceState /\ p.probes = Append(d.probes, d.ipBeg)
        /\ p.phase = d.phase /\ p.wifiEnable = d.wifiEnable /\ p.blind = d.blind
        /\ p.auto = d.auto /\ p.first = d.first /\ p.ipEnd = d.ipEnd /\ p.ipBeg = d.ipBeg
        /\ p.sock = d.sock /\ p.isStarted /\ ~p.armed
    <3>1. Append(f.probes, f.ipBeg) \in Seq(Address)
      BY <1>1, <2>1
    <3> QED
      BY <1>1, <3>1 DEF SourceState
  <2> DEFINE q == IF answer = "fatal" THEN [Stop(p) EXCEPT !.gaveUp = TRUE] ELSE p
  <2>4. e = [q EXCEPT !.ipBeg = IF AR_ipv4add(q.ipBeg).ok THEN AR_ipv4add(q.ipBeg).addr ELSE @]
    BY <1>2, <1>4 DEF Probe, Advance
  <2> HIDE DEF p
  <2>5. /\ q \in SourceState /\ q.probes = Append(d.probes, d.ipBeg)
        /\ q.phase = d.phase /\ q.wifiEnable = d.wifiEnable /\ q.blind = d.blind
        /\ q.auto = d.auto /\ q.first = d.first /\ q.ipEnd = d.ipEnd /\ q.ipBeg = d.ipBeg
        /\ ~q.armed /\ (q.sock => q.isStarted)
        /\ (q.isStarted \/ q.gaveUp) /\ (answer # "fatal" => q.isStarted)
    <3>1. CASE answer # "fatal"
      BY <2>3, <3>1
    <3>2. CASE answer = "fatal"
      <4>1. d.phase # "orphan"
        BY <1>4, <3>2
      <4> DEFINE z == Stop(p)
      <4>2. z = [p EXCEPT !.isStarted = FALSE, !.sock = FALSE, !.armed = FALSE]
        BY <2>3, <4>1 DEF Stop
      <4>3. /\ z \in SourceState /\ z.probes = p.probes
            /\ z.phase = p.phase /\ z.wifiEnable = p.wifiEnable /\ z.blind = p.blind
            /\ z.auto = p.auto /\ z.first = p.first /\ z.ipEnd = p.ipEnd
            /\ z.ipBeg = p.ipBeg /\ ~z.armed /\ ~z.sock /\ ~z.isStarted
        BY <2>3, <4>2 DEF SourceState
      <4> HIDE DEF z
      <4>4. q = [z EXCEPT !.gaveUp = TRUE]
        BY <3>2 DEF z
      <4>5. /\ q \in SourceState /\ q.probes = p.probes
            /\ q.phase = p.phase /\ q.wifiEnable = p.wifiEnable /\ q.blind = p.blind
            /\ q.auto = p.auto /\ q.first = p.first /\ q.ipEnd = p.ipEnd
            /\ q.ipBeg = p.ipBeg /\ ~q.armed /\ ~q.sock /\ ~q.isStarted /\ q.gaveUp
        BY <4>3, <4>4 DEF SourceState
      <4> QED
        BY <2>3, <3>2, <4>5
    <3> QED
      BY <3>1, <3>2
  <2> HIDE DEF q
  <2>6. e = [q EXCEPT !.ipBeg = r.addr]
    BY <2>2, <2>4, <2>5
  <2> HIDE DEF r
  <2>7. /\ e \in SourceState /\ e.ipBeg = r.addr /\ e.probes = Append(d.probes, d.ipBeg)
        /\ e.phase = d.phase /\ e.wifiEnable = d.wifiEnable /\ e.blind = d.blind
        /\ e.auto = d.auto /\ e.first = d.first /\ e.ipEnd = d.ipEnd
        /\ ~e.armed /\ (e.sock => e.isStarted)
        /\ (e.isStarted \/ e.gaveUp) /\ (answer # "fatal" => e.isStarted)
    BY <2>2, <2>5, <2>6 DEF SourceState
  <2>8. Ordered(e)
    <3>1. Value(d.ipBeg) = Value(d.first) + Len(d.probes) /\ Value(d.first) \in Int
      BY <2>1, ValueType DEF Sound, Ordered
    <3>2. \A i \in 1..Len(d.probes) : Value(d.probes[i]) = Value(d.first) + i - 1
      BY DEF Sound, Ordered
    <3>3. /\ Len(e.probes) = Len(d.probes) + 1
          /\ Len(d.probes) \in Nat
          /\ e.probes[Len(d.probes) + 1] = d.ipBeg
          /\ \A i \in 1..Len(d.probes) : e.probes[i] = d.probes[i]
      BY <2>1, <2>7
    <3>4. Value(e.ipBeg) = Value(e.first) + Len(e.probes)
      BY <2>2, <2>7, <3>1, <3>3
    <3>5. ASSUME NEW i \in 1..Len(e.probes)
          PROVE  Value(e.probes[i]) = Value(e.first) + i - 1
      <4>1. CASE i \in 1..Len(d.probes)
        BY <2>7, <3>2, <3>3, <4>1
      <4>2. CASE i = Len(d.probes) + 1
        BY <2>7, <3>1, <3>3, <4>2
      <4> QED
        BY <3>3, <4>1, <4>2
    <3> QED
      BY <3>4, <3>5 DEF Ordered
  <2>9. InRange(e)
    BY <2>2, <2>7 DEF InRange
  <2>10. e.phase = "orphan" => e.isStarted
    BY <1>4, <2>7
  <2>11. Sound(e)
    BY <1>0, <2>7, <2>8, <2>9, <2>10 DEF Sound
  <2> QED
    BY <1>0, <2>7, <2>11 DEF Keen
<1> QED
  BY <1>3, <1>4

-----------------------------------------------------------------------------
(* The inductive invariant.                                                 *)

LEMMA InitInv ==
    ASSUME DiscoveryAssumption, Init
    PROVE  IInv
<1>1. \A s \in Source : ds[s] = NoSource
  BY DEF Init
<1>2. Alive = {} /\ Attached = {}
  BY <1>1, NoSourceSound DEF Alive, Attached
<1>3. ds \in [Source -> SourceState]
  BY <1>1, NoSourceSound DEF Init, Sound
<1>4. TypeOK
  BY <1>3 DEF Init, TypeOK
<1> QED
  BY <1>1, <1>2, <1>4, NoSourceSound DEF Init, IInv

(* A dead process holds nothing.                                            *)
LEMMA DieInv ==
    ASSUME IInv, NEW why \in {"none", "null_socket", "freed_view", "freed_source"}, Die(why)
    PROVE  IInv'
<1>1. \A s \in Source : ds'[s] = NoSource
  BY DEF Die
<1>2. Alive' = {} /\ Attached' = {}
  BY <1>1, NoSourceSound DEF Alive, Attached
<1>3. ds' \in [Source -> SourceState]
  BY <1>1, NoSourceSound DEF Die, Sound
<1>4. TypeOK'
  BY <1>3 DEF Die, IInv, TypeOK
<1>5. \A s \in Source : Sound(ds'[s]) /\ ~ds'[s].isStarted
  BY <1>1, NoSourceSound
<1> QED
  BY <1>2, <1>4, <1>5 DEF Die, IInv

(* The settings a data source was loaded with are those of a later state.   *)
LEMMA SameSettings ==
    ASSUME UNCHANGED <<stored, registered>>
    PROVE  AutoSetting' = AutoSetting /\ RangeStart' = RangeStart /\ RangeStop' = RangeStop
  BY DEF AutoSetting, RangeStart, RangeStop, HasRange

LEMMA LaunchInv ==
    ASSUME IInv, Launch PROVE IInv'
<1>1. \A s \in Source : ds'[s] = ds[s] /\ ds'[s].phase = "free"
  BY DEF Launch, IInv, Alive
<1>2. Attached' = {}
  BY <1>1 DEF Attached
<1>3. TypeOK'
  BY DEF Launch, IInv, TypeOK
<1> QED
  BY <1>1, <1>2, <1>3 DEF Launch, IInv

LEMMA ViewLoadsInv ==
    ASSUME DiscoveryAssumption, IInv, ViewLoads PROVE IInv'
<1>1. PICK s \in Source, ok \in BOOLEAN :
        s \notin Alive /\ ds' = [ds EXCEPT ![s] = NewSource(ok)]
  BY DEF ViewLoads
<1> DEFINE e == NewSource(ok)
<1>2. /\ Sound(e) /\ Keen(e) /\ Configured(e)
      /\ e.phase = "attached" /\ e.wifiEnable /\ (e.blind <=> ~wifi)
  BY NewSourceSound DEF IInv
<1> HIDE DEF e
<1>3. /\ ds \in [Source -> SourceState] /\ ds'[s] = e
      /\ \A t \in Source : t # s => ds'[t] = ds[t]
  BY <1>1 DEF IInv, TypeOK, e
<1>4. Attached' = {s}
  BY <1>2, <1>3 DEF ViewLoads, Attached
<1>5. ds' \in [Source -> SourceState]
  BY <1>1, <1>2, <1>3 DEF Sound, e
<1>6. TypeOK'
  BY <1>5 DEF ViewLoads, settings, IInv, TypeOK
<1>7. \A t \in Attached' : Configured(ds[t])'
  BY <1>2, <1>3, <1>4, SameSettings DEF ViewLoads, settings, Configured
<1> QED
  BY <1>2, <1>3, <1>4, <1>6, <1>7 DEF ViewLoads, settings, IInv, Alive

LEMMA ViewUnloadsInv ==
    ASSUME IInv, ViewUnloads PROVE IInv'
<1>1. PICK s \in Attached : ds' = [ds EXCEPT ![s] = Release(@)]
  BY DEF ViewUnloads
<1> DEFINE e == Release(ds[s])
<1>2. /\ s \in Source /\ Sound(ds[s]) /\ ds[s].phase = "attached" /\ ds[s] \in SourceState
  BY <1>1 DEF IInv, Attached, Sound
<1>3. Sound(e) /\ e.phase # "attached" /\ (e.isStarted => ds[s].isStarted)
  <2>1. CASE ~ds[s].isStarted
    BY <2>1, NoSourceSound DEF Release
  <2>2. CASE ds[s].isStarted
    <3>1. e = [ds[s] EXCEPT !.phase = "orphan"]
      BY <2>2 DEF Release
    <3>2. /\ e \in SourceState /\ e.phase = "orphan"
          /\ e.wifiEnable = ds[s].wifiEnable /\ e.blind = ds[s].blind
          /\ e.auto = ds[s].auto /\ e.first = ds[s].first /\ e.ipEnd = ds[s].ipEnd
          /\ e.ipBeg = ds[s].ipBeg /\ e.probes = ds[s].probes
          /\ e.isStarted = ds[s].isStarted /\ e.sock = ds[s].sock /\ e.armed = ds[s].armed
      BY <1>2, <3>1 DEF SourceState
    <3> QED
      BY <1>2, <2>2, <3>2 DEF Sound, Ordered, InRange
  <2> QED
    BY <2>1, <2>2
<1> HIDE DEF e
<1>4. /\ ds \in [Source -> SourceState] /\ ds'[s] = e
      /\ \A t \in Source : t # s => ds'[t] = ds[t]
  BY <1>1, <1>2 DEF IInv, TypeOK, e
<1>5. Attached' = {}
  BY <1>1, <1>3, <1>4 DEF Attached, IInv
<1>6. ds' \in [Source -> SourceState]
  BY <1>1, <1>2, <1>3, <1>4 DEF Sound, e
<1>7. TypeOK'
  BY <1>6 DEF ViewUnloads, settings, IInv, TypeOK
<1>8. app # "dead" /\ app' = app
  BY DEF ViewUnloads
<1>9. \A t \in Source : Sound(ds'[t]) /\ (ds'[t].isStarted => ds[t].isStarted)
  BY <1>3, <1>4 DEF IInv
<1> QED
  BY <1>5, <1>7, <1>8, <1>9 DEF IInv

LEMMA OnEnterBackgroundInv ==
    ASSUME IInv, OnEnterBackground PROVE IInv'
<1>1. \A s \in Source : ds'[s] = Stop(ds[s])
  BY DEF OnEnterBackground
<1>2. ASSUME NEW s \in Source
      PROVE  /\ Sound(ds'[s]) /\ ~ds'[s].isStarted
             /\ ds'[s].phase = "attached" =>
                   /\ ds[s].phase = "attached"
                   /\ ds'[s].wifiEnable = ds[s].wifiEnable /\ ds'[s].blind = ds[s].blind
                   /\ ds'[s].auto = ds[s].auto
                   /\ ds'[s].first = ds[s].first /\ ds'[s].ipEnd = ds[s].ipEnd
  <2> DEFINE d == ds[s]
             e == ds'[s]
  <2>1. /\ d \in SourceState /\ Ordered(d) /\ InRange(d)
        /\ d.sock \/ d.armed => d.isStarted
        /\ d.blind => d.wifiEnable
        /\ d.phase = "orphan" => d.isStarted
    BY DEF IInv, Sound
  <2>2. e = Stop(d)
    BY <1>1
  <2> HIDE DEF d, e
  <2>3. /\ e \in SourceState /\ Ordered(e) /\ InRange(e)
        /\ ~e.isStarted /\ ~e.sock /\ ~e.armed
        /\ e.phase # "orphan"
        /\ e = NoSource \/ ( /\ e.phase = d.phase /\ e.wifiEnable = d.wifiEnable
                             /\ e.blind = d.blind /\ e.auto = d.auto
                             /\ e.first = d.first /\ e.ipEnd = d.ipEnd)
    BY <2>1, <2>2, StopSound
  <2>4. NoSource.phase = "free" /\ ~NoSource.blind
    BY DEF NoSource
  <2>5. Sound(e)
    BY <2>1, <2>3, <2>4 DEF Sound
  <2> QED
    BY <2>3, <2>4, <2>5 DEF d, e
<1>3. ds' \in [Source -> SourceState]
  BY <1>2 DEF OnEnterBackground, Sound
<1>4. TypeOK'
  BY <1>3 DEF OnEnterBackground, settings, IInv, TypeOK
<1>5. \A s \in Attached' : s \in Attached
  BY <1>2 DEF Attached
<1>6. \A s \in Attached' : ~note' /\ ~ds'[s].blind => (ds'[s].wifiEnable <=> wifi')
  BY <1>2, <1>5 DEF OnEnterBackground, IInv, Attached
<1>7. app' = "background"
  BY DEF OnEnterBackground
<1>8. ~prefsNote' => \A s \in Attached' : Configured(ds[s])'
  BY <1>2, <1>5, SameSettings DEF OnEnterBackground, settings, IInv, Attached, Configured
<1>9. \A s, t \in Attached' : s = t
  BY <1>5 DEF IInv
<1> QED
  BY <1>2, <1>4, <1>6, <1>7, <1>8, <1>9 DEF IInv

LEMMA OnEnterForegroundInv ==
    ASSUME IInv, OnEnterForeground PROVE IInv'
<1>1. PICK ok \in [Source -> BOOLEAN] : ds' = [s \in Source |-> Start(ds[s], ok[s])]
  BY DEF OnEnterForeground
<1>2. ASSUME NEW s \in Source
      PROVE  /\ Sound(ds'[s]) /\ Keen(ds'[s])
             /\ ds'[s].phase = ds[s].phase
             /\ ds'[s].wifiEnable = ds[s].wifiEnable /\ ds'[s].blind = ds[s].blind
  <2>1. ds'[s] = Start(ds[s], ok[s]) /\ ok[s] \in BOOLEAN /\ Sound(ds[s])
    BY <1>1 DEF IInv
  <2> QED
    BY <2>1, StartSound
<1>3. ASSUME NEW s \in Source
      PROVE  ds'[s].auto = ds[s].auto /\ ds'[s].first = ds[s].first /\ ds'[s].ipEnd = ds[s].ipEnd
  <2>1. ds'[s] = Start(ds[s], ok[s]) /\ ok[s] \in BOOLEAN /\ Sound(ds[s])
    BY <1>1 DEF IInv
  <2> QED
    BY <2>1, StartSound
<1>4. ds' \in [Source -> SourceState]
  BY <1>1, <1>2 DEF Sound
<1>5. TypeOK'
  BY <1>4 DEF OnEnterForeground, settings, IInv, TypeOK
<1>6. Attached' = Attached
  BY <1>2 DEF Attached
<1>7. \A s \in Attached' : ~note' /\ ~ds'[s].blind => (ds'[s].wifiEnable <=> wifi')
  BY <1>2, <1>6 DEF OnEnterForeground, IInv, Attached
<1>8. ~prefsNote' => \A s \in Attached' : Configured(ds[s])'
  BY <1>3, <1>6, SameSettings DEF OnEnterForeground, settings, IInv, Attached, Configured
<1> QED
  BY <1>2, <1>5, <1>6, <1>7, <1>8 DEF OnEnterForeground, IInv, Attached

LEMMA ChangeSettingsInv ==
    ASSUME IInv, ChangeSettings PROVE IInv'
<1>1. UNCHANGED <<ds, registered, wifi, note, app, fault>>
  BY DEF ChangeSettings
<1>2. Attached' = Attached /\ Alive' = Alive
  BY <1>1 DEF Attached, Alive
<1>3. app # "active" /\ (app = "dead" => Attached = {}) /\ prefsNote' = (app = "background")
  BY DEF ChangeSettings, IInv, Alive, Attached
<1>4. TypeOK'
  <2>1. stored' \in [port : BOOLEAN, auto : {"unset", "on", "off"},
                     start : Text \cup {Unset}, stop : Text \cup {Unset}]
    BY DEF ChangeSettings, IInv, TypeOK
  <2>2. changes' \in Nat
    BY DEF ChangeSettings, IInv, TypeOK
  <2> QED
    BY <1>1, <1>3, <2>1, <2>2 DEF IInv, TypeOK
<1>5. ~prefsNote' => Attached' = {}
  BY <1>2, <1>3 DEF IInv, TypeOK
<1> QED
  BY <1>1, <1>2, <1>3, <1>4, <1>5 DEF IInv

LEMMA DefaultsChangedInv ==
    ASSUME DiscoveryAssumption, IInv, DefaultsChanged PROVE IInv'
<1>1. CASE Orphans # {} /\ Die("freed_source")
  BY <1>1, DieInv
<1>2. ASSUME NEW ok \in [Source -> BOOLEAN],
             ds' = [s \in Source |-> Restart(ds[s], ok[s])],
             app = "active", UNCHANGED <<settings, wifi, note, app, fault>>,
             prefsNote' = FALSE
      PROVE  IInv'
  <2>1. ASSUME NEW s \in Source
        PROVE  /\ Sound(ds'[s])
               /\ ds'[s].phase = "attached" =>
                     /\ ds[s].phase = "attached" /\ Keen(ds'[s]) /\ Configured(ds'[s])
                     /\ ds'[s].wifiEnable = ds[s].wifiEnable /\ ds'[s].blind = ds[s].blind
    <3>1. ds'[s] = Restart(ds[s], ok[s]) /\ ok[s] \in BOOLEAN /\ Sound(ds[s])
      BY <1>2 DEF IInv
    <3>2. CASE ds[s].phase = "free"
      BY <3>1, <3>2 DEF Restart
    <3>3. CASE ds[s].phase # "free"
      BY <3>1, <3>3, RestartSound DEF IInv
    <3> QED
      BY <3>2, <3>3
  <2>2. ds' \in [Source -> SourceState]
    BY <1>2, <2>1 DEF Sound
  <2>3. TypeOK'
    BY <1>2, <2>2 DEF settings, IInv, TypeOK
  <2>4. \A s \in Attached' : s \in Attached
    BY <2>1 DEF Attached
  <2>5. \A s \in Attached' : ~note' /\ ~ds'[s].blind => (ds'[s].wifiEnable <=> wifi')
    BY <1>2, <2>1, <2>4 DEF IInv, Attached
  <2>6. \A s \in Attached' : Configured(ds[s])'
    BY <1>2, <2>1, SameSettings DEF settings, Attached, Configured
  <2>7. \A s \in Attached' : Keen(ds[s])'
    BY <2>1 DEF Attached, Keen
  <2> QED
    BY <1>2, <2>1, <2>3, <2>4, <2>5, <2>6, <2>7 DEF IInv
<1> QED
  BY <1>1, <1>2 DEF DefaultsChanged

LEMMA WifiChangesInv ==
    ASSUME IInv, WifiChanges PROVE IInv'
<1>1. Attached' = Attached /\ Alive' = Alive
  BY DEF WifiChanges, Attached, Alive
<1>2. TypeOK'
  BY DEF WifiChanges, settings, IInv, TypeOK
<1>3. ~prefsNote' => \A s \in Attached' : Configured(ds[s])'
  BY <1>1, SameSettings DEF WifiChanges, settings, IInv, Configured
<1>4. ~note' => Attached' = {}
  BY <1>1 DEF WifiChanges
<1> QED
  BY <1>1, <1>2, <1>3, <1>4 DEF WifiChanges, IInv

LEMMA ReachabilityChangedInv ==
    ASSUME IInv, ReachabilityChanged PROVE IInv'
<1>1. PICK ok \in [Source -> BOOLEAN] : ds' = [s \in Source |-> HearWifi(ds[s], ok[s])]
  BY DEF ReachabilityChanged
<1>2. ASSUME NEW s \in Source
      PROVE  /\ Sound(ds'[s])
             /\ ds'[s].phase = "attached" =>
                   /\ ds[s].phase = "attached" /\ Keen(ds'[s])
                   /\ (ds'[s].wifiEnable <=> wifi)
                   /\ Configured(ds[s]) => Configured(ds'[s])
  <2>1. ds'[s] = HearWifi(ds[s], ok[s]) /\ ok[s] \in BOOLEAN /\ Sound(ds[s])
    BY <1>1 DEF IInv
  <2>2. CASE ds[s].phase = "free"
    BY <2>1, <2>2 DEF HearWifi
  <2>3. CASE ds[s].phase # "free"
    BY <2>1, <2>3, HearWifiSound DEF IInv
  <2> QED
    BY <2>2, <2>3
<1>3. ds' \in [Source -> SourceState]
  BY <1>1, <1>2 DEF Sound
<1>4. TypeOK'
  BY <1>3 DEF ReachabilityChanged, settings, IInv, TypeOK
<1>5. \A s \in Attached' : s \in Attached /\ (ds'[s].wifiEnable <=> wifi')
  BY <1>2 DEF ReachabilityChanged, Attached
<1>6. ~prefsNote' => \A s \in Attached' : Configured(ds[s])'
  BY <1>2, <1>5, SameSettings
     DEF ReachabilityChanged, settings, IInv, Attached, Configured
<1>7. \A s \in Attached' : Keen(ds[s])'
  BY <1>2 DEF Attached, Keen
<1> QED
  BY <1>2, <1>4, <1>5, <1>6, <1>7 DEF ReachabilityChanged, IInv

(* A callback of one data source that keeps its settings and its view.      *)
LEMMA OneSourceInv ==
    ASSUME IInv, NEW s \in Source, NEW e, ds' = [ds EXCEPT ![s] = e], Sound(e),
           UNCHANGED <<settings, prefsNote, wifi, note, app, fault>>,
           app = "active",
           e.phase # "free" =>
              /\ Keen(ds[s]) => Keen(e)
              /\ e.phase = ds[s].phase /\ e.wifiEnable = ds[s].wifiEnable
              /\ e.blind = ds[s].blind /\ e.auto = ds[s].auto
              /\ e.first = ds[s].first /\ e.ipEnd = ds[s].ipEnd
    PROVE  IInv'
<1>1. /\ ds \in [Source -> SourceState] /\ ds'[s] = e
      /\ \A t \in Source : t # s => ds'[t] = ds[t]
  BY DEF IInv, TypeOK
<1>2. ds' \in [Source -> SourceState]
  BY <1>1 DEF Sound
<1>3. TypeOK'
  BY <1>2 DEF settings, IInv, TypeOK
<1>4. \A t \in Attached' :
         /\ t \in Attached /\ (Keen(ds[t]) => Keen(ds'[t]))
         /\ ds'[t].wifiEnable = ds[t].wifiEnable /\ ds'[t].blind = ds[t].blind
         /\ ds'[t].auto = ds[t].auto
         /\ ds'[t].first = ds[t].first /\ ds'[t].ipEnd = ds[t].ipEnd
  BY <1>1 DEF Attached
<1>5. ~prefsNote' => \A t \in Attached' : Configured(ds[t])'
  BY <1>4, SameSettings DEF settings, IInv, Configured
<1>6. \A t \in Attached' : Keen(ds[t])'
  BY <1>4 DEF IInv, Keen
<1>7. \A t \in Source : Sound(ds'[t])
  BY <1>1 DEF IInv
<1> QED
  BY <1>3, <1>4, <1>5, <1>6, <1>7 DEF IInv

LEMMA OnTimerInv ==
    ASSUME IInv, NEW s \in Source, OnTimer(s) PROVE IInv'
<1>1. CASE Die("null_socket")
  BY <1>1, DieInv
<1>2. CASE ds[s].sock /\ ds' = [ds EXCEPT ![s].armed = BeforeEnd(ds[s]) \/ @]
           /\ UNCHANGED <<settings, prefsNote, wifi, note, app, fault>>
  <2> DEFINE d == ds[s]
             e == [d EXCEPT !.armed = BeforeEnd(d) \/ @]
  <2>1. d \in SourceState /\ Sound(d) /\ d.isStarted
    BY DEF IInv, Sound, OnTimer
  <2>2. BeforeEnd(d) \in BOOLEAN
    BY DEF BeforeEnd
  <2>3. /\ e \in SourceState
        /\ e.phase = d.phase /\ e.wifiEnable = d.wifiEnable
        /\ e.blind = d.blind /\ e.auto = d.auto /\ e.gaveUp = d.gaveUp
        /\ e.first = d.first /\ e.ipEnd = d.ipEnd /\ e.ipBeg = d.ipBeg
        /\ e.probes = d.probes /\ e.isStarted = d.isStarted /\ e.sock = d.sock
    BY <2>1, <2>2 DEF SourceState
  <2>4. ds' = [ds EXCEPT ![s] = e]
    BY <1>2 DEF IInv, TypeOK
  <2> HIDE DEF e
  <2>5. Sound(e) /\ Keen(e)
    BY <2>1, <2>3 DEF Sound, Keen, Ordered, InRange
  <2> QED
    BY <1>2, <2>3, <2>4, <2>5, OneSourceInv DEF OnTimer
<1> QED
  BY <1>1, <1>2 DEF OnTimer

LEMMA OnWriteCallbackInv ==
    ASSUME IInv, NEW s \in Source, OnWriteCallback(s) PROVE IInv'
<1>1. CASE Die("freed_source")
  BY <1>1, DieInv
<1>2. CASE ds' = [ds EXCEPT ![s] = NoSource]
           /\ UNCHANGED <<settings, prefsNote, wifi, note, app, fault>>
  BY <1>2, NoSourceSound, OneSourceInv DEF OnWriteCallback
<1>3. ASSUME NEW answer \in Answer,
             ~(ds[s].phase = "orphan" /\ answer = "fatal" /\ BeforeEnd(ds[s])),
             ds' = [ds EXCEPT ![s] = HandleWrite(@, answer)],
             UNCHANGED <<settings, prefsNote, wifi, note, app, fault>>
      PROVE  IInv'
  <2> DEFINE e == HandleWrite(ds[s], answer)
  <2>1. Sound(ds[s]) /\ ds[s].armed /\ app = "active"
    BY DEF IInv, OnWriteCallback
  <2>2. /\ Sound(e) /\ (Keen(ds[s]) => Keen(e))
        /\ e.phase = ds[s].phase /\ e.wifiEnable = ds[s].wifiEnable
        /\ e.blind = ds[s].blind /\ e.auto = ds[s].auto
        /\ e.first = ds[s].first /\ e.ipEnd = ds[s].ipEnd
    BY <1>3, <2>1, HandleWriteSound
  <2>3. ds' = [ds EXCEPT ![s] = e]
    BY <1>3 DEF IInv, TypeOK
  <2> HIDE DEF e
  <2> QED
    BY <1>3, <2>1, <2>2, <2>3, OneSourceInv
<1> QED
  BY <1>1, <1>2, <1>3 DEF OnWriteCallback

LEMMA OnReadCallbackInv ==
    ASSUME IInv, NEW s \in Source, OnReadCallback(s) PROVE IInv'
<1>1. CASE Die("freed_view")
  BY <1>1, DieInv
<1>2. ASSUME NEW c \in Computer,
             ds' = [ds EXCEPT ![s].discovered = @ \cup {c}],
             UNCHANGED <<settings, prefsNote, wifi, note, app, fault>>
      PROVE  IInv'
  <2> DEFINE d == ds[s]
             e == [d EXCEPT !.discovered = @ \cup {c}]
  <2>1. d \in SourceState /\ Sound(d) /\ app = "active"
    BY DEF IInv, Sound, OnReadCallback
  <2>2. /\ e \in SourceState
        /\ e.phase = d.phase /\ e.wifiEnable = d.wifiEnable
        /\ e.blind = d.blind /\ e.auto = d.auto /\ e.gaveUp = d.gaveUp
        /\ e.first = d.first /\ e.ipEnd = d.ipEnd /\ e.ipBeg = d.ipBeg
        /\ e.probes = d.probes /\ e.isStarted = d.isStarted /\ e.sock = d.sock
        /\ e.armed = d.armed
    <3>1. d.discovered \cup {c} \in SUBSET Computer
      BY <2>1 DEF SourceState
    <3> QED
      BY <2>1, <3>1 DEF SourceState
  <2>3. ds' = [ds EXCEPT ![s] = e]
    BY <1>2 DEF IInv, TypeOK
  <2> HIDE DEF e
  <2>4. Sound(e) /\ (Keen(d) => Keen(e))
    BY <2>1, <2>2 DEF Sound, Keen, Ordered, InRange
  <2> QED
    BY <1>2, <2>1, <2>2, <2>3, <2>4, OneSourceInv
<1> QED
  BY <1>1, <1>2 DEF OnReadCallback

(* Each action keeps the invariant.                                         *)
LEMMA NextInv ==
    ASSUME DiscoveryAssumption, IInv, [Next]_vars PROVE IInv'
<1>1. CASE UNCHANGED vars
  BY <1>1 DEF vars, IInv, TypeOK, Attached, Alive, Sound, Keen, Configured,
              AutoSetting, RangeStart, RangeStop, HasRange
<1>2. CASE Environment
  <2>1. KilledInBackground => IInv'
    BY DieInv DEF KilledInBackground
  <2> QED
    BY <1>2, <2>1, LaunchInv, ViewLoadsInv, ViewUnloadsInv, ChangeSettingsInv,
       WifiChangesInv DEF Environment
<1>3. CASE Notification
  BY <1>3, OnEnterBackgroundInv, OnEnterForegroundInv, DefaultsChangedInv,
     ReachabilityChangedInv DEF Notification
<1>4. CASE Sweep
  BY <1>4, OnTimerInv, OnWriteCallbackInv, OnReadCallbackInv DEF Sweep
<1> QED
  BY <1>1, <1>2, <1>3, <1>4 DEF Next

-----------------------------------------------------------------------------
(* The inductive invariant holds in every reachable state.                  *)
THEOREM DiscoveryInvariant == Spec => []IInv
<1>1. Init => IInv
  BY InitInv, DiscoveryAssumption
<1>2. IInv /\ [Next]_vars => IInv'
  BY NextInv, DiscoveryAssumption
<1> QED
  BY <1>1, <1>2, PTL DEF Spec

(* Every variable has its type (loadConfig, start, stop and the handlers).  *)
THEOREM DiscoveryTypes == Spec => []TypeOK
<1>1. IInv => TypeOK
  BY DEF IInv
<1> QED
  BY <1>1, DiscoveryInvariant, PTL

(* handle_write asks each address of the range once, in numeric order, for  *)
(* every range of addresses and however often start and stop are called.    *)
THEOREM SweepsInOrder == Spec => []SweepInOrder
<1>1. IInv => SweepInOrder
  BY DEF IInv, Sound, SweepInOrder
<1> QED
  BY <1>1, DiscoveryInvariant, PTL

(* handle_write never asks past ip_end and never wraps around.              *)
THEOREM SweepsInRange == Spec => []SweepStaysInRange
<1>1. IInv => SweepStaysInRange
  BY DEF IInv, Sound, SweepStaysInRange
<1> QED
  BY <1>1, DiscoveryInvariant, PTL

(* reachabilityChanged keeps a sweep from running without Wifi, but for the *)
(* data sources that init told it was up.                                   *)
THEOREM SweepsWithWifi == Spec => []SweepNeedsWifi
<1>1. IInv => SweepNeedsWifi
  BY DEF IInv, Sound, SweepNeedsWifi, Attached
<1> QED
  BY <1>1, DiscoveryInvariant, PTL

(* After every notification start has been called where it should be.       *)
THEOREM SweepsWhenItMay == Spec => []SweepRunsWhenItMay
<1>1. ASSUME IInv PROVE SweepRunsWhenItMay
  <2>1. ASSUME NEW s \in Attached, app = "active", wifi, ~note, ds[s].auto
        PROVE  ds[s].isStarted \/ ds[s].gaveUp
    <3>1. Keen(ds[s]) /\ Sound(ds[s]) /\ (~ds[s].blind => ds[s].wifiEnable)
      BY <1>1, <2>1 DEF IInv, Attached
    <3> QED
      BY <2>1, <3>1 DEF Keen, Sound
  <2> QED
    BY <2>1 DEF SweepRunsWhenItMay
<1> QED
  BY <1>1, DiscoveryInvariant, PTL

(* A data source works with the current settings (loadConfig,               *)
(* defaultsChanged).                                                        *)
THEOREM SettingsAreApplied == Spec => []SettingsApplied
<1>1. IInv => SettingsApplied
  BY DEF IInv, Sound, SettingsApplied, Configured, Attached
<1> QED
  BY <1>1, DiscoveryInvariant, PTL

(* What viewDidUnload orphans lives on its timer, until the background.     *)
THEOREM OrphansEnd == Spec => []OrphansAreTemporary
<1>1. IInv => OrphansAreTemporary
  BY DEF IInv, Sound, OrphansAreTemporary, Orphans
<1> QED
  BY <1>1, DiscoveryInvariant, PTL
=============================================================================

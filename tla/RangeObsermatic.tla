-------------------------- MODULE RangeObsermatic --------------------------
(***************************************************************************)
(* The range obsermatic of the range module: it watches the channels for   *)
(* overload, chooses ranges automatically, keeps the channels of a group   *)
(* in one range, and sets ranges at the PCB server.  Each channel has a    *)
(* connection of its own to the server: requests of a channel are answered *)
(* in order, those of different channels in any order.                     *)
(*                                                                         *)
(* An action is one slot of cRangeObsermatic with all it calls.  A request *)
(* is carried out by the server at the moment its answer is handled here:  *)
(* nobody can tell an earlier moment from it.                              *)
(***************************************************************************)
EXTENDS Naturals, Sequences, FiniteSets

CONSTANTS
  ChannelCount,         \* m_RangeMeasChannelList.count()
  GroupList,            \* m_GroupList: a set of disjoint sets of channels
  Alias,                \* all range aliases, those of clamps included
  Limit,                \* [Alias -> Nat]: urvalue * ovrejection / rejection
  Type,                 \* [Alias -> range types]
  Internal,             \* the ranges every channel has without a clamp
  ClampRanges,          \* [Channel -> SUBSET Alias]: what a clamp at the channel adds
  Plugged,              \* the channels with a clamp at the start
  ConfRange,            \* the range of every channel in the configuration file
  Level,                \* loads [rms, peak]; peak as the rms value of a sine with that peak
  OverloadWrites,       \* what clients write to PAR_Overload
  MaxLine,              \* bound: no new requests while a channel has so many under way
  MaxChanges,           \* bound: changes of load, clamps and parameters
  Unknown               \* "Unkown", the value of a range parameter before the first answer

Channel == 1 .. ChannelCount

ASSUME RangeAssumption ==
  /\ ChannelCount \in Nat \ {0}
  /\ \A g \in GroupList : g # {} /\ g \subseteq Channel
  /\ \A g, h \in GroupList : g = h \/ g \cap h = {}
  /\ IsFiniteSet(Alias)
  /\ Limit \in [Alias -> Nat \ {0}]
  /\ \A r, q \in Alias : Limit[r] = Limit[q] => r = q
  /\ DOMAIN Type = Alias
  /\ Internal \subseteq Alias
  /\ ClampRanges \in [Channel -> SUBSET Alias]
  /\ Plugged \subseteq Channel
  /\ ConfRange \in Internal
  /\ Level \subseteq [rms : Nat, peak : Nat]
  /\ OverloadWrites \subseteq BOOLEAN
  /\ Unknown \notin Alias
  /\ MaxLine \in Nat /\ MaxChanges \in Nat

VARIABLES
  obs,                  \* the obsermatic and its channels, see Obsermatic
  line,                 \* [Channel -> Seq(Request)]: requests not answered yet
  hwRange,              \* [Channel -> Alias]: the range the hardware is in
  latched,              \* [Channel -> BOOLEAN]: the hardware's overload bit
  level,                \* [Channel -> Level]: the load at the terminals
  changes               \* changes of load, clamps and parameters so far

environment == <<hwRange, latched, level>>
vars == <<obs, line, environment, changes>>

Flags == [Channel -> BOOLEAN]

Obsermatic ==
  [ranges : [Channel -> SUBSET Alias],              \* keys of m_RangeInfoHash
   conf : [Channel -> Alias],                       \* m_ConfPar's current ranges
   actRange : [Channel -> Alias],                   \* m_actChannelRangeList, m_sActRange
   rangePar : [Channel -> Alias \cup {Unknown}],    \* PAR_ChannelNRange
   status : Flags,                                  \* isHWOverload()
   softOvl : Flags,                                 \* m_softOvlList, SIG_ChannelNOVL
   hardOvl : Flags, groupOvl : Flags, maxOvl : Flags,
   rangeAuto : BOOLEAN, grouping : BOOLEAN,
   overload : BOOLEAN,                              \* PAR_Overload
   overloadMax : BOOLEAN,                           \* INF_OverloadMax
   ranging : BOOLEAN,                               \* SIG_Ranging
   rangeSetManual : BOOLEAN,
   rangeSetPending : Nat, readStatusPending : Nat, waitAfterRanging : 0 .. 1]

Request == {<<"setrange", r>> : r \in Alias} \cup {<<"resetstatus">>, <<"readstatus">>}

all(value) == [c \in Channel |-> value]

rangesOf(c, plugged) == IF plugged THEN Internal \cup ClampRanges[c] ELSE Internal

\* onActivationDone: setRanges(true), not active yet, so no status is read.
Init ==
  /\ \E rangeAuto, grouping \in BOOLEAN :
       obs = [ranges |-> [c \in Channel |-> rangesOf(c, c \in Plugged)],
              conf |-> all(ConfRange), actRange |-> all(ConfRange),
              rangePar |-> all(Unknown), status |-> all(FALSE), softOvl |-> all(FALSE),
              hardOvl |-> all(FALSE), groupOvl |-> all(FALSE), maxOvl |-> all(FALSE),
              rangeAuto |-> rangeAuto, grouping |-> grouping, overload |-> FALSE,
              overloadMax |-> FALSE, ranging |-> TRUE, rangeSetManual |-> FALSE,
              rangeSetPending |-> ChannelCount, readStatusPending |-> 0, waitAfterRanging |-> 0]
  /\ line = all(<< <<"setrange", ConfRange>>, <<"resetstatus">> >>)
  /\ hwRange = all(ConfRange)
  /\ latched = all(FALSE)
  /\ \E l \in Level : level = all(l)
  /\ changes = 0

-----------------------------------------------------------------------------
(* cRangeMeasChannel: which range for which load *)

enterRangeLimit == 95   \* percent of a range's limit
keepRangeLimit == 99

highest(rs) == CHOOSE r \in rs : \A q \in rs : Limit[q] <= Limit[r]
lowest(rs) == CHOOSE r \in rs : \A q \in rs : Limit[r] <= Limit[q]

\* The ranges of the type of r; if the channel has no range r, of the type of the
\* range set; none if that is gone as well.
ofTypeOf(s, c, r) ==
  LET known == IF r \in s.ranges[c] THEN r ELSE s.actRange[c]
  IN  {q \in s.ranges[c] : known \in s.ranges[c] /\ Type[q] = Type[known]}

getMaxRange(s, c, r) ==
  LET rs == ofTypeOf(s, c, r) IN highest(IF rs = {} THEN s.ranges[c] ELSE rs)

isOverload(s, c) ==
  Limit[s.actRange[c]] < level[c].rms \/ Limit[s.actRange[c]] < level[c].peak

\* A value in the hysteresis area keeps its range.
findOptimalRange(s, c, r, value) ==
  LET enterable == {q \in ofTypeOf(s, c, r) : 100 * value <= enterRangeLimit * Limit[q]}
      inHysteresis == /\ enterRangeLimit * Limit[r] < 100 * value
                      /\ 100 * value < keepRangeLimit * Limit[r]
  IN  CASE r \in s.ranges[c] /\ inHysteresis -> r
        [] ~(r \in s.ranges[c] /\ inHysteresis) /\ enterable # {} -> lowest(enterable)
        [] OTHER -> getMaxRange(s, c, r)

getOptimalRange(s, c, r) ==
  highest({findOptimalRange(s, c, r, level[c].rms), findOptimalRange(s, c, r, level[c].peak)})

-----------------------------------------------------------------------------
(* cRangeObsermatic: the parts of the handlers, from one state s to the next *)

\* observeRangeOverload, handleOverload, setOverloadVeinComponent
observeRangeOverload(s) ==
  LET over == {c \in Channel : s.hardOvl[c] \/ isOverload(s, c)}
      inMax == {c \in over : s.actRange[c] = getMaxRange(s, c, s.conf[c])}
  IN  [s EXCEPT
         !.conf = [c \in Channel |-> IF c \in over THEN getMaxRange(s, c, s.conf[c]) ELSE @[c]],
         !.softOvl = [c \in Channel |-> c \in over],
         !.maxOvl = [c \in Channel |-> @[c] \/ c \in inMax],
         !.overloadMax = @ \/ inMax # {},
         !.overload = over # {} \/ (@ /\ ~s.rangeSetManual),
         !.rangeSetManual = FALSE]

rangeAutomatic(s) ==
  LET chooses(c) == ~s.maxOvl[c] /\ ~s.hardOvl[c] /\ ~s.softOvl[c]
      recovered == \A c \in Channel : ~s.maxOvl[c] /\ ~s.hardOvl[c]
  IN  IF ~s.rangeAuto THEN s
      ELSE [s EXCEPT
              !.conf = [c \in Channel |-> IF chooses(c) THEN getOptimalRange(s, c, @[c]) ELSE @[c]],
              !.overload = @ /\ ~recovered]

\* rangeAutomatic resets these channels at once.
automaticResets(s) == {c \in Channel : s.rangeAuto /\ ~s.maxOvl[c] /\ s.hardOvl[c]}

requiresOverloadReset(s, c) ==
  (s.hardOvl[c] \/ s.softOvl[c]) /\ (~s.rangeAuto \/ ~s.maxOvl[c])

\* The ranges in the group g all its channels support.
common(s, g) == {r \in {s.conf[c] : c \in g} : \A c \in g : r \in s.ranges[c]}

\* Faulty: the group follows the channel with the lowest range
groupRangeLowest(s, g) == IF common(s, g) # {} THEN lowest(common(s, g)) ELSE s.conf[1]

\* The code's maxIndex starts with 0: without a common range channel 1 leads any
\* group; its own group is the first in the list.
groupRange(s, g) ==
  LET first == {h \in GroupList : 1 \in h /\ common(s, h) # {}}
  IN  CASE common(s, g) # {} -> highest(common(s, g))
        [] common(s, g) = {} /\ first # {} -> highest(UNION {common(s, h) : h \in first})
        [] OTHER -> s.conf[1]

groupHandling(s) ==
  LET groupsOf(c) == {g \in GroupList : s.grouping /\ c \in g}
  IN  [s EXCEPT
         !.conf = [c \in Channel |->
                     IF groupsOf(c) = {} THEN @[c]
                     ELSE groupRange(s, CHOOSE g \in groupsOf(c) : TRUE)],
         !.groupOvl = [c \in Channel |->
                         \E g \in groupsOf(c) : \E k \in g : requiresOverloadReset(s, k)]]

\* The range setRanges sets: the one wanted if it is possible.
possible(s, c) ==
  IF s.conf[c] \in s.ranges[c] THEN s.conf[c] ELSE getMaxRange(s, c, s.conf[c])

changed(s, force) == {c \in Channel : force \/ possible(s, c) # s.actRange[c]}

\* Faulty: counts once, like SIG_Ranging is set
newPendingOnce(change) == IF change = {} THEN 0 ELSE 1

newPending(change) == Cardinality(change)

\* Faulty: the configuration keeps a range that is gone
confSetAsWanted(s) == s.conf

confSet(s) == [c \in Channel |-> possible(s, c)]

\* setRanges, ending with readStatus; the channels in resets were reset before.
setRanges(s, force, resets) ==
  LET change == changed(s, force)
      reset == {c \in change : force \/ s.groupOvl[c] \/ requiresOverloadReset(s, c)}
      request(S, c, r) == IF c \in S THEN <<r>> ELSE <<>>
  IN  /\ obs' = [s EXCEPT
           !.conf = confSet(s),
           !.actRange = [c \in Channel |-> possible(s, c)],
           !.ranging = @ \/ change # {},
           !.rangeSetPending = @ + newPending(change),
           !.hardOvl = [c \in Channel |-> @[c] /\ c \notin reset],
           !.maxOvl = [c \in Channel |-> @[c] /\ c \notin reset],
           !.groupOvl = [c \in Channel |-> @[c] /\ c \notin reset],
           !.overloadMax = @ /\ reset = {},
           !.readStatusPending = @ + ChannelCount]
      /\ line' = [c \in Channel |->
           line[c] \o request(resets, c, <<"resetstatus">>)
                   \o request(change, c, <<"setrange", possible(s, c)>>)
                   \o request(reset, c, <<"resetstatus">>)
                   \o << <<"readstatus">> >>]

\* Faulty: believes each status as it comes
analyzeStatusAtOnce(s) == [s EXCEPT !.hardOvl = s.status]

\* analyzeStatus, when the last status asked for is there
analyzeStatus(s) ==
  IF s.readStatusPending > 0 THEN s ELSE [s EXCEPT !.hardOvl = s.status]

-----------------------------------------------------------------------------
(* Slots *)

\* MaxLine: clients and measurements pause while many requests are under way.  A setrange
\* is always followed by a readstatus or resetstatus: from 3 on they meet ranges being set.
room == \A c \in Channel : Len(line[c]) < MaxLine

changesNow == changes < MaxChanges /\ changes' = changes + 1

\* observeRangeOverload, rangeAutomatic and groupHandling one after the other: the
\* states after the first and after the last of them.
evaluations(s) ==
  UNION {{[observed |-> o, final |-> groupHandling(a)] : a \in {rangeAutomatic(o)}} :
           o \in {observeRangeOverload(s)}}

\* Faulty: forgets that waiting has an end
waitsAlways(s) == TRUE

waits(s) == s.waitAfterRanging > 0

\* New actual values: nothing while ranges are set, nothing once after that.
ActionHandler ==
  /\ room
  /\ obs.rangeSetPending = 0
  /\ UNCHANGED <<environment, changes>>
  /\ \/ /\ waits(obs)
        /\ obs' = [obs EXCEPT !.waitAfterRanging = @ - 1]
        /\ UNCHANGED line
     \/ /\ ~waits(obs)
        /\ \E e \in evaluations(obs) :
             setRanges(e.final, FALSE, automaticResets(e.observed))

\* A client chooses a range.  The parameter's validator knows the channel's ranges.
\* If a channel of the group has no such range grouping is switched off.
onNewRange(c, r) ==
  LET groups == {g \in GroupList : obs.grouping /\ c \in g}
      chosen == IF groups = {} THEN {c} ELSE UNION groups
      able == {k \in chosen : r \in obs.ranges[k]}
  IN  /\ room
      /\ changesNow
      /\ r \in obs.ranges[c]
      /\ r # obs.rangePar[c]
      /\ setRanges([obs EXCEPT !.conf = [k \in Channel |-> IF k \in able THEN r ELSE @[k]],
                               !.rangeSetManual = TRUE,
                               !.grouping = @ /\ able = chosen], FALSE, {})
      /\ UNCHANGED environment

newRangeAuto(on) ==
  LET s == [obs EXCEPT !.rangeAuto = on] IN
  /\ room
  /\ changesNow
  /\ IF on
     THEN \E a \in {rangeAutomatic(s)} : \E g \in {groupHandling(a)} :
            setRanges(g, FALSE, automaticResets(s))
     ELSE obs' = s /\ UNCHANGED line
  /\ UNCHANGED environment

newGrouping(on) ==
  LET s == [obs EXCEPT !.grouping = on] IN
  /\ room
  /\ changesNow
  /\ IF on THEN setRanges(groupHandling(s), FALSE, {}) ELSE obs' = s /\ UNCHANGED line
  /\ UNCHANGED environment

\* Whatever is written, PAR_Overload is FALSE in the end.
onVeinChangeOverload(overload) ==
  LET s == [obs EXCEPT !.overload = FALSE] IN
  /\ room
  /\ changesNow
  /\ IF overload THEN obs' = s /\ UNCHANGED line ELSE setRanges(s, TRUE, {})
  /\ UNCHANGED environment

\* The factors themselves are part of level.
preScalingChanged ==
  /\ room
  /\ changesNow
  /\ setRanges(obs, TRUE, {})
  /\ UNCHANGED environment

\* A clamp was plugged in or pulled out, and the channel has read its ranges anew.
catchChannelNewRangeList(c, plugged) ==
  LET rs == rangesOf(c, plugged) IN
  /\ room
  /\ changesNow
  /\ rs # obs.ranges[c]
  /\ setRanges([obs EXCEPT !.ranges[c] = rs], TRUE, {})
  /\ UNCHANGED environment

\* The answer to the oldest request of channel c.  The server refuses a range that
\* is gone; the answer counts all the same.
catchChannelReply(c) ==
  /\ line[c] # <<>>
  /\ line' = [line EXCEPT ![c] = Tail(@)]
  /\ LET request == Head(line[c]) IN
     \/ /\ request[1] = "setrange"
        /\ LET last == obs.rangeSetPending = 1 IN
           obs' = [obs EXCEPT !.rangePar[c] = obs.actRange[c],
                              !.rangeSetPending = @ - 1,
                              !.ranging = @ /\ ~last,
                              !.waitAfterRanging = IF last THEN 1 ELSE @]
        /\ hwRange' = IF request[2] \in obs.ranges[c]
                      THEN [hwRange EXCEPT ![c] = request[2]] ELSE hwRange
        /\ UNCHANGED latched
     \/ /\ request[1] = "resetstatus"
        /\ latched' = [latched EXCEPT ![c] = FALSE]
        /\ UNCHANGED <<obs, hwRange>>
     \/ /\ request[1] = "readstatus"
        /\ obs' = analyzeStatus([obs EXCEPT !.status[c] = latched[c],
                                            !.readStatusPending = @ - 1])
        /\ UNCHANGED <<hwRange, latched>>
  /\ UNCHANGED <<level, changes>>

-----------------------------------------------------------------------------
(* The surroundings *)

\* The hardware notices an overload of the range it is in, sooner or later.
hardwareLatches(c) ==
  /\ ~latched[c]
  /\ Limit[hwRange[c]] < level[c].rms \/ Limit[hwRange[c]] < level[c].peak
  /\ latched' = [latched EXCEPT ![c] = TRUE]
  /\ UNCHANGED <<obs, line, hwRange, level, changes>>

loadChanges(c, l) ==
  /\ l # level[c]
  /\ changesNow
  /\ level' = [level EXCEPT ![c] = l]
  /\ UNCHANGED <<obs, line, hwRange, latched>>

ParameterWritten ==
  \/ \E c \in Channel, r \in Alias : onNewRange(c, r)
  \/ \E on \in BOOLEAN : newRangeAuto(on) \/ newGrouping(on)
  \/ \E overload \in OverloadWrites : onVeinChangeOverload(overload)
  \/ preScalingChanged

Next ==
  \/ ActionHandler
  \/ \E c \in Channel : catchChannelReply(c)
  \/ ParameterWritten
  \/ \E c \in Channel, plugged \in BOOLEAN : catchChannelNewRangeList(c, plugged)
  \/ \E c \in Channel : hardwareLatches(c)
  \/ \E c \in Channel, l \in Level : loadChanges(c, l)

Spec == Init /\ [][Next]_vars

\* The DSP keeps measuring, the PCB server answers every channel: weak fairness, with what
\* enables the two written out.
FairSpec ==
  /\ Spec
  /\ []<>~(room /\ obs.rangeSetPending = 0) \/ []<><<ActionHandler>>_vars
  /\ \A c \in Channel : []<>(line[c] = <<>>) \/ []<><<catchChannelReply(c)>>_vars

-----------------------------------------------------------------------------
(* Properties *)

TypeOK ==
  /\ obs \in Obsermatic
  /\ line \in [Channel -> Seq(Request)]
  /\ hwRange \in [Channel -> Alias]
  /\ latched \in Flags
  /\ level \in [Channel -> Level]
  /\ changes \in 0 .. MaxChanges

underWay(cmd) == UNION {{c} \X {i \in 1 .. Len(line[c]) : line[c][i][1] = cmd} : c \in Channel}

\* m_nRangeSetPending and m_nReadStatusPending count the requests under way, over
\* all interleavings of answers and new requests, and SIG_Ranging is on just as long.
CountersMatch ==
  /\ obs.rangeSetPending = Cardinality(underWay("setrange"))
  /\ obs.readStatusPending = Cardinality(underWay("readstatus"))
  /\ obs.ranging = (obs.rangeSetPending > 0)

\* Deferred notification: when no range is being set, clients see the ranges the
\* hardware is in, and these are the ones to be saved in the configuration.
QuietMeansSet ==
  obs.rangeSetPending = 0 =>
    /\ obs.rangePar = obs.actRange
    /\ hwRange = obs.actRange
    /\ obs.conf = obs.actRange

\* analyzeStatus believes no status that is older than a range change or a reset
\* (comment at the end of setRanges).
StatusIsFresh ==
  [][\A c \in Channel :
       ~obs.hardOvl[c] /\ obs'.hardOvl[c] =>
         underWay("setrange")' = {} /\ underWay("resetstatus")' = {}]_vars

\* A channel the range automatic keeps its hands off, after an overload in its maximum
\* range, can be told from PAR_Overload or INF_OverloadMax: the user has to reset it
\* (comment in groupHandling).
StoppedIsShown ==
  (\E c \in Channel : obs.rangeAuto /\ obs.maxOvl[c]) => obs.overload \/ obs.overloadMax

Relieved(c) == obs.maxOvl[c] \/ (~isOverload(obs, c) /\ ~obs.hardOvl[c])

Settled ==
  /\ obs.rangeSetPending = 0
  /\ \A e \in evaluations(obs) : changed(e.final, FALSE) = {}
  /\ obs.rangeAuto => \A c \in Channel : Relieved(c)

\* Under a constant load ranges do not oscillate, and the automatic leaves no
\* channel overloaded unless it was stopped by an overload in the maximum range.
\* Nor is overload reset over and over again (requiresOverloadReset).
Settles == <>[](Settled /\ underWay("resetstatus") = {})
=============================================================================

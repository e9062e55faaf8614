------------------------------- MODULE Combat -------------------------------
(* CombatManager and ThreatManager (game/Combat): the references between     *)
(* units that fight, the threat lists of creatures, and the scripts that are *)
(* called while both change.                                                 *)
(*                                                                           *)
(* One thread updates a map, so nothing runs in parallel; what makes this    *)
(* code hard is re-entrance.  A threat list notifies its creature's AI, and  *)
(* the script may call back into the managers that are in the middle of      *)
(* something.  stack is the call stack, the innermost call first; a step is  *)
(* what one call does up to the next call that may run a script.             *)
(*                                                                           *)
(* The amounts of threat are left out: which of the available targets a      *)
(* creature selects is a choice.  Creatures have threat lists (no pets, no   *)
(* totems), players have none.  The scripts are those of JustEngagedWith;    *)
(* JustEnteredCombat and JustExitedCombat do nothing for such creatures.     *)
(* Bound: a script engages MaxActs times.                                    *)
EXTENDS Naturals, Sequences

CONSTANTS Creatures, Players, None,
          Enemies,     \* the sets {a, b} of units that are hostile to each other
          MayHide,     \* the players that can become invisible
          Missiles,    \* the pairs of a caster and its target
          Mortals,     \* the units that can die or leave the map
          MaxActs

Units == Creatures \cup Players

ASSUME CombatAssumption ==
  /\ None \notin Units /\ Creatures \cap Players = {}
  /\ Enemies \subseteq {{a, b} : a \in Units, b \in Units} /\ MayHide \subseteq Players
  /\ Missiles \subseteq Players \X Units /\ Mortals \subseteq Units
  /\ MaxActs \in Nat

VARIABLES
  m,          \* both managers of every unit, see CombatTypeOK
  present,    \* the units that are in the world and alive
  hidden,     \* the players no creature can see
  engaged,    \* CreatureAI::_isEngaged
  evading,    \* UNIT_STATE_EVADE
  stack,      \* the calls in progress
  handedOff   \* history: a script was called while a combat was being ended

combatVars == <<m, present, hidden, engaged, evading, stack, handedOff>>

(* objs: the CombatReferences, as <<first, second>>; listed: <<u, v>> when   *)
(* the manager of u has one with v; suppressed: <<u, v>> when it is          *)
(* suppressed for u; inCombat: UNIT_FLAG_IN_COMBAT; threat: <<c, u>> when u  *)
(* is on the list of c; online: the available entries; victim:               *)
(* _currentVictimRef; ok: no assertion failed and no freed memory was used.  *)
CombatTypeOK ==
  LET Pairs == Units \X Units
  IN /\ m \in [objs : SUBSET Pairs, listed : SUBSET Pairs, suppressed : SUBSET Pairs,
               inCombat : SUBSET Units, threat : SUBSET (Creatures \X Units),
               online : SUBSET (Creatures \X Units),
               victim : [Creatures -> Units \cup {None}], ok : BOOLEAN]
     /\ m.online \subseteq m.threat
     /\ \A c \in Creatures : m.victim[c] # None => <<c, m.victim[c]>> \in m.threat
     /\ present \subseteq Units /\ hidden \subseteq Players
     /\ engaged \subseteq Creatures /\ evading \subseteq Creatures
     /\ handedOff \in BOOLEAN

CombatInit ==
  /\ m = [objs |-> {}, listed |-> {}, suppressed |-> {}, inCombat |-> {}, threat |-> {},
          online |-> {}, victim |-> [c \in Creatures |-> None], ok |-> TRUE]
  /\ present = Units /\ hidden = {} /\ engaged = {} /\ evading = {}
  /\ stack = <<>> /\ handedOff = FALSE

-----------------------------------------------------------------------------
(* CombatManager.  The operators map a state w of the managers to the next.  *)

IsPvP(o) == {o[1], o[2]} \subseteq Players
Both(a, b) == {<<a, b>>, <<b, a>>}
HasCombat(w, u) == \E v \in Units : <<u, v>> \in w.listed \ w.suppressed

UpdateOwnerCombatState(w, owners) ==
  [w EXCEPT !.inCombat = (@ \ owners) \cup {u \in owners : HasCombat(w, u)}]

(* The dead and the absent are not refused: a plausible slip. *)
CanBeginCombatWithDead(a, b) ==
  a # b /\ {a, b} \in Enemies /\ {a, b} \cap evading = {}

CanBeginCombat(a, b) ==
  /\ a # b /\ {a, b} \in Enemies
  /\ {a, b} \subseteq present /\ {a, b} \cap evading = {}

(* Refresh of a reference ends its suppression. *)
Refresh(w, a, b) ==
  UpdateOwnerCombatState([w EXCEPT !.suppressed = @ \ Both(a, b)], {a, b})

(* PutReference into both managers; a second entry is an assertion failure. *)
NewReference(w, a, b, suppressSecond) ==
  UpdateOwnerCombatState(
    [w EXCEPT !.objs = @ \cup {<<a, b>>}, !.listed = @ \cup Both(a, b),
              !.suppressed = @ \cup (IF suppressSecond THEN {<<b, a>>} ELSE {}),
              !.ok = @ /\ Both(a, b) \cap w.listed = {}], {a, b})

(* Only one of the two is put into combat: a plausible slip. *)
SetInCombatWithOneSided(w, a, b, suppressSecond) ==
  IF <<a, b>> \in w.listed THEN Refresh(w, a, b)
  ELSE IF ~CanBeginCombat(a, b) THEN w
  ELSE [NewReference(w, a, b, suppressSecond) EXCEPT !.inCombat = @ \ ({b} \ w.inCombat)]

(* An existing reference is not looked up: a plausible slip. *)
SetInCombatWithAgain(w, a, b, suppressSecond) ==
  IF ~CanBeginCombat(a, b) THEN w ELSE NewReference(w, a, b, suppressSecond)

SetInCombatWith(w, a, b, suppressSecond) ==
  IF <<a, b>> \in w.listed THEN Refresh(w, a, b)
  ELSE IF ~CanBeginCombat(a, b) THEN w
  ELSE NewReference(w, a, b, suppressSecond)

(* What EndCombat does once the threat between the two is gone. *)
PurgeReferences(w, o) ==
  UpdateOwnerCombatState(
    [w EXCEPT !.objs = @ \ {o}, !.listed = @ \ Both(o[1], o[2]),
              !.suppressed = @ \ Both(o[1], o[2])], {o[1], o[2]})

SuppressPvPCombat(w, u) ==
  UpdateOwnerCombatState(
    [w EXCEPT !.suppressed = @ \cup {r \in w.listed : r[1] = u /\ IsPvP(r)}], {u})

-----------------------------------------------------------------------------
(* ThreatManager.  An operation that may select a victim has several         *)
(* outcomes; tell are the units the AI is told of by ProcessAIUpdates.       *)

ShouldBeOffline(u) == u \in hidden

(* ReselectVictim looks at all entries again; some available one is the      *)
(* victim, and none if there is no available one.                            *)
UpdateVictim(w, c) ==
  LET avail == {u \in Units : <<c, u>> \in w.threat /\ ~ShouldBeOffline(u)}
      online == {e \in w.online : e[1] # c} \cup {<<c, u>> : u \in avail}
  IN {[m |-> [w EXCEPT !.online = online, !.victim[c] = v],
       tell |-> {u \in avail : <<c, u>> \notin w.online}] :
        v \in IF avail = {} THEN {None} ELSE avail}

(* The victim is kept: a plausible slip. *)
UnregisterKeepsVictim(w, c, us) ==
  [w EXCEPT !.threat = @ \ ({c} \X us), !.online = @ \ ({c} \X us)]

(* UnregisterAndFree, for each of the units us. *)
Unregister(w, c, us) ==
  [w EXCEPT !.threat = @ \ ({c} \X us), !.online = @ \ ({c} \X us),
            !.victim[c] = IF @ \in us THEN None ELSE @]

(* ClearThreat(Unit* ): c forgets u. *)
ClearThreat(w, c, u) ==
  LET gone == Unregister(w, c, {u})
  IN IF c \in Players \/ <<c, u>> \notin w.threat THEN {[m |-> w, tell |-> {}]}
     ELSE IF gone.victim[c] = None THEN UpdateVictim(gone, c)
     ELSE {[m |-> gone, tell |-> {}]}

(* The threat is kept when there is no combat: a plausible slip. *)
AddThreatAnyway(w, c, u) ==
  LET new == [SetInCombatWith(w, c, u, FALSE) EXCEPT !.threat = @ \cup {<<c, u>>}]
  IN IF <<c, u>> \in w.threat THEN {[m |-> new, tell |-> {}]} ELSE UpdateVictim(new, c)

AddThreat(w, c, u) ==
  LET fighting == SetInCombatWith(w, c, u, FALSE)
      seen == IF ShouldBeOffline(u) THEN {} ELSE {u}
      new == [fighting EXCEPT !.threat = @ \cup {<<c, u>>}, !.online = @ \cup ({c} \X seen)]
  IN IF <<c, u>> \notin fighting.listed \/ <<c, u>> \in w.threat
     THEN {[m |-> fighting, tell |-> {}]}
     ELSE IF new.victim[c] = None
     THEN {[o EXCEPT !.tell = @ \cup seen] : o \in UpdateVictim(new, c)}
     ELSE {[m |-> new, tell |-> seen]}

-----------------------------------------------------------------------------
(* The calls.  A frame says what is left to do.                              *)

Ai(c, us) == [at |-> "ai", who |-> c, todo |-> us]
Script(c, n) == [at |-> "script", who |-> c, acts |-> n]
Lists(u, cs) == [at |-> "lists", who |-> u, todo |-> cs]
ClearAll(u) == [at |-> "clearAll", who |-> u]
PvP(u, mutual) == [at |-> "pvp", who |-> u, mutual |-> mutual]
EndAll(os) == [at |-> "endAll", todo |-> os]
End(o, n) == [at |-> "end", ref |-> o, step |-> n]
Loop(u, vs) == [at |-> "loop", who |-> u, todo |-> vs]
Home(c) == [at |-> "home", who |-> c]
Gone(u) == [at |-> "gone", who |-> u]

Top == Head(stack)
Below == Tail(stack)
At(f) == m.ok /\ stack # <<>> /\ Top.at = f
AtRest == m.ok /\ stack = <<>>

(* Outcome o of an operation of c, then the frames fs.  An engaged creature  *)
(* does nothing when it is told of a unit.                                   *)
Continue(o, c, fs) ==
  /\ m' = o.m
  /\ stack' = (IF o.tell # {} /\ c \notin engaged THEN <<Ai(c, o.tell)>> ELSE <<>>) \o fs

Fail == m' = [m EXCEPT !.ok = FALSE] /\ stack' = <<>>

(* A frame of a loop over todo that has done x. *)
Without(x) ==
  IF Top.todo = {x} THEN Below ELSE <<[Top EXCEPT !.todo = @ \ {x}]>> \o Below

(* JustStartedThreateningMe, for the entries that still exist: the first one *)
(* engages the creature, and AtEngage calls the script.                      *)
ProcessAIUpdates ==
  /\ At("ai")
  /\ \E u \in Top.todo :
       IF <<Top.who, u>> \in m.threat /\ Top.who \notin engaged
       THEN /\ engaged' = engaged \cup {Top.who}
            /\ stack' = <<Script(Top.who, MaxActs)>> \o Without(u)
            /\ handedOff' = (handedOff \/
                   \E i \in DOMAIN stack : stack[i].at \in {"lists", "end"})
       ELSE stack' = Without(u) /\ UNCHANGED <<engaged, handedOff>>
  /\ UNCHANGED <<m, present, hidden, evading>>

(* CombatStop, of one side only in PvP if not mutual. *)
CombatStop(u, mutual) ==
  LET threatened == {c \in Creatures : <<c, u>> \in m.threat}
  IN (IF threatened = {} THEN <<>> ELSE <<Lists(u, threatened)>>)
       \o <<ClearAll(u), PvP(u, mutual)>>

EnterEvadeMode(c) ==
  IF c \in evading THEN <<>> ELSE CombatStop(c, TRUE) \o <<Home(c)>>

(* JustEngagedWith: DoZoneInCombat, the formation and the party engage       *)
(* others, and a boss that must not be fought yet evades.                    *)
ScriptEngages ==
  /\ At("script") /\ Top.acts > 0
  /\ \E c \in Creatures, u \in Units : \E o \in AddThreat(m, c, u) :
       /\ o.m # m
       /\ Continue(o, c, <<Script(Top.who, Top.acts - 1)>> \o Below)
  /\ UNCHANGED <<present, hidden, engaged, evading, handedOff>>

ScriptEvades ==
  /\ At("script") /\ stack' = EnterEvadeMode(Top.who) \o Below
  /\ UNCHANGED <<m, present, hidden, engaged, evading, handedOff>>

ScriptReturns ==
  /\ At("script") /\ stack' = Below
  /\ UNCHANGED <<m, present, hidden, engaged, evading, handedOff>>

(* RemoveMeFromThreatLists goes through pointers collected before: an entry  *)
(* removed meanwhile is used after it was freed.                             *)
RemoveMeFromThreatLists ==
  /\ At("lists")
  /\ \E c \in Top.todo :
       \/ <<c, Top.who>> \notin m.threat /\ Fail
       \/ /\ <<c, Top.who>> \in m.threat
          /\ \E o \in ClearThreat(m, c, Top.who) : Continue(o, c, Without(c))
  /\ UNCHANGED <<present, hidden, engaged, evading, handedOff>>

(* The references u has of one kind. *)
References(u, pvp) ==
  {o \in m.objs : /\ \E r \in Both(o[1], o[2]) \cap m.listed : r[1] = u
                  /\ IsPvP(o) <=> pvp}

ThenEndAll(os) == stack' = (IF os = {} THEN <<>> ELSE <<EndAll(os)>>) \o Below

(* The rest of EndAllPvECombat: ClearAllThreat, and EndCombat of all. *)
EndAllPvECombat ==
  /\ At("clearAll")
  /\ m' = IF Top.who \in Creatures THEN Unregister(m, Top.who, Units) ELSE m
  /\ ThenEndAll(References(Top.who, FALSE))
  /\ UNCHANGED <<present, hidden, engaged, evading, handedOff>>

EndAllPvPCombat ==
  /\ At("pvp") /\ Top.mutual
  /\ ThenEndAll(References(Top.who, TRUE))
  /\ UNCHANGED <<m, present, hidden, engaged, evading, handedOff>>

SuppressAllPvPCombat ==
  /\ At("pvp") /\ ~Top.mutual
  /\ m' = SuppressPvPCombat(m, Top.who) /\ stack' = Below
  /\ UNCHANGED <<present, hidden, engaged, evading, handedOff>>

(* EndCombat of reference o, from its part n on: the threat of the first,    *)
(* the threat of the second, the rest.  Parts with no threat to clear do     *)
(* nothing.  Each part reads o, which a script may have deleted meanwhile.   *)
EndFrom(w, o, n, below) ==
  LET HasThreat(i) == <<o[i], o[3 - i]>> \in w.threat
      i == IF n = 1 /\ HasThreat(1) THEN 1 ELSE IF n <= 2 /\ HasThreat(2) THEN 2 ELSE 3
  IN \/ o \notin w.objs /\ Fail
     \/ /\ o \in w.objs /\ i < 3
        /\ \E r \in ClearThreat(w, o[i], o[3 - i]) :
             Continue(r, o[i], <<End(o, i + 1)>> \o below)
     \/ o \in w.objs /\ i = 3 /\ m' = PurgeReferences(w, o) /\ stack' = below

EndCombat ==
  /\ At("end") /\ EndFrom(m, Top.ref, Top.step, Below)
  /\ UNCHANGED <<present, hidden, engaged, evading, handedOff>>

(* The loops that end combat with all of a vector of references. *)
EndNext ==
  /\ At("endAll")
  /\ \E o \in Top.todo : EndFrom(m, o, 1, Without(o))
  /\ UNCHANGED <<present, hidden, engaged, evading, handedOff>>

(* The loops of Update, EndCombatBeyondRange and RevalidateCombat erase the  *)
(* entry on their own side before they call EndCombat.                       *)
LoopStep ==
  /\ At("loop")
  /\ \E v \in Top.todo :
       \/ /\ <<Top.who, v>> \in m.listed
          /\ \E o \in m.objs \cap Both(Top.who, v) :
               EndFrom([m EXCEPT !.listed = @ \ {<<Top.who, v>>}], o, 1, Without(v))
       \/ <<Top.who, v>> \notin m.listed /\ stack' = Without(v) /\ UNCHANGED m
  /\ UNCHANGED <<present, hidden, engaged, evading, handedOff>>

(* The end of EnterEvadeMode: EngagementOver, UNIT_STATE_EVADE. *)
GoesHome ==
  /\ At("home") /\ stack' = Below
  /\ engaged' = engaged \ {Top.who} /\ evading' = evading \cup {Top.who}
  /\ UNCHANGED <<m, present, hidden, handedOff>>

RemovedFromWorld ==
  /\ At("gone") /\ stack' = Below /\ present' = present \ {Top.who}
  /\ UNCHANGED <<m, hidden, engaged, evading, handedOff>>

-----------------------------------------------------------------------------
(* What the rest of the map update calls.  Bound: nothing is called any more *)
(* once a script was called while a combat ended.                            *)

Ready == AtRest /\ ~handedOff
Call(frames) == Ready /\ frames # <<>> /\ stack' = frames

(* An attack or a spell that hits: EngageWithTarget. *)
EngageWithTarget(u, enemy) ==
  /\ Ready /\ {u, enemy} \subseteq present
  /\ IF u \in Creatures
     THEN \E o \in AddThreat(m, u, enemy) : Continue(o, u, <<>>)
     ELSE m' = SetInCombatWith(m, u, enemy, FALSE) /\ UNCHANGED stack
  /\ m' # m
  /\ UNCHANGED <<present, hidden, engaged, evading, handedOff>>

(* A missile is launched: combat for the caster only. *)
LaunchMissile(p, target) ==
  /\ Ready /\ {p, target} \subseteq present
  /\ m' = SetInCombatWith(m, p, target, TRUE) /\ m' # m
  /\ UNCHANGED <<present, hidden, engaged, evading, stack, handedOff>>

(* ThreatManager::Update. *)
ThreatUpdate(c) ==
  /\ Ready /\ c \in present /\ \E u \in Units : <<c, u>> \in m.threat
  /\ \E o \in UpdateVictim(m, c) : Continue(o, c, <<>>)
  /\ UNCHANGED <<present, hidden, engaged, evading, handedOff>>

Evade(c) ==
  /\ c \in present \cap engaged /\ Call(EnterEvadeMode(c))
  /\ UNCHANGED <<m, present, hidden, engaged, evading, handedOff>>

JustReachedHome(c) ==
  /\ Ready /\ c \in evading \cap present /\ evading' = evading \ {c}
  /\ UNCHANGED <<m, present, hidden, engaged, stack, handedOff>>

(* A sanctuary or feigned death outside dungeons; no creature ignores it. *)
Vanish(p) ==
  /\ p \in present /\ \E v \in Units : <<p, v>> \in m.listed
  /\ Call(CombatStop(p, FALSE))
  /\ UNCHANGED <<m, present, hidden, engaged, evading, handedOff>>

(* A player disappears from the sight of creatures, or comes back into it. *)
ChangeVisibility(p) ==
  /\ Ready /\ hidden' = IF p \in hidden THEN hidden \ {p} ELSE hidden \cup {p}
  /\ UNCHANGED <<m, present, engaged, evading, stack, handedOff>>

(* setDeathState, and CleanupBeforeRemoveFromMap: the unit is dead or out of *)
(* the world before its combat is stopped.                                   *)
Dies(u) ==
  /\ u \in present /\ Call(CombatStop(u, TRUE)) /\ present' = present \ {u}
  /\ UNCHANGED <<m, hidden, engaged, evading, handedOff>>

(* Map::RemovePlayerFromMap stops the combat first. *)
RemovePlayerFromMap(p) ==
  /\ p \in present /\ Call(CombatStop(p, TRUE) \o <<Gone(p)>>)
  /\ UNCHANGED <<m, present, hidden, engaged, evading, handedOff>>

Returns(p) ==
  /\ Ready /\ p \notin present /\ present' = present \cup {p}
  /\ UNCHANGED <<m, hidden, engaged, evading, stack, handedOff>>

(* The timeout of PvP combat, the references whose first unit is p. *)
UpdatePvP(p) ==
  /\ \E v \in Players : <<p, v>> \in m.objs /\ Call(<<Loop(p, {v})>>)
  /\ UNCHANGED <<m, present, hidden, engaged, evading, handedOff>>

(* The references to units that are too far away, whichever they are. *)
EndCombatBeyondRange(p) ==
  /\ \E far \in SUBSET {v \in Units : <<p, v>> \in m.listed} :
       far # {} /\ Call(<<Loop(p, far)>>)
  /\ UNCHANGED <<m, present, hidden, engaged, evading, handedOff>>

Stops == (~m.ok \/ (AtRest /\ handedOff)) /\ UNCHANGED combatVars

Calls ==
  \/ ProcessAIUpdates \/ ScriptEngages \/ ScriptEvades \/ ScriptReturns
  \/ RemoveMeFromThreatLists \/ EndAllPvECombat \/ EndAllPvPCombat \/ SuppressAllPvPCombat
  \/ EndNext \/ EndCombat \/ LoopStep \/ GoesHome \/ RemovedFromWorld

CombatNext ==
  \/ Calls
  \/ \E u, v \in Units : EngageWithTarget(u, v)
  \/ \E s \in Missiles : LaunchMissile(s[1], s[2])
  \/ \E c \in Creatures : ThreatUpdate(c) \/ Evade(c) \/ JustReachedHome(c)
  \/ \E p \in MayHide : ChangeVisibility(p)
  \/ \E u \in Mortals : Dies(u)
  \/ \E p \in Players :
       Vanish(p) \/ Returns(p) \/ UpdatePvP(p) \/ EndCombatBeyondRange(p)
  \/ \E p \in Mortals \cap Players : RemovePlayerFromMap(p)
  \/ Stops

CombatSpec == CombatInit /\ [][CombatNext]_combatVars

-----------------------------------------------------------------------------
(* "A unit is in combat iff it has one or more non-suppressed                *)
(* CombatReference entries in its CombatManager", and every entry is in both *)
(* managers and has its reference, whatever scripts did in between.          *)
InCombatIffReferenced ==
  AtRest =>
    /\ m.inCombat = {u \in Units : HasCombat(m, u)}
    /\ m.listed = UNION {Both(o[1], o[2]) : o \in m.objs}
    /\ \A o \in m.objs : <<o[2], o[1]>> \notin m.objs

(* "threat => combat is a strong guarantee": no creature keeps threat of a   *)
(* unit it does not fight, unless a script was called while a combat ended.  *)
ThreatImpliesCombat ==
  AtRest /\ ~handedOff => m.threat \subseteq m.listed

(* No reference is used after it was freed and none is entered twice, unless *)
(* a script was called while a combat ended.                                 *)
NoDanglingReference == m.ok \/ handedOff

(* Both units of a reference are alive and in the world; the destructors of  *)
(* the managers assert that nothing is left when a unit goes.                *)
AbsentUnitsAreForgotten ==
  AtRest /\ ~handedOff => \A r \in m.listed \cup m.threat : {r[1], r[2]} \subseteq present
=============================================================================

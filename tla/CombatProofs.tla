---------------------------- MODULE CombatProofs ----------------------------
(***************************************************************************)
(* Combat and threat agree, and no reference is used after it was freed, as *)
(* long as no script is called while a combat ends: for any creatures,      *)
(* players and enemies and any number of acts of the scripts.               *)
(***************************************************************************)
EXTENDS Combat, TLAPS

Pairs == Units \X Units

AiFrame == [at : {"ai"}, who : Creatures, todo : SUBSET Units]
ScriptFrame == [at : {"script"}, who : Creatures, acts : Nat]
ListsFrame == [at : {"lists"}, who : Units, todo : SUBSET Creatures]
ClearAllFrame == [at : {"clearAll"}, who : Units]
PvPFrame == [at : {"pvp"}, who : Units, mutual : BOOLEAN]
EndAllFrame == [at : {"endAll"}, todo : SUBSET Pairs]
EndFrame == [at : {"end"}, ref : Pairs, step : 1 .. 3]
LoopFrame == [at : {"loop"}, who : Players, todo : SUBSET Units]
HomeFrame == [at : {"home"}, who : Creatures]
GoneFrame == [at : {"gone"}, who : Players]
Frame == AiFrame \cup ScriptFrame \cup ListsFrame \cup ClearAllFrame \cup PvPFrame
           \cup EndAllFrame \cup EndFrame \cup LoopFrame \cup HomeFrame \cup GoneFrame

Frames(s) == {s[i] : i \in 1 .. Len(s)}

(* The references whose end is under way. *)
Ending(s) == {o \in Pairs : \E f \in Frames(s) : f.at = "end" /\ f.ref = o}

-----------------------------------------------------------------------------
(* What holds whatever the scripts do. *)

(* Loops and removals start at rest. *)
BottomOK(s) == \A i \in 1 .. Len(s) : s[i].at \in {"loop", "gone"} => i = Len(s)

(* Every entry of a manager has its reference and every reference its        *)
(* entries; one whose end is under way may have lost one of them, and then   *)
(* the flags of its units wait for it.                                       *)
RefsOK(w, E) ==
  /\ \A o \in w.objs : o[1] # o[2] /\ <<o[2], o[1]>> \notin w.objs
  /\ \A r \in w.listed : r \in w.objs \/ <<r[2], r[1]>> \in w.objs
  /\ \A o \in w.objs : o \in w.listed \/ <<o[2], o[1]>> \in w.listed
  /\ \A o \in w.objs : o \in E \/ (o \in w.listed /\ <<o[2], o[1]>> \in w.listed)
  /\ \A u \in Units : (u \in w.inCombat <=> HasCombat(w, u))
                        \/ \E o \in E : u = o[1] \/ u = o[2]

-----------------------------------------------------------------------------
(* What holds until a script is called while a combat ends. *)

(* Only scripts that engage are above a call that still uses a reference. *)
ShapeOK(s) ==
  /\ \A i \in 1 .. Len(s) : s[i].at \in {"lists", "end"} =>
       \A j \in 1 .. i - 1 : s[j].at = "ai"
  /\ \A i \in 1 .. Len(s) : s[i].at = "endAll" =>
       /\ \A j \in 1 .. i - 1 : s[j].at \in {"ai", "end"}
       /\ i > 1 => s[i - 1].at = "end" /\ s[i - 1].ref \notin s[i].todo

(* What a frame still uses exists, and what it has cleared has not come back. *)
FrameIsDue(w, f) ==
  /\ f.at = "lists" => \A x \in f.todo : <<x, f.who>> \in w.threat
  /\ f.at = "endAll" => f.todo \subseteq w.objs
  /\ f.at = "end" =>
       /\ f.ref \in w.objs
       /\ f.step >= 2 => <<f.ref[1], f.ref[2]>> \notin w.threat
       /\ f.step >= 3 => <<f.ref[2], f.ref[1]>> \notin w.threat

DueOK(w, s) == \A f \in Frames(s) : FrameIsDue(w, f)

(* The call that will end the combat o of u. *)
Covers(f, o, u) ==
  \/ f.at = "clearAll" /\ f.who = u /\ ~IsPvP(o)
  \/ f.at = "pvp" /\ f.who = u /\ f.mutual = TRUE /\ IsPvP(o)
  \/ f.at = "endAll" /\ o \in f.todo
  \/ f.at = "end" /\ f.ref = o

Goes(s, u, here) == u \notin here \/ \E f \in Frames(s) : f.at = "gone" /\ f.who = u

(* Whoever is gone or about to go has no combat that nobody will end. *)
CoverOK(w, s, here) ==
  \A o \in w.objs, u \in Units :
    (u = o[1] \/ u = o[2]) /\ Goes(s, u, here) => \E f \in Frames(s) : Covers(f, o, u)

(* Scripts that run while a player leaves the map run before its references  *)
(* are collected.                                                            *)
GoneEnd(s) == s # <<>> /\ s[Len(s)].at = "gone"
Collecting(s) ==
  /\ Len(s) >= 3 /\ s[Len(s) - 1].at = "pvp"
  /\ s[Len(s) - 2].at = "clearAll" /\ s[Len(s) - 2].who = s[Len(s)].who
Finishing(s) ==
  /\ \A j \in 1 .. Len(s) - 1 : s[j].at \in {"ai", "end", "endAll", "pvp"}
  /\ \A j \in 1 .. Len(s) : s[j].at = "ai" => j = 1 /\ s[2].at = "end"
GoneOK(s) == GoneEnd(s) => Collecting(s) \/ Finishing(s)

CalmOK(w, s, here) ==
  /\ w.threat \subseteq w.listed
  /\ ShapeOK(s) /\ DueOK(w, s) /\ CoverOK(w, s, here) /\ GoneOK(s)

CombatIInv ==
  /\ CombatTypeOK /\ stack \in Seq(Frame) /\ BottomOK(stack)
  /\ m.ok = TRUE => RefsOK(m, Ending(stack))
  /\ handedOff = FALSE => m.ok = TRUE /\ CalmOK(m, stack, present)

-----------------------------------------------------------------------------
(* The operators on the managers, field by field. *)

Managers == [objs : SUBSET Pairs, listed : SUBSET Pairs, suppressed : SUBSET Pairs,
             inCombat : SUBSET Units, threat : SUBSET (Creatures \X Units),
             online : SUBSET (Creatures \X Units),
             victim : [Creatures -> Units \cup {None}], ok : BOOLEAN]

(* The threat lists are in order. *)
ThreatOK(w) ==
  /\ w.online \subseteq w.threat
  /\ \A c \in Creatures : w.victim[c] # None => <<c, w.victim[c]>> \in w.threat

SameThreat(w, v) == v.threat = w.threat /\ v.online = w.online /\ v.victim = w.victim
SameRefs(w, v) ==
  /\ v.objs = w.objs /\ v.listed = w.listed /\ v.suppressed = w.suppressed
  /\ v.inCombat = w.inCombat /\ v.ok = w.ok

LEMMA TypeOKIs ==
  CombatTypeOK <=>
    /\ m \in Managers /\ ThreatOK(m)
    /\ present \subseteq Units /\ hidden \subseteq Players
    /\ engaged \subseteq Creatures /\ evading \subseteq Creatures
    /\ handedOff \in BOOLEAN
BY DEF CombatTypeOK, Managers, ThreatOK, Pairs

LEMMA BothIs ==
  ASSUME NEW a, NEW b, NEW r
  PROVE  r \in Both(a, b) <=> r = <<a, b>> \/ r = <<b, a>>
BY DEF Both

LEMMA SameThreatIsOK ==
  ASSUME NEW w, NEW v, ThreatOK(w), SameThreat(w, v)
  PROVE  ThreatOK(v)
BY DEF ThreatOK, SameThreat

(* The flags of the owners are brought up to date. *)
LEMMA OwnerFacts ==
  ASSUME NEW w \in Managers, NEW owners \in SUBSET Units
  PROVE  LET v == UpdateOwnerCombatState(w, owners)
         IN  /\ v \in Managers /\ SameThreat(w, v)
             /\ v.objs = w.objs /\ v.listed = w.listed /\ v.suppressed = w.suppressed
             /\ v.ok = w.ok
             /\ \A u \in Units : u \in v.inCombat <=>
                  IF u \in owners THEN HasCombat(v, u) ELSE u \in w.inCombat
<1> DEFINE new == (w.inCombat \ owners) \cup {u \in owners : HasCombat(w, u)}
           v == UpdateOwnerCombatState(w, owners)
<1>1. v = [w EXCEPT !.inCombat = new]
  BY DEF UpdateOwnerCombatState
<1>2. new \in SUBSET Units
  BY DEF Managers
<1> HIDE DEF new
<1>3. v \in Managers
  BY <1>1, <1>2 DEF Managers
<1>4. /\ v.objs = w.objs /\ v.listed = w.listed /\ v.suppressed = w.suppressed
      /\ v.inCombat = new /\ v.threat = w.threat /\ v.online = w.online /\ v.victim = w.victim
  BY <1>1 DEF Managers
<1>5. v.ok = w.ok
  BY <1>1 DEF Managers
<1> HIDE DEF v
<1>6. \A u : HasCombat(v, u) <=> HasCombat(w, u)
  BY <1>4 DEF HasCombat
<1>7. \A u \in Units : u \in v.inCombat <=>
        IF u \in owners THEN HasCombat(v, u) ELSE u \in w.inCombat
  BY <1>4, <1>6 DEF new
<1> QED BY <1>3, <1>4, <1>5, <1>7 DEF SameThreat, v

(* PurgeReferences, SuppressPvPCombat, Refresh and NewReference before the   *)
(* flags.                                                                    *)
LEMMA PurgeFacts ==
  ASSUME NEW w \in Managers, NEW o \in Pairs
  PROVE  LET v == PurgeReferences(w, o)
         IN  /\ v \in Managers /\ SameThreat(w, v) /\ v.ok = w.ok
             /\ v.objs = w.objs \ {o}
             /\ v.listed = w.listed \ {<<o[1], o[2]>>, <<o[2], o[1]>>}
             /\ v.suppressed = w.suppressed \ {<<o[1], o[2]>>, <<o[2], o[1]>>}
             /\ \A u \in Units : u \in v.inCombat <=>
                  IF u = o[1] \/ u = o[2] THEN HasCombat(v, u) ELSE u \in w.inCombat
<1> DEFINE B == {<<o[1], o[2]>>, <<o[2], o[1]>>}
           x == [w EXCEPT !.objs = @ \ {o}, !.listed = @ \ B, !.suppressed = @ \ B]
           v == PurgeReferences(w, o)
<1>1. x \in Managers
  BY DEF Managers
<1>2. /\ x.objs = w.objs \ {o} /\ x.listed = w.listed \ B /\ x.suppressed = w.suppressed \ B
      /\ x.inCombat = w.inCombat
      /\ x.threat = w.threat /\ x.online = w.online /\ x.victim = w.victim /\ x.ok = w.ok
  BY DEF Managers
<1>3. {o[1], o[2]} \in SUBSET Units
  BY DEF Pairs
<1>4. v = UpdateOwnerCombatState(x, {o[1], o[2]})
  BY DEF PurgeReferences, Both
<1> HIDE DEF x, v
<1>5. /\ v \in Managers /\ SameThreat(x, v)
      /\ v.objs = x.objs /\ v.listed = x.listed /\ v.suppressed = x.suppressed
      /\ v.ok = x.ok
      /\ \A u \in Units : u \in v.inCombat <=>
           IF u \in {o[1], o[2]} THEN HasCombat(v, u) ELSE u \in x.inCombat
  BY <1>1, <1>3, <1>4, OwnerFacts
<1> QED BY <1>2, <1>5 DEF SameThreat, v

LEMMA SuppressFacts ==
  ASSUME NEW w \in Managers, NEW p \in Units
  PROVE  LET v == SuppressPvPCombat(w, p)
         IN  /\ v \in Managers /\ SameThreat(w, v) /\ v.ok = w.ok
             /\ v.objs = w.objs /\ v.listed = w.listed
             /\ \A r : r[1] # p => (r \in v.suppressed <=> r \in w.suppressed)
             /\ \A u \in Units : u \in v.inCombat <=>
                  IF u = p THEN HasCombat(v, u) ELSE u \in w.inCombat
<1> DEFINE S == w.suppressed \cup {r \in w.listed : r[1] = p /\ IsPvP(r)}
           x == [w EXCEPT !.suppressed = S]
           v == SuppressPvPCombat(w, p)
<1>0. S \in SUBSET Pairs
  BY DEF Managers
<1>3. \A r : r[1] # p => (r \in S <=> r \in w.suppressed)
  OBVIOUS
<1>4. v = UpdateOwnerCombatState(x, {p})
  BY DEF SuppressPvPCombat
<1> HIDE DEF S
<1>1. x \in Managers
  BY <1>0 DEF Managers
<1>2. /\ x.objs = w.objs /\ x.listed = w.listed /\ x.suppressed = S /\ x.inCombat = w.inCombat
      /\ x.threat = w.threat /\ x.online = w.online /\ x.victim = w.victim /\ x.ok = w.ok
  BY DEF Managers
<1> HIDE DEF x, v
<1>5. /\ v \in Managers /\ SameThreat(x, v)
      /\ v.objs = x.objs /\ v.listed = x.listed /\ v.suppressed = x.suppressed
      /\ v.ok = x.ok
      /\ \A u \in Units : u \in v.inCombat <=>
           IF u \in {p} THEN HasCombat(v, u) ELSE u \in x.inCombat
  BY <1>1, <1>4, OwnerFacts
<1> QED BY <1>2, <1>3, <1>5 DEF SameThreat, v

LEMMA RefreshFacts ==
  ASSUME NEW w \in Managers, NEW a \in Units, NEW b \in Units
  PROVE  LET v == Refresh(w, a, b)
         IN  /\ v \in Managers /\ SameThreat(w, v) /\ v.ok = w.ok
             /\ v.objs = w.objs /\ v.listed = w.listed
             /\ v.suppressed = w.suppressed \ {<<a, b>>, <<b, a>>}
             /\ \A u \in Units : u \in v.inCombat <=>
                  IF u = a \/ u = b THEN HasCombat(v, u) ELSE u \in w.inCombat
<1> DEFINE S == w.suppressed \ {<<a, b>>, <<b, a>>}
           x == [w EXCEPT !.suppressed = S]
           v == Refresh(w, a, b)
<1>0. S \in SUBSET Pairs
  BY DEF Managers
<1>4. v = UpdateOwnerCombatState(x, {a, b})
  BY DEF Refresh, Both
<1> HIDE DEF S
<1>1. x \in Managers
  BY <1>0 DEF Managers
<1>2. /\ x.objs = w.objs /\ x.listed = w.listed /\ x.suppressed = S /\ x.inCombat = w.inCombat
      /\ x.threat = w.threat /\ x.online = w.online /\ x.victim = w.victim /\ x.ok = w.ok
  BY DEF Managers
<1> HIDE DEF x, v
<1>5. /\ v \in Managers /\ SameThreat(x, v)
      /\ v.objs = x.objs /\ v.listed = x.listed /\ v.suppressed = x.suppressed
      /\ v.ok = x.ok
      /\ \A u \in Units : u \in v.inCombat <=>
           IF u \in {a, b} THEN HasCombat(v, u) ELSE u \in x.inCombat
  BY <1>1, <1>4, OwnerFacts
<1> QED BY <1>2, <1>5 DEF SameThreat, v, S

(* The new reference is in both managers. *)
Entered(w, v, a, b) ==
  /\ v \in Managers /\ SameThreat(w, v)
  /\ v.ok = TRUE <=> /\ w.ok = TRUE
                     /\ <<a, b>> \notin w.listed /\ <<b, a>> \notin w.listed
  /\ v.objs = w.objs \cup {<<a, b>>}
  /\ v.listed = w.listed \cup {<<a, b>>, <<b, a>>}
  /\ \A r : r # <<b, a>> => (r \in v.suppressed <=> r \in w.suppressed)
  /\ \A u \in Units : u \in v.inCombat <=>
       IF u = a \/ u = b THEN HasCombat(v, u) ELSE u \in w.inCombat

LEMMA NewReferenceFacts ==
  ASSUME NEW w \in Managers, NEW a \in Units, NEW b \in Units, NEW late \in BOOLEAN
  PROVE  Entered(w, NewReference(w, a, b, late), a, b)
<1> DEFINE S == w.suppressed \cup (IF late THEN {<<b, a>>} ELSE {})
           L == w.listed \cup {<<a, b>>, <<b, a>>}
           k == w.ok /\ {<<a, b>>, <<b, a>>} \cap w.listed = {}
           x == [w EXCEPT !.objs = @ \cup {<<a, b>>}, !.listed = L, !.suppressed = S, !.ok = k]
           v == NewReference(w, a, b, late)
<1>0. S \in SUBSET Pairs /\ L \in SUBSET Pairs /\ w.objs \cup {<<a, b>>} \in SUBSET Pairs
  BY DEF Managers, Pairs
<1>3. \A r : r # <<b, a>> => (r \in S <=> r \in w.suppressed)
  OBVIOUS
<1>4. v = UpdateOwnerCombatState(x, {a, b})
  BY DEF NewReference, Both
<1>6. k \in BOOLEAN
  BY DEF Managers
<1>7. k = TRUE <=> w.ok = TRUE /\ <<a, b>> \notin w.listed /\ <<b, a>> \notin w.listed
  <2>1. w.ok \in BOOLEAN
    BY DEF Managers
  <2>2. {<<a, b>>, <<b, a>>} \cap w.listed = {} <=> <<a, b>> \notin w.listed /\ <<b, a>> \notin w.listed
    OBVIOUS
  <2> QED BY <2>1, <2>2, Zenon
<1> HIDE DEF S, L, k
<1>1. x \in Managers
  BY <1>0, <1>6 DEF Managers
<1>2. /\ x.objs = w.objs \cup {<<a, b>>} /\ x.listed = L /\ x.suppressed = S
      /\ x.inCombat = w.inCombat
      /\ x.threat = w.threat /\ x.online = w.online /\ x.victim = w.victim
  BY DEF Managers
<1>8. x.ok = k
  BY DEF Managers
<1> HIDE DEF x, v
<1>5. /\ v \in Managers /\ SameThreat(x, v)
      /\ v.objs = x.objs /\ v.listed = x.listed /\ v.suppressed = x.suppressed
      /\ \A u \in Units : u \in v.inCombat <=>
           IF u \in {a, b} THEN HasCombat(v, u) ELSE u \in x.inCombat
  BY <1>1, <1>4, OwnerFacts
<1>9. v.ok = x.ok
  BY <1>1, <1>4, OwnerFacts
<1>10. v.ok = TRUE <=> w.ok = TRUE /\ <<a, b>> \notin w.listed /\ <<b, a>> \notin w.listed
  BY <1>7, <1>8, <1>9
<1> QED BY <1>2, <1>3, <1>5, <1>10 DEF Entered, SameThreat, v, L

-----------------------------------------------------------------------------
(* References and entries stay together. *)

LEMMA RefsMonotone ==
  ASSUME NEW w, NEW E, NEW F, RefsOK(w, E), E \subseteq F
  PROVE  RefsOK(w, F)
BY DEF RefsOK

LEMMA RefsSame ==
  ASSUME NEW w, NEW v, NEW E, RefsOK(w, E), SameRefs(w, v)
  PROVE  RefsOK(v, E)
<1>1. \A u : HasCombat(v, u) <=> HasCombat(w, u)
  BY DEF HasCombat, SameRefs
<1> QED BY <1>1 DEF RefsOK, SameRefs

LEMMA PairIs ==
  ASSUME NEW o \in Pairs
  PROVE  o[1] \in Units /\ o[2] \in Units /\ o = <<o[1], o[2]>>
BY DEF Pairs

(* The reference is gone from both managers. *)
LEMMA PurgeRefs ==
  ASSUME NEW w \in Managers, NEW E, RefsOK(w, E), NEW o \in w.objs
  PROVE  RefsOK(PurgeReferences(w, o), E \ {o})
<1> DEFINE v == PurgeReferences(w, o)
<1>0. o \in Pairs /\ w.objs \subseteq Pairs /\ w.listed \subseteq Pairs
  BY DEF Managers
<1>1. /\ v.objs = w.objs \ {o}
      /\ v.listed = w.listed \ {<<o[1], o[2]>>, <<o[2], o[1]>>}
      /\ v.suppressed = w.suppressed \ {<<o[1], o[2]>>, <<o[2], o[1]>>}
      /\ \A u \in Units : u \in v.inCombat <=>
           IF u = o[1] \/ u = o[2] THEN HasCombat(v, u) ELSE u \in w.inCombat
  BY <1>0, PurgeFacts
<1> HIDE DEF v
<1>2. \A u \in Units : u # o[1] /\ u # o[2] => (HasCombat(v, u) <=> HasCombat(w, u))
  BY <1>1 DEF HasCombat
<1>3. \A r \in w.objs : r # o => /\ r # <<o[1], o[2]>> /\ r # <<o[2], o[1]>>
                                 /\ <<r[2], r[1]>> # <<o[1], o[2]>>
                                 /\ <<r[2], r[1]>> # <<o[2], o[1]>>
  <2> TAKE r \in w.objs
  <2> HAVE r # o
  <2>1. r = <<r[1], r[2]>> /\ o = <<o[1], o[2]>>
    BY <1>0, PairIs
  <2>2. <<o[2], o[1]>> \notin w.objs
    BY DEF RefsOK
  <2> QED BY <2>1, <2>2
<1>4. \A r \in v.objs : r[1] # r[2] /\ <<r[2], r[1]>> \notin v.objs
  BY <1>1 DEF RefsOK
<1>5. \A r \in v.listed : r \in v.objs \/ <<r[2], r[1]>> \in v.objs
  <2> TAKE r \in v.listed
  <2>1. r \in w.objs \/ <<r[2], r[1]>> \in w.objs
    BY <1>1 DEF RefsOK
  <2>2. r = <<r[1], r[2]>> /\ o = <<o[1], o[2]>>
    BY <1>0, <1>1, PairIs
  <2>3. r # o /\ <<r[2], r[1]>> # o
    BY <1>1, <2>2
  <2> QED BY <1>1, <2>1, <2>3
<1>6. \A r \in v.objs : r \in v.listed \/ <<r[2], r[1]>> \in v.listed
  BY <1>1, <1>3 DEF RefsOK
<1>7. \A r \in v.objs : r \in E \ {o} \/ (r \in v.listed /\ <<r[2], r[1]>> \in v.listed)
  BY <1>1, <1>3 DEF RefsOK
<1>8. \A u \in Units : (u \in v.inCombat <=> HasCombat(v, u))
                         \/ \E r \in E \ {o} : u = r[1] \/ u = r[2]
  BY <1>1, <1>2 DEF RefsOK
<1> QED BY <1>4, <1>5, <1>6, <1>7, <1>8 DEF RefsOK, v

LEMMA SuppressRefs ==
  ASSUME NEW w \in Managers, NEW E, RefsOK(w, E), NEW p \in Units
  PROVE  RefsOK(SuppressPvPCombat(w, p), E)
<1> DEFINE v == SuppressPvPCombat(w, p)
<1>1. /\ v.objs = w.objs /\ v.listed = w.listed
      /\ \A r : r[1] # p => (r \in v.suppressed <=> r \in w.suppressed)
      /\ \A u \in Units : u \in v.inCombat <=>
           IF u = p THEN HasCombat(v, u) ELSE u \in w.inCombat
  BY SuppressFacts
<1> HIDE DEF v
<1>2. \A u \in Units : u # p => (HasCombat(v, u) <=> HasCombat(w, u))
  BY <1>1 DEF HasCombat
<1> QED BY <1>1, <1>2 DEF RefsOK, v

(* What SetInCombatWith may do. *)
Engages(w, v, a, b) ==
  /\ v \in Managers /\ SameThreat(w, v)
  /\ w.objs \subseteq v.objs /\ v.objs \subseteq w.objs \cup {<<a, b>>}
  /\ w.listed \subseteq v.listed
  /\ v.objs # w.objs => a # b /\ a \in present /\ b \in present
  /\ v.ok = TRUE => w.ok = TRUE
  /\ w.ok = TRUE /\ (<<b, a>> \in w.listed => <<a, b>> \in w.listed) => v.ok = TRUE

LEMMA SetInCombatFacts ==
  ASSUME NEW w \in Managers, NEW a \in Units, NEW b \in Units, NEW late \in BOOLEAN,
         NEW E, RefsOK(w, E)
  PROVE  LET v == SetInCombatWith(w, a, b, late)
         IN  Engages(w, v, a, b) /\ (v.ok = TRUE => RefsOK(v, E))
<1> DEFINE v == SetInCombatWith(w, a, b, late)
<1>1. CASE <<a, b>> \in w.listed
  <2>1. v = Refresh(w, a, b)
    BY <1>1 DEF SetInCombatWith
  <2>2. /\ v \in Managers /\ SameThreat(w, v)
        /\ v.objs = w.objs /\ v.listed = w.listed
        /\ v.suppressed = w.suppressed \ {<<a, b>>, <<b, a>>}
        /\ \A u \in Units : u \in v.inCombat <=>
             IF u = a \/ u = b THEN HasCombat(v, u) ELSE u \in w.inCombat
    BY <2>1, RefreshFacts
  <2>3. v.ok = w.ok
    BY <2>1, RefreshFacts
  <2> HIDE DEF v
  <2>4. \A u \in Units : u # a /\ u # b => (HasCombat(v, u) <=> HasCombat(w, u))
    BY <2>2 DEF HasCombat
  <2>5. RefsOK(v, E)
    BY <2>2, <2>4 DEF RefsOK
  <2>6. Engages(w, v, a, b)
    BY <2>2, <2>3 DEF Engages
  <2> QED BY <2>5, <2>6 DEF v
<1>2. CASE <<a, b>> \notin w.listed /\ ~CanBeginCombat(a, b)
  <2>1. v = w
    BY <1>2 DEF SetInCombatWith
  <2>2. Engages(w, w, a, b)
    BY DEF Engages, SameThreat
  <2> QED BY <2>1, <2>2
<1>3. CASE <<a, b>> \notin w.listed /\ CanBeginCombat(a, b)
  <2>1. v = NewReference(w, a, b, late)
    BY <1>3 DEF SetInCombatWith
  <2>0. Entered(w, v, a, b)
    BY <2>1, NewReferenceFacts, Zenon
  <2>2. /\ v \in Managers /\ SameThreat(w, v)
        /\ v.objs = w.objs \cup {<<a, b>>}
        /\ v.listed = w.listed \cup {<<a, b>>, <<b, a>>}
        /\ \A r : r # <<b, a>> => (r \in v.suppressed <=> r \in w.suppressed)
        /\ \A u \in Units : u \in v.inCombat <=>
             IF u = a \/ u = b THEN HasCombat(v, u) ELSE u \in w.inCombat
    BY <2>0 DEF Entered
  <2>3. v.ok = TRUE <=> w.ok = TRUE /\ <<a, b>> \notin w.listed /\ <<b, a>> \notin w.listed
    BY <2>0 DEF Entered
  <2>4. a # b /\ a \in present /\ b \in present
    BY <1>3 DEF CanBeginCombat
  <2> HIDE DEF v
  <2>5. Engages(w, v, a, b)
    BY <1>3, <2>2, <2>3, <2>4 DEF Engages
  <2>6. ASSUME v.ok = TRUE PROVE RefsOK(v, E)
    <3>1. <<a, b>> \notin w.listed /\ <<b, a>> \notin w.listed
      BY <2>3, <2>6
    <3>2. <<a, b>> \notin w.objs /\ <<b, a>> \notin w.objs
      BY <3>1 DEF RefsOK
    <3>3. \A u \in Units : u # a /\ u # b => (HasCombat(v, u) <=> HasCombat(w, u))
      BY <2>2 DEF HasCombat
    <3>4. \A o \in v.objs : o[1] # o[2] /\ <<o[2], o[1]>> \notin v.objs
      <4> TAKE o \in v.objs
      <4>1. CASE o = <<a, b>>
        BY <4>1, <2>2, <2>4, <3>2
      <4>2. CASE o \in w.objs
        <5>1. o = <<o[1], o[2]>>
          BY <4>2, PairIs DEF Managers
        <5> QED BY <4>2, <5>1, <2>2, <3>2 DEF RefsOK
      <4> QED BY <4>1, <4>2, <2>2
    <3>5. \A r \in v.listed : r \in v.objs \/ <<r[2], r[1]>> \in v.objs
      <4> TAKE r \in v.listed
      <4>1. CASE r \in w.listed
        BY <4>1, <2>2 DEF RefsOK
      <4>2. CASE r = <<a, b>> \/ r = <<b, a>>
        BY <4>2, <2>2
      <4> QED BY <4>1, <4>2, <2>2
    <3>6. \A o \in v.objs : \/ o \in v.listed /\ <<o[2], o[1]>> \in v.listed
                            \/ o \in E /\ (o \in v.listed \/ <<o[2], o[1]>> \in v.listed)
      <4> TAKE o \in v.objs
      <4>1. CASE o = <<a, b>>
        BY <4>1, <2>2
      <4>2. CASE o \in w.objs
        BY <4>2, <2>2 DEF RefsOK
      <4> QED BY <4>1, <4>2, <2>2
    <3>7. \A u \in Units : (u \in v.inCombat <=> HasCombat(v, u))
                             \/ \E o \in E : u = o[1] \/ u = o[2]
      BY <2>2, <3>3 DEF RefsOK
    <3> QED BY <3>4, <3>5, <3>6, <3>7 DEF RefsOK
  <2> QED BY <2>5, <2>6 DEF v
<1> QED BY <1>1, <1>2, <1>3

-----------------------------------------------------------------------------
(* The threat lists. *)

(* An outcome that changed threat lists only: the threat is T afterwards. *)
Rethreatened(w, o, T) ==
  /\ o.m \in Managers /\ ThreatOK(o.m) /\ SameRefs(w, o.m)
  /\ o.m.threat = T /\ o.tell \subseteq Units

LEMMA SelectFacts ==
  ASSUME NEW w \in Managers, NEW c \in Creatures, w.online \subseteq w.threat,
         \A d \in Creatures : d # c /\ w.victim[d] # None => <<d, w.victim[d]>> \in w.threat,
         NEW o \in UpdateVictim(w, c)
  PROVE  Rethreatened(w, o, w.threat)
<1> DEFINE avail == {u \in Units : <<c, u>> \in w.threat /\ ~ShouldBeOffline(u)}
           online == {e \in w.online : e[1] # c} \cup {<<c, u>> : u \in avail}
           told == {u \in avail : <<c, u>> \notin w.online}
           New(v) == [w EXCEPT !.online = online, !.victim[c] = v]
<1>1. PICK v : /\ v \in IF avail = {} THEN {None} ELSE avail
               /\ o = [m |-> New(v), tell |-> told]
  BY DEF UpdateVictim
<1>2. v \in Units \cup {None} /\ (v # None => <<c, v>> \in w.threat)
  BY <1>1, CombatAssumption
<1>3. online \subseteq w.threat /\ told \subseteq Units
  OBVIOUS
<1>4. w.threat \subseteq Creatures \X Units
  BY DEF Managers
<1> HIDE DEF online, told
<1>5. New(v) \in Managers
  BY <1>2, <1>3, <1>4 DEF Managers
<1>6. /\ New(v).objs = w.objs /\ New(v).listed = w.listed /\ New(v).suppressed = w.suppressed
      /\ New(v).inCombat = w.inCombat /\ New(v).ok = w.ok /\ New(v).threat = w.threat
      /\ New(v).online = online
  BY DEF Managers
<1>7. \A d \in Creatures : New(v).victim[d] = IF d = c THEN v ELSE w.victim[d]
  BY DEF Managers
<1>8. o.m = New(v) /\ o.tell = told
  BY <1>1
<1> HIDE DEF New
<1>9. ThreatOK(New(v))
  BY <1>2, <1>3, <1>6, <1>7 DEF ThreatOK
<1> QED BY <1>3, <1>5, <1>6, <1>8, <1>9 DEF Rethreatened, SameRefs

LEMMA UnregisterFacts ==
  ASSUME NEW w \in Managers, ThreatOK(w), NEW c \in Creatures, NEW us \in SUBSET Units
  PROVE  LET v == Unregister(w, c, us)
         IN  /\ v \in Managers /\ ThreatOK(v) /\ SameRefs(w, v)
             /\ v.threat = w.threat \ ({c} \X us)
<1> DEFINE T == w.threat \ ({c} \X us)
           N == w.online \ ({c} \X us)
           k == IF w.victim[c] \in us THEN None ELSE w.victim[c]
           v == Unregister(w, c, us)
<1>1. v = [w EXCEPT !.threat = T, !.online = N, !.victim[c] = k]
  BY DEF Unregister, Managers
<1>2. T \in SUBSET (Creatures \X Units) /\ N \in SUBSET (Creatures \X Units) /\ N \subseteq T
  BY DEF Managers, ThreatOK
<1>3. k \in Units \cup {None} /\ (k # None => <<c, k>> \in T)
  BY DEF Managers, ThreatOK
<1>4. \A d \in Creatures : d # c /\ w.victim[d] # None => <<d, w.victim[d]>> \in T
  BY DEF ThreatOK
<1>0. T = w.threat \ ({c} \X us)
  OBVIOUS
<1> HIDE DEF T, N, k
<1>5. v \in Managers
  <2> DEFINE K == [w.victim EXCEPT ![c] = k]
  <2>1. K \in [Creatures -> Units \cup {None}]
    BY <1>3 DEF Managers
  <2>2. v = [w EXCEPT !.threat = T, !.online = N, !.victim = K]
    BY <1>1
  <2> HIDE DEF K, v
  <2> QED BY <1>2, <2>1, <2>2 DEF Managers
<1>6. /\ v.objs = w.objs /\ v.listed = w.listed /\ v.suppressed = w.suppressed
      /\ v.inCombat = w.inCombat /\ v.ok = w.ok /\ v.threat = T /\ v.online = N
  BY <1>1 DEF Managers
<1>7. \A d \in Creatures : v.victim[d] = IF d = c THEN k ELSE w.victim[d]
  BY <1>1 DEF Managers
<1> HIDE DEF v
<1>8. ThreatOK(v)
  BY <1>2, <1>3, <1>4, <1>6, <1>7 DEF ThreatOK
<1> QED BY <1>0, <1>5, <1>6, <1>8 DEF SameRefs, v

LEMMA ClearThreatFacts ==
  ASSUME NEW w \in Managers, ThreatOK(w), NEW c \in Units, NEW u \in Units,
         NEW o \in ClearThreat(w, c, u)
  PROVE  Rethreatened(w, o, w.threat \ {<<c, u>>})
<1> DEFINE gone == Unregister(w, c, {u})
<1>1. CASE c \in Players \/ <<c, u>> \notin w.threat
  <2>1. o = [m |-> w, tell |-> {}]
    BY <1>1 DEF ClearThreat
  <2>2. o.m = w /\ o.tell = {}
    BY <2>1
  <2>3. <<c, u>> \notin w.threat
    BY <1>1, CombatAssumption DEF Managers
  <2>4. w.threat \ {<<c, u>>} = w.threat
    BY <2>3
  <2> QED BY <2>2, <2>4 DEF Rethreatened, SameRefs
<1>2. CASE ~(c \in Players \/ <<c, u>> \notin w.threat)
  <2>0. c \in Creatures
    BY <1>2 DEF Units
  <2>1. /\ gone \in Managers /\ ThreatOK(gone) /\ SameRefs(w, gone)
        /\ gone.threat = w.threat \ ({c} \X {u})
    BY <2>0, UnregisterFacts
  <2>2. {c} \X {u} = {<<c, u>>}
    OBVIOUS
  <2>3. \/ o \in UpdateVictim(gone, c)
        \/ o = [m |-> gone, tell |-> {}]
    BY <1>2 DEF ClearThreat
  <2> HIDE DEF gone
  <2>4. CASE o \in UpdateVictim(gone, c)
    <3>1. Rethreatened(gone, o, gone.threat)
      BY <2>0, <2>1, <2>4, SelectFacts DEF ThreatOK
    <3> QED BY <2>1, <2>2, <3>1 DEF Rethreatened, SameRefs
  <2>5. CASE o = [m |-> gone, tell |-> {}]
    <3>1. o.m = gone /\ o.tell = {}
      BY <2>5
    <3> QED BY <2>1, <2>2, <3>1 DEF Rethreatened, SameRefs
  <2> QED BY <2>3, <2>4, <2>5
<1> QED BY <1>1, <1>2

(* AddThreat: combat first, then threat, which needs the combat. *)
Threatens(w, o, c, u, E) ==
  \E v \in Managers :
    /\ Engages(w, v, c, u) /\ (v.ok = TRUE => RefsOK(v, E))
    /\ \E T : /\ Rethreatened(v, o, T)
              /\ T = w.threat \/ (T = w.threat \cup {<<c, u>>} /\ <<c, u>> \in v.listed)

LEMMA AddThreatFacts ==
  ASSUME NEW w \in Managers, ThreatOK(w), NEW c \in Creatures, NEW u \in Units,
         NEW E, RefsOK(w, E), NEW o \in AddThreat(w, c, u)
  PROVE  Threatens(w, o, c, u, E)
<1> DEFINE v == SetInCombatWith(w, c, u, FALSE)
           seen == IF ShouldBeOffline(u) THEN {} ELSE {u}
           T == w.threat \cup {<<c, u>>}
           N == w.online \cup ({c} \X seen)
           new == [v EXCEPT !.threat = @ \cup {<<c, u>>}, !.online = @ \cup ({c} \X seen)]
<1>1. c \in Units
  BY DEF Units
<1>2. Engages(w, v, c, u) /\ (v.ok = TRUE => RefsOK(v, E))
  BY <1>1, SetInCombatFacts
<1>3. v \in Managers /\ SameThreat(w, v)
  BY <1>2 DEF Engages
<1>4. ThreatOK(v)
  BY <1>3, SameThreatIsOK
<1>5. v.threat = w.threat /\ v.online = w.online
  BY <1>3 DEF SameThreat
<1>6. seen \subseteq {u}
  OBVIOUS
<1>7. \/ o = [m |-> v, tell |-> {}]
      \/ <<c, u>> \in v.listed /\ \E p \in UpdateVictim(new, c) : o = [p EXCEPT !.tell = @ \cup seen]
      \/ <<c, u>> \in v.listed /\ o = [m |-> new, tell |-> seen]
  BY DEF AddThreat
<1>8. T \in SUBSET (Creatures \X Units) /\ N \in SUBSET (Creatures \X Units) /\ N \subseteq T
  BY <1>6 DEF Managers, ThreatOK
<1>9. new = [v EXCEPT !.threat = T, !.online = N]
  BY <1>3, <1>5 DEF Managers
<1> HIDE DEF T, N, v, seen, new
<1>10. new \in Managers
  BY <1>3, <1>8, <1>9 DEF Managers
<1>11. /\ new.objs = v.objs /\ new.listed = v.listed /\ new.suppressed = v.suppressed
       /\ new.inCombat = v.inCombat /\ new.ok = v.ok
       /\ new.threat = T /\ new.online = N /\ new.victim = v.victim
  BY <1>3, <1>9 DEF Managers
<1>12. ThreatOK(new)
  BY <1>4, <1>5, <1>8, <1>11 DEF ThreatOK, T
<1>13. CASE o = [m |-> v, tell |-> {}]
  <2>1. o.m = v /\ o.tell = {}
    BY <1>13
  <2>2. Rethreatened(v, o, w.threat)
    BY <1>3, <1>4, <1>5, <2>1 DEF Rethreatened, SameRefs
  <2> QED BY <1>2, <1>3, <2>2 DEF Threatens
<1>14. CASE <<c, u>> \in v.listed /\ \E p \in UpdateVictim(new, c) : o = [p EXCEPT !.tell = @ \cup seen]
  <2>1. PICK p \in UpdateVictim(new, c) : o = [p EXCEPT !.tell = @ \cup seen]
    BY <1>14
  <2>2. Rethreatened(new, p, T)
    BY <1>10, <1>11, <1>12, SelectFacts DEF ThreatOK
  <2>3. PICK x, y : p = [m |-> x, tell |-> y]
    BY DEF UpdateVictim
  <2>4. o.m = p.m /\ o.tell = p.tell \cup seen
    BY <2>1, <2>3
  <2>5. Rethreatened(v, o, T)
    BY <1>6, <1>11, <2>2, <2>4 DEF Rethreatened, SameRefs
  <2> QED BY <1>2, <1>3, <1>14, <2>5 DEF Threatens, T
<1>15. CASE <<c, u>> \in v.listed /\ o = [m |-> new, tell |-> seen]
  <2>1. o.m = new /\ o.tell = seen
    BY <1>15
  <2>2. Rethreatened(v, o, T)
    BY <1>6, <1>10, <1>11, <1>12, <2>1 DEF Rethreatened, SameRefs
  <2> QED BY <1>2, <1>3, <1>15, <2>2 DEF Threatens, T
<1> QED BY <1>7, <1>13, <1>14, <1>15

-----------------------------------------------------------------------------
(* Frames. *)

LEMMA FrameFacts ==
  ASSUME NEW f \in Frame
  PROVE  /\ f.at = "ai" => f.who \in Creatures /\ f.todo \subseteq Units
         /\ f.at = "script" => f.who \in Creatures /\ f.acts \in Nat
         /\ f.at = "lists" => f.who \in Units /\ f.todo \subseteq Creatures
         /\ f.at = "clearAll" => f.who \in Units
         /\ f.at = "pvp" => f.who \in Units /\ f.mutual \in BOOLEAN
         /\ f.at = "endAll" => f.todo \subseteq Pairs
         /\ f.at = "end" => f.ref \in Pairs /\ f.step \in 1 .. 3
         /\ f.at = "loop" => f.who \in Players /\ f.todo \subseteq Units
         /\ f.at = "home" => f.who \in Creatures
         /\ f.at = "gone" => f.who \in Players
BY DEF Frame, AiFrame, ScriptFrame, ListsFrame, ClearAllFrame, PvPFrame, EndAllFrame,
       EndFrame, LoopFrame, HomeFrame, GoneFrame

LEMMA NewFrames ==
  /\ \A c \in Creatures, us \in SUBSET Units :
       /\ Ai(c, us) \in Frame /\ Ai(c, us).at = "ai"
       /\ Ai(c, us).who = c /\ Ai(c, us).todo = us
  /\ \A c \in Creatures, n \in Nat : Script(c, n) \in Frame /\ Script(c, n).at = "script"
  /\ \A u \in Units, cs \in SUBSET Creatures :
       /\ Lists(u, cs) \in Frame /\ Lists(u, cs).at = "lists"
       /\ Lists(u, cs).who = u /\ Lists(u, cs).todo = cs
  /\ \A u \in Units :
       ClearAll(u) \in Frame /\ ClearAll(u).at = "clearAll" /\ ClearAll(u).who = u
  /\ \A os \in SUBSET Pairs :
       EndAll(os) \in Frame /\ EndAll(os).at = "endAll" /\ EndAll(os).todo = os
  /\ \A o \in Pairs, n \in 1 .. 3 :
       /\ End(o, n) \in Frame /\ End(o, n).at = "end"
       /\ End(o, n).ref = o /\ End(o, n).step = n
  /\ \A p \in Players, us \in SUBSET Units :
       Loop(p, us) \in Frame /\ Loop(p, us).at = "loop"
  /\ \A c \in Creatures : Home(c) \in Frame /\ Home(c).at = "home"
  /\ \A p \in Players : Gone(p) \in Frame /\ Gone(p).at = "gone" /\ Gone(p).who = p
BY DEF Frame, AiFrame, ScriptFrame, ListsFrame, ClearAllFrame, EndAllFrame,
       EndFrame, LoopFrame, HomeFrame, GoneFrame, Ai, Script, Lists, ClearAll, EndAll,
       End, Loop, Home, Gone

LEMMA NewPvPFrame ==
  \A u \in Units, b \in BOOLEAN :
    PvP(u, b) \in Frame /\ PvP(u, b).at = "pvp" /\ PvP(u, b).who = u /\ PvP(u, b).mutual = b
BY DEF Frame, PvPFrame, PvP

(* A loop that has done x. *)
Fewer(f, x) == [f EXCEPT !.todo = @ \ {x}]

LEMMA FewerFacts ==
  ASSUME NEW f \in Frame, f.at \in {"ai", "lists", "endAll", "loop"}, NEW x
  PROVE  /\ Fewer(f, x) \in Frame /\ Fewer(f, x).at = f.at
         /\ Fewer(f, x).todo = f.todo \ {x}
         /\ f.at # "endAll" => Fewer(f, x).who = f.who
<1>1. CASE f.at = "ai"
  <2>1. f \in AiFrame
    BY <1>1 DEF Frame, AiFrame, ScriptFrame, ListsFrame, ClearAllFrame, PvPFrame, EndAllFrame,
       EndFrame, LoopFrame, HomeFrame, GoneFrame
  <2>2. /\ Fewer(f, x) \in AiFrame /\ Fewer(f, x).at = f.at
        /\ Fewer(f, x).todo = f.todo \ {x} /\ Fewer(f, x).who = f.who
    BY <2>1 DEF AiFrame, Fewer
  <2> QED BY <2>2 DEF Frame
<1>2. CASE f.at = "lists"
  <2>1. f \in ListsFrame
    BY <1>2 DEF Frame, AiFrame, ScriptFrame, ListsFrame, ClearAllFrame, PvPFrame, EndAllFrame,
       EndFrame, LoopFrame, HomeFrame, GoneFrame
  <2>2. /\ Fewer(f, x) \in ListsFrame /\ Fewer(f, x).at = f.at
        /\ Fewer(f, x).todo = f.todo \ {x} /\ Fewer(f, x).who = f.who
    BY <2>1 DEF ListsFrame, Fewer
  <2> QED BY <2>2 DEF Frame
<1>3. CASE f.at = "endAll"
  <2>1. f \in EndAllFrame
    BY <1>3 DEF Frame, AiFrame, ScriptFrame, ListsFrame, ClearAllFrame, PvPFrame, EndAllFrame,
       EndFrame, LoopFrame, HomeFrame, GoneFrame
  <2>2. /\ Fewer(f, x) \in EndAllFrame /\ Fewer(f, x).at = f.at
        /\ Fewer(f, x).todo = f.todo \ {x}
    BY <2>1 DEF EndAllFrame, Fewer
  <2> QED BY <1>3, <2>2 DEF Frame
<1>4. CASE f.at = "loop"
  <2>1. f \in LoopFrame
    BY <1>4 DEF Frame, AiFrame, ScriptFrame, ListsFrame, ClearAllFrame, PvPFrame, EndAllFrame,
       EndFrame, LoopFrame, HomeFrame, GoneFrame
  <2>2. /\ Fewer(f, x) \in LoopFrame /\ Fewer(f, x).at = f.at
        /\ Fewer(f, x).todo = f.todo \ {x} /\ Fewer(f, x).who = f.who
    BY <2>1 DEF LoopFrame, Fewer
  <2> QED BY <2>2 DEF Frame
<1> QED BY <1>1, <1>2, <1>3, <1>4

-----------------------------------------------------------------------------
(* The stack: what a call and a return do to the invariants. *)

LEMMA PushFacts ==
  ASSUME NEW s \in Seq(Frame), NEW f \in Frame
  PROVE  LET t == <<f>> \o s
         IN  /\ t \in Seq(Frame) /\ Len(t) = Len(s) + 1 /\ t # <<>> /\ t[1] = f
             /\ \A i \in 1 .. Len(s) : t[i + 1] = s[i]
             /\ Frames(t) = {f} \cup Frames(s)
<1> DEFINE t == <<f>> \o s
<1>1. t \in Seq(Frame) /\ Len(t) = Len(s) + 1 /\ t # <<>> /\ t[1] = f
  OBVIOUS
<1>2. \A i \in 1 .. Len(s) : t[i + 1] = s[i]
  OBVIOUS
<1>3. Len(s) \in Nat
  OBVIOUS
<1> HIDE DEF t
<1>4. ASSUME NEW g \in Frames(t) PROVE g \in {f} \cup Frames(s)
  <2>1. PICK i \in 1 .. Len(t) : g = t[i]
    BY <1>4 DEF Frames
  <2>2. CASE i = 1
    BY <2>1, <2>2, <1>1
  <2>3. CASE i > 1
    <3>1. i - 1 \in 1 .. Len(s) /\ (i - 1) + 1 = i
      BY <2>1, <2>3, <1>1, <1>3
    <3>2. g = s[i - 1]
      BY <2>1, <3>1, <1>2
    <3> QED BY <3>1, <3>2 DEF Frames
  <2> QED BY <2>1, <2>2, <2>3
<1>5. ASSUME NEW g \in Frames(s) PROVE g \in Frames(t)
  <2>1. PICK i \in 1 .. Len(s) : g = s[i]
    BY <1>5 DEF Frames
  <2>2. i + 1 \in 1 .. Len(t) /\ g = t[i + 1]
    BY <2>1, <1>1, <1>2, <1>3
  <2> QED BY <2>2 DEF Frames
<1>6. f \in Frames(t)
  BY <1>1, <1>3 DEF Frames
<1>7. Frames(t) = {f} \cup Frames(s)
  BY <1>4, <1>5, <1>6
<1> QED BY <1>1, <1>2, <1>7 DEF t

LEMMA PopFacts ==
  ASSUME NEW s \in Seq(Frame), s # <<>>
  PROVE  /\ Head(s) \in Frame /\ Head(s) = s[1] /\ Len(s) >= 1
         /\ Tail(s) \in Seq(Frame) /\ Len(Tail(s)) = Len(s) - 1
         /\ \A i \in 1 .. Len(Tail(s)) : Tail(s)[i] = s[i + 1]
         /\ Frames(s) = {Head(s)} \cup Frames(Tail(s))
<1>1. Head(s) \in Frame /\ Head(s) = s[1] /\ Len(s) >= 1 /\ Tail(s) \in Seq(Frame)
  OBVIOUS
<1>2. Len(Tail(s)) = Len(s) - 1 /\ \A i \in 1 .. Len(Tail(s)) : Tail(s)[i] = s[i + 1]
  OBVIOUS
<1>3. s = <<Head(s)>> \o Tail(s)
  <2>1. Len(<<Head(s)>> \o Tail(s)) = Len(s) /\ <<Head(s)>> \o Tail(s) \in Seq(Frame)
    BY <1>1, <1>2
  <2>2. \A i \in 1 .. Len(s) : (<<Head(s)>> \o Tail(s))[i] = s[i]
    BY <1>1, <1>2
  <2> QED BY <2>1, <2>2
<1>4. Frames(<<Head(s)>> \o Tail(s)) = {Head(s)} \cup Frames(Tail(s))
  BY <1>1, PushFacts
<1> QED BY <1>1, <1>2, <1>3, <1>4

LEMMA FramesAreFrames ==
  ASSUME NEW s \in Seq(Frame)
  PROVE  Frames(s) \subseteq Frame
BY DEF Frames

LEMMA EmptyStack ==
  /\ <<>> \in Seq(Frame) /\ Frames(<<>>) = {}
  /\ BottomOK(<<>>) /\ ShapeOK(<<>>) /\ GoneOK(<<>>)
BY DEF Frames, BottomOK, ShapeOK, GoneOK, GoneEnd

(* Nothing on the stack uses a reference. *)
Quiet(s) == \A f \in Frames(s) : f.at \notin {"lists", "end", "endAll"}

LEMMA PushBottom ==
  ASSUME NEW s \in Seq(Frame), NEW f \in Frame, BottomOK(s),
         f.at \notin {"loop", "gone"} \/ s = <<>>
  PROVE  BottomOK(<<f>> \o s)
<1> DEFINE t == <<f>> \o s
<1>1. /\ t \in Seq(Frame) /\ Len(t) = Len(s) + 1 /\ t[1] = f
      /\ \A i \in 1 .. Len(s) : t[i + 1] = s[i]
  BY PushFacts
<1>2. Len(s) \in Nat /\ (s = <<>> => Len(s) = 0)
  OBVIOUS
<1> HIDE DEF t
<1>3. ASSUME NEW i \in 1 .. Len(t), t[i].at \in {"loop", "gone"} PROVE i = Len(t)
  <2>1. CASE i = 1
    BY <2>1, <1>1, <1>2, <1>3
  <2>2. CASE i > 1
    <3>1. i - 1 \in 1 .. Len(s) /\ t[i] = s[i - 1]
      BY <2>2, <1>1, <1>2
    <3>2. i - 1 = Len(s)
      BY <1>3, <3>1 DEF BottomOK
    <3> QED BY <3>2, <1>1, <1>2
  <2> QED BY <2>1, <2>2
<1> QED BY <1>3 DEF BottomOK, t

LEMMA PopBottom ==
  ASSUME NEW s \in Seq(Frame), s # <<>>, BottomOK(s)
  PROVE  BottomOK(Tail(s)) /\ (Head(s).at \in {"loop", "gone"} => Tail(s) = <<>>)
<1> DEFINE t == Tail(s)
<1>1. /\ Head(s) = s[1] /\ Len(s) >= 1 /\ Len(s) \in Nat
      /\ t \in Seq(Frame) /\ Len(t) = Len(s) - 1
      /\ \A i \in 1 .. Len(t) : t[i] = s[i + 1]
  BY PopFacts
<1> HIDE DEF t
<1>2. BottomOK(t)
  <2>1. ASSUME NEW i \in 1 .. Len(t), t[i].at \in {"loop", "gone"} PROVE i = Len(t)
    <3>1. i + 1 \in 1 .. Len(s) /\ s[i + 1].at \in {"loop", "gone"}
      BY <2>1, <1>1
    <3>2. i + 1 = Len(s)
      BY <3>1 DEF BottomOK
    <3> QED BY <3>2, <1>1
  <2> QED BY <2>1 DEF BottomOK
<1>3. ASSUME Head(s).at \in {"loop", "gone"} PROVE t = <<>>
  <2>1. Len(s) = 1
    BY <1>1, <1>3 DEF BottomOK
  <2> QED BY <1>1, <2>1
<1> QED BY <1>2, <1>3 DEF t

(* The first frame and the others. *)
LEMMA TopIs ==
  ASSUME NEW s \in Seq(Frame), s # <<>>
  PROVE  s[1] \in Frames(s) /\ Len(s) \in Nat /\ Len(s) >= 1
BY DEF Frames

(* Nothing below the end of o collects threat or ends another combat, and a  *)
(* loop below it is done with o.                                             *)
Light(s, o) ==
  \A f \in Frames(s) : f.at \notin {"lists", "end"} /\ (f.at = "endAll" => o \notin f.todo)

LEMMA QuietIsLight ==
  ASSUME NEW s, Quiet(s), NEW o
  PROVE  Light(s, o)
BY DEF Quiet, Light

LEMMA PushShape ==
  ASSUME NEW s \in Seq(Frame), NEW f \in Frame, ShapeOK(s),
         \/ Quiet(s)
         \/ f.at = "ai" /\ s[1].at # "endAll"
         \/ f.at = "end" /\ Light(s, f.ref)
  PROVE  ShapeOK(<<f>> \o s)
<1> DEFINE t == <<f>> \o s
<1>1. /\ t \in Seq(Frame) /\ Len(t) = Len(s) + 1 /\ t[1] = f
      /\ \A i \in 1 .. Len(s) : t[i + 1] = s[i]
  BY PushFacts
<1>2. Len(s) \in Nat
  OBVIOUS
<1>3. \A i \in 1 .. Len(t) : i > 1 => i - 1 \in 1 .. Len(s) /\ t[i] = s[i - 1] /\ s[i - 1] \in Frames(s)
  <2> TAKE i \in 1 .. Len(t)
  <2> HAVE i > 1
  <2>1. i - 1 \in 1 .. Len(s) /\ (i - 1) + 1 = i
    BY <1>1, <1>2
  <2> QED BY <2>1, <1>1 DEF Frames
<1> HIDE DEF t
<1>4. ASSUME NEW i \in 1 .. Len(t), t[i].at \in {"lists", "end"}, NEW j \in 1 .. i - 1
      PROVE  t[j].at = "ai"
  <2>1. i > 1 /\ i - 1 \in 1 .. Len(s) /\ s[i - 1].at \in {"lists", "end"} /\ s[i - 1] \in Frames(s)
    BY <1>3, <1>4
  <2>2. f.at = "ai"
    BY <2>1 DEF Quiet, Light
  <2>3. CASE j = 1
    BY <2>2, <2>3, <1>1
  <2>4. CASE j > 1
    <3>1. j - 1 \in 1 .. (i - 1) - 1 /\ j \in 1 .. Len(t)
      BY <2>4, <1>1, <1>2
    <3>2. t[j] = s[j - 1]
      BY <1>3, <2>4, <3>1
    <3> QED BY <2>1, <3>1, <3>2 DEF ShapeOK
  <2> QED BY <2>3, <2>4
<1>5. ASSUME NEW i \in 1 .. Len(t), t[i].at = "endAll"
      PROVE  /\ \A j \in 1 .. i - 1 : t[j].at \in {"ai", "end"}
             /\ i > 1 => t[i - 1].at = "end" /\ t[i - 1].ref \notin t[i].todo
  <2>1. CASE i = 1
    BY <2>1
  <2>2. CASE i > 1
    <3>1. i - 1 \in 1 .. Len(s) /\ t[i] = s[i - 1] /\ s[i - 1].at = "endAll" /\ s[i - 1] \in Frames(s)
      BY <1>3, <1>5, <2>2
    <3>2. \/ f.at = "ai" /\ s[1].at # "endAll"
          \/ f.at = "end" /\ Light(s, f.ref)
      BY <3>1 DEF Quiet
    <3>3. \A j \in 1 .. i - 1 : t[j].at \in {"ai", "end"}
      <4> TAKE j \in 1 .. i - 1
      <4>1. CASE j = 1
        BY <4>1, <3>2, <1>1
      <4>2. CASE j > 1
        <5>1. j - 1 \in 1 .. (i - 1) - 1 /\ j \in 1 .. Len(t)
          BY <4>2, <1>1, <1>2
        <5>2. t[j] = s[j - 1]
          BY <1>3, <4>2, <5>1
        <5> QED BY <3>1, <5>1, <5>2 DEF ShapeOK
      <4> QED BY <4>1, <4>2
    <3>4. CASE i = 2
      <4>1. s[i - 1] = s[1] /\ t[i - 1] = f
        BY <3>4, <1>1
      <4>2. f.at = "end" /\ Light(s, f.ref)
        BY <3>1, <3>2, <4>1
      <4>3. f.ref \notin s[i - 1].todo
        BY <3>1, <4>2 DEF Light
      <4> QED BY <3>1, <3>3, <4>1, <4>2, <4>3
    <3>5. CASE i > 2
      <4>1. i - 1 > 1 /\ i - 1 \in 1 .. Len(t) /\ (i - 1) - 1 \in 1 .. Len(s)
        BY <3>5, <1>1, <1>2
      <4>2. t[i - 1] = s[(i - 1) - 1]
        BY <4>1, <1>3
      <4>3. s[(i - 1) - 1].at = "end" /\ s[(i - 1) - 1].ref \notin s[i - 1].todo
        BY <3>1, <4>1 DEF ShapeOK
      <4> QED BY <3>1, <3>3, <4>2, <4>3
    <3> QED BY <2>2, <3>4, <3>5
  <2> QED BY <2>1, <2>2
<1> QED BY <1>4, <1>5 DEF ShapeOK, t

LEMMA PopShape ==
  ASSUME NEW s \in Seq(Frame), s # <<>>, ShapeOK(s)
  PROVE  /\ ShapeOK(Tail(s))
         /\ Head(s).at \notin {"ai", "end"} => Quiet(Tail(s))
         /\ Head(s).at = "end" => Light(Tail(s), Head(s).ref)
         /\ Head(s).at = "ai" /\ Tail(s) # <<>> => Tail(s)[1].at # "endAll"
<1> DEFINE t == Tail(s)
<1>1. /\ Head(s) = s[1] /\ Len(s) >= 1 /\ Len(s) \in Nat
      /\ t \in Seq(Frame) /\ Len(t) = Len(s) - 1
      /\ \A i \in 1 .. Len(t) : t[i] = s[i + 1]
  BY PopFacts
<1> HIDE DEF t
<1>2. ASSUME NEW i \in 1 .. Len(t), t[i].at \in {"lists", "end"}, NEW j \in 1 .. i - 1
      PROVE  t[j].at = "ai"
  <2>1. /\ i + 1 \in 1 .. Len(s) /\ s[i + 1] = t[i]
        /\ j + 1 \in 1 .. (i + 1) - 1 /\ s[j + 1] = t[j]
    BY <1>1
  <2> QED BY <1>2, <2>1 DEF ShapeOK
<1>3. ASSUME NEW i \in 1 .. Len(t), t[i].at = "endAll"
      PROVE  /\ \A j \in 1 .. i - 1 : t[j].at \in {"ai", "end"}
             /\ i > 1 => t[i - 1].at = "end" /\ t[i - 1].ref \notin t[i].todo
  <2>1. i + 1 \in 1 .. Len(s) /\ s[i + 1] = t[i] /\ i + 1 > 1 /\ (i + 1) - 1 = i
    BY <1>1
  <2>2. ASSUME NEW j \in 1 .. i - 1 PROVE t[j].at \in {"ai", "end"}
    <3>1. j + 1 \in 1 .. (i + 1) - 1 /\ s[j + 1] = t[j]
      BY <1>1
    <3> QED BY <1>3, <2>1, <3>1 DEF ShapeOK
  <2>3. s[i].at = "end" /\ s[i].ref \notin s[i + 1].todo
    BY <1>3, <2>1 DEF ShapeOK
  <2>4. ASSUME i > 1 PROVE t[i - 1] = s[i]
    BY <2>4, <1>1
  <2> QED BY <2>1, <2>2, <2>3, <2>4
<1>4. ShapeOK(t)
  BY <1>2, <1>3 DEF ShapeOK
<1>5. ASSUME NEW f \in Frames(t)
      PROVE  /\ f.at \in {"lists", "end"} => Head(s).at = "ai"
             /\ f.at = "endAll" => Head(s).at \in {"ai", "end"}
             /\ f.at = "endAll" /\ Head(s).at = "end" => Head(s).ref \notin f.todo
  <2>1. PICK i \in 1 .. Len(t) : f = t[i]
    BY <1>5 DEF Frames
  <2>2. /\ i + 1 \in 1 .. Len(s) /\ s[i + 1] = f /\ 1 \in 1 .. (i + 1) - 1
        /\ i + 1 > 1 /\ (i + 1) - 1 = i /\ i \in 1 .. Len(s)
    BY <2>1, <1>1
  <2>3. f.at \in {"lists", "end"} => Head(s).at = "ai"
    BY <2>2, <1>1 DEF ShapeOK
  <2>4. f.at = "endAll" => Head(s).at \in {"ai", "end"}
    BY <2>2, <1>1 DEF ShapeOK
  <2>5. ASSUME f.at = "endAll", Head(s).at = "end" PROVE Head(s).ref \notin f.todo
    <3>1. s[i].at = "end" /\ s[i].ref \notin f.todo
      BY <2>2, <2>5 DEF ShapeOK
    <3>2. CASE i = 1
      BY <3>1, <3>2, <1>1
    <3>3. CASE i > 1
      <4>1. 1 \in 1 .. i - 1
        BY <3>3
      <4>2. s[1].at = "ai"
        BY <2>2, <3>1, <4>1 DEF ShapeOK
      <4> QED BY <4>2, <1>1, <2>5
    <3> QED BY <3>2, <3>3
  <2> QED BY <2>3, <2>4, <2>5
<1>6. ASSUME Head(s).at = "ai", t # <<>> PROVE t[1].at # "endAll"
  <2>1. 1 \in 1 .. Len(t) /\ 2 \in 1 .. Len(s) /\ t[1] = s[2]
    BY <1>1, <1>6
  <2>2. s[2].at = "endAll" => s[2 - 1].at = "end"
    BY <2>1 DEF ShapeOK
  <2>3. 2 - 1 = 1
    OBVIOUS
  <2> QED BY <1>1, <1>6, <2>1, <2>2, <2>3
<1>7. Head(s).at \notin {"ai", "end"} => Quiet(t)
  BY <1>5 DEF Quiet
<1>8. Head(s).at = "end" => Light(t, Head(s).ref)
  BY <1>5 DEF Light
<1> QED BY <1>4, <1>6, <1>7, <1>8 DEF t

(* While a player leaves the map. *)
LEMMA PushGone ==
  ASSUME NEW s \in Seq(Frame), NEW f \in Frame, GoneOK(s),
         GoneEnd(s) => \/ Collecting(s)
                       \/ f.at \in {"end", "endAll", "pvp"} /\ s[1].at # "ai"
                       \/ f.at = "ai" /\ s[1].at = "end"
  PROVE  GoneOK(<<f>> \o s) /\ (Collecting(s) => Collecting(<<f>> \o s))
<1> DEFINE t == <<f>> \o s
<1>1. /\ t \in Seq(Frame) /\ Len(t) = Len(s) + 1 /\ t[1] = f
      /\ \A i \in 1 .. Len(s) : t[i + 1] = s[i]
  BY PushFacts
<1>2. Len(s) \in Nat /\ (s # <<>> => Len(s) >= 1)
  OBVIOUS
<1> HIDE DEF t
<1>3. ASSUME Collecting(s) PROVE Collecting(t)
  <2>1. Len(s) >= 3 /\ Len(s) \in 1 .. Len(s) /\ Len(s) - 1 \in 1 .. Len(s) /\ Len(s) - 2 \in 1 .. Len(s)
    BY <1>2, <1>3 DEF Collecting
  <2>2. Len(t) - 1 = (Len(s) - 1) + 1 /\ Len(t) - 2 = (Len(s) - 2) + 1
    BY <1>1, <1>2
  <2>3. t[Len(t)] = s[Len(s)] /\ t[Len(t) - 1] = s[Len(s) - 1] /\ t[Len(t) - 2] = s[Len(s) - 2]
    BY <1>1, <2>1, <2>2
  <2> QED BY <1>1, <1>3, <2>1, <2>3 DEF Collecting
<1>4. ASSUME GoneEnd(t), ~Collecting(s) PROVE Finishing(t)
  <2>1. CASE s = <<>>
    <3>1. Len(t) = 1 /\ t[1].at = "gone"
      BY <1>1, <1>4, <2>1 DEF GoneEnd
    <3> QED BY <3>1 DEF Finishing
  <2>2. CASE s # <<>>
    <3>1. t[Len(t)] = s[Len(s)] /\ Len(s) \in 1 .. Len(s)
      BY <1>1, <1>2, <2>2
    <3>2. GoneEnd(s)
      BY <1>4, <2>2, <3>1 DEF GoneEnd
    <3>3. Finishing(s)
      BY <1>4, <3>2 DEF GoneOK
    <3>4. ASSUME NEW j \in 1 .. Len(t) - 1 PROVE t[j].at \in {"ai", "end", "endAll", "pvp"}
      <4>1. CASE j = 1
        BY <1>1, <1>4, <3>2, <4>1
      <4>2. CASE j > 1
        <5>1. j - 1 \in 1 .. Len(s) - 1 /\ j - 1 \in 1 .. Len(s) /\ (j - 1) + 1 = j
          BY <1>1, <1>2, <4>2
        <5>2. t[j] = s[j - 1]
          BY <1>1, <5>1
        <5> QED BY <3>3, <5>1, <5>2 DEF Finishing
      <4> QED BY <4>1, <4>2
    <3>5. ASSUME NEW j \in 1 .. Len(t), t[j].at = "ai" PROVE j = 1 /\ t[2].at = "end"
      <4>0. 1 \in 1 .. Len(s) /\ 1 + 1 = 2
        BY <1>2, <2>2
      <4>00. t[2] = s[1]
        BY <1>1, <4>0
      <4>1. CASE j = 1
        BY <1>1, <1>4, <3>2, <3>5, <4>1, <4>00
      <4>2. CASE j > 1
        <5>1. j - 1 \in 1 .. Len(s) /\ (j - 1) + 1 = j
          BY <1>1, <1>2, <4>2
        <5>2. t[j] = s[j - 1]
          BY <1>1, <5>1
        <5>3. j - 1 = 1 /\ s[j - 1].at = "ai"
          BY <3>3, <3>5, <5>1, <5>2 DEF Finishing
        <5>4. s[1].at = "ai" /\ s[2].at = "end"
          BY <5>3, <3>3, <5>1 DEF Finishing
        <5>5. FALSE
          BY <1>4, <3>2, <5>4
        <5> QED BY <5>5
      <4> QED BY <4>1, <4>2
    <3> QED BY <3>4, <3>5 DEF Finishing
  <2> QED BY <2>1, <2>2
<1> QED BY <1>3, <1>4 DEF GoneOK, t

LEMMA PopGone ==
  ASSUME NEW s \in Seq(Frame), s # <<>>, GoneOK(s)
  PROVE  /\ GoneOK(Tail(s))
         /\ GoneEnd(Tail(s)) =>
              /\ Head(s).at # "ai" => Collecting(Tail(s)) \/ Tail(s)[1].at # "ai"
              /\ Head(s).at = "ai" => Collecting(Tail(s)) \/ Tail(s)[1].at = "end"
              /\ Head(s).at \in {"lists", "script", "home"} => Collecting(Tail(s))
<1> DEFINE t == Tail(s)
<1>1. /\ Head(s) = s[1] /\ Len(s) >= 1 /\ Len(s) \in Nat
      /\ t \in Seq(Frame) /\ Len(t) = Len(s) - 1
      /\ \A i \in 1 .. Len(t) : t[i] = s[i + 1]
  BY PopFacts
<1> HIDE DEF t
<1> SUFFICES ASSUME GoneEnd(t)
             PROVE  /\ Collecting(t) \/ Finishing(t)
                    /\ Head(s).at # "ai" => Collecting(t) \/ t[1].at # "ai"
                    /\ Head(s).at = "ai" => Collecting(t) \/ t[1].at = "end"
                    /\ Head(s).at \in {"lists", "script", "home"} => Collecting(t)
  BY DEF GoneOK, t
<1>2. t # <<>> /\ Len(t) >= 1 /\ t[Len(t)].at = "gone" /\ Len(t) \in 1 .. Len(t)
  BY <1>1 DEF GoneEnd
<1>3. t[Len(t)] = s[Len(s)] /\ t[1] = s[2] /\ Len(s) >= 2
  BY <1>1, <1>2
<1>4. Collecting(s) \/ Finishing(s)
  BY <1>2, <1>3 DEF GoneOK, GoneEnd
<1>5. CASE Finishing(s)
  <2>1. s[1].at \in {"ai", "end", "endAll", "pvp"}
    BY <1>1, <1>3, <1>5 DEF Finishing
  <2>2. ASSUME NEW j \in 1 .. Len(t) - 1 PROVE t[j].at \in {"ai", "end", "endAll", "pvp"}
    <3>1. j + 1 \in 1 .. Len(s) - 1 /\ t[j] = s[j + 1]
      BY <1>1
    <3> QED BY <1>5, <3>1 DEF Finishing
  <2>3. ASSUME NEW j \in 1 .. Len(t) PROVE t[j].at # "ai"
    <3>1. j + 1 \in 1 .. Len(s) /\ j + 1 # 1 /\ t[j] = s[j + 1]
      BY <1>1
    <3> QED BY <1>5, <3>1 DEF Finishing
  <2>4. s[1].at = "ai" => s[2].at = "end"
    BY <1>1, <1>5 DEF Finishing
  <2>5. Finishing(t)
    BY <2>2, <2>3 DEF Finishing
  <2>6. t[1].at # "ai"
    BY <1>2, <2>3
  <2> QED BY <1>1, <1>3, <2>1, <2>4, <2>5, <2>6
<1>6. CASE Collecting(s) /\ Len(s) = 3
  <2>1. s[2].at = "pvp" /\ s[1].at = "clearAll" /\ Len(t) = 2 /\ t[2].at = "gone"
    BY <1>1, <1>2, <1>6 DEF Collecting
  <2>2. Finishing(t)
    BY <2>1, <1>3 DEF Finishing
  <2> QED BY <1>1, <1>3, <2>1, <2>2
<1>7. CASE Collecting(s) /\ Len(s) # 3
  <2>1. /\ Len(t) >= 3 /\ Len(t) - 1 \in 1 .. Len(t) /\ Len(t) - 2 \in 1 .. Len(t)
        /\ (Len(t) - 1) + 1 = Len(s) - 1 /\ (Len(t) - 2) + 1 = Len(s) - 2
    BY <1>1, <1>7 DEF Collecting
  <2>2. t[Len(t) - 1] = s[Len(s) - 1] /\ t[Len(t) - 2] = s[Len(s) - 2]
    BY <1>1, <2>1
  <2>3. Collecting(t)
    BY <1>3, <1>7, <2>1, <2>2 DEF Collecting
  <2> QED BY <2>3
<1> QED BY <1>4, <1>5, <1>6, <1>7

(* Only its own end on the stack makes a unit go. *)
LEMMA GoesByGone ==
  ASSUME NEW s \in Seq(Frame), BottomOK(s), NEW f \in Frames(s), f.at = "gone"
  PROVE  GoneEnd(s) /\ f = s[Len(s)]
<1>1. PICK i \in 1 .. Len(s) : f = s[i]
  BY DEF Frames
<1>2. i = Len(s)
  BY <1>1 DEF BottomOK
<1>3. s # <<>>
  BY <1>1
<1> QED BY <1>1, <1>2, <1>3 DEF GoneEnd

LEMMA CollectingCovers ==
  ASSUME NEW s \in Seq(Frame), Collecting(s)
  PROVE  \E f \in Frames(s) : f.at = "clearAll" /\ f.who = s[Len(s)].who
<1>1. Len(s) - 2 \in 1 .. Len(s)
  BY DEF Collecting
<1> QED BY <1>1 DEF Collecting, Frames

-----------------------------------------------------------------------------
(* The invariant in three parts, for any managers and any stack. *)

Base(w, s) ==
  /\ w \in Managers /\ ThreatOK(w) /\ s \in Seq(Frame) /\ BottomOK(s)
  /\ w.ok = TRUE => RefsOK(w, Ending(s))

Steady(w, s) ==
  /\ w.ok = TRUE /\ w.threat \subseteq w.listed
  /\ ShapeOK(s) /\ DueOK(w, s) /\ GoneOK(s)

LEMMA IInvIs ==
  CombatIInv <=>
    /\ Base(m, stack)
    /\ present \subseteq Units /\ hidden \subseteq Players
    /\ engaged \subseteq Creatures /\ evading \subseteq Creatures
    /\ handedOff \in BOOLEAN
    /\ handedOff = FALSE => Steady(m, stack) /\ CoverOK(m, stack, present)
BY TypeOKIs DEF CombatIInv, Base, Steady, CalmOK

LEMMA EndingPush ==
  ASSUME NEW s \in Seq(Frame), NEW f \in Frame
  PROVE  /\ Ending(s) \subseteq Ending(<<f>> \o s)
         /\ f.at # "end" => Ending(<<f>> \o s) = Ending(s)
         /\ f.at = "end" => Ending(<<f>> \o s) = Ending(s) \cup {f.ref}
<1>1. Frames(<<f>> \o s) = {f} \cup Frames(s)
  BY PushFacts
<1>2. f.at = "end" => f.ref \in Pairs
  BY FrameFacts
<1> QED BY <1>1, <1>2 DEF Ending

LEMMA EndingPop ==
  ASSUME NEW s \in Seq(Frame), s # <<>>
  PROVE  /\ Head(s).at # "end" => Ending(s) = Ending(Tail(s))
         /\ Head(s).at = "end" => Ending(s) = Ending(Tail(s)) \cup {Head(s).ref}
<1>1. Frames(s) = {Head(s)} \cup Frames(Tail(s)) /\ Head(s) \in Frame
  BY PopFacts
<1>2. Head(s).at = "end" => Head(s).ref \in Pairs
  BY <1>1, FrameFacts
<1> QED BY <1>1, <1>2 DEF Ending

LEMMA QuietEnding ==
  ASSUME NEW s, Quiet(s)
  PROVE  Ending(s) = {}
BY DEF Quiet, Ending

LEMMA BasePush ==
  ASSUME NEW w, NEW s, Base(w, s), NEW f \in Frame,
         f.at \notin {"loop", "gone"} \/ s = <<>>
  PROVE  Base(w, <<f>> \o s)
<1>1. <<f>> \o s \in Seq(Frame) /\ BottomOK(<<f>> \o s)
  BY PushFacts, PushBottom DEF Base
<1>2. Ending(s) \subseteq Ending(<<f>> \o s)
  BY EndingPush DEF Base
<1>3. w.ok = TRUE => RefsOK(w, Ending(<<f>> \o s))
  BY <1>2, RefsMonotone DEF Base
<1> QED BY <1>1, <1>3 DEF Base

LEMMA BasePop ==
  ASSUME NEW w, NEW s, Base(w, s), s # <<>>
  PROVE  /\ Head(s).at # "end" => Base(w, Tail(s))
         /\ Head(s) \in Frame /\ Tail(s) \in Seq(Frame) /\ BottomOK(Tail(s))
<1>1. Tail(s) \in Seq(Frame) /\ BottomOK(Tail(s)) /\ Head(s) \in Frame
  BY PopFacts, PopBottom DEF Base
<1>2. Head(s).at # "end" => Ending(s) = Ending(Tail(s))
  BY EndingPop DEF Base
<1> QED BY <1>1, <1>2 DEF Base

LEMMA BaseThreat ==
  ASSUME NEW w, NEW s, Base(w, s), NEW v \in Managers, ThreatOK(v), SameRefs(w, v)
  PROVE  Base(v, s)
<1>1. ASSUME v.ok = TRUE PROVE RefsOK(v, Ending(s))
  <2>1. w.ok = TRUE
    BY <1>1 DEF SameRefs
  <2> QED BY <2>1, RefsSame DEF Base
<1> QED BY <1>1 DEF Base

LEMMA SteadyPush ==
  ASSUME NEW w, NEW s \in Seq(Frame), Steady(w, s), NEW f \in Frame, FrameIsDue(w, f),
         \/ Quiet(s)
         \/ f.at = "ai" /\ s[1].at # "endAll"
         \/ f.at = "end" /\ Light(s, f.ref),
         GoneEnd(s) => \/ Collecting(s)
                       \/ f.at \in {"end", "endAll", "pvp"} /\ s[1].at # "ai"
                       \/ f.at = "ai" /\ s[1].at = "end"
  PROVE  Steady(w, <<f>> \o s) /\ (Collecting(s) => Collecting(<<f>> \o s))
<1>1. ShapeOK(<<f>> \o s)
  BY PushShape DEF Steady
<1>2. GoneOK(<<f>> \o s) /\ (Collecting(s) => Collecting(<<f>> \o s))
  BY PushGone DEF Steady
<1>3. Frames(<<f>> \o s) = {f} \cup Frames(s)
  BY PushFacts
<1>4. DueOK(w, <<f>> \o s)
  BY <1>3 DEF DueOK, Steady
<1> QED BY <1>1, <1>2, <1>4 DEF Steady

LEMMA SteadyPop ==
  ASSUME NEW w, NEW s \in Seq(Frame), Steady(w, s), s # <<>>
  PROVE  /\ Steady(w, Tail(s)) /\ FrameIsDue(w, Head(s))
         /\ Head(s).at \notin {"ai", "end"} => Quiet(Tail(s))
         /\ Head(s).at = "end" => Light(Tail(s), Head(s).ref)
         /\ Head(s).at = "ai" /\ Tail(s) # <<>> => Tail(s)[1].at # "endAll"
         /\ GoneEnd(Tail(s)) =>
              /\ Head(s).at # "ai" => Collecting(Tail(s)) \/ Tail(s)[1].at # "ai"
              /\ Head(s).at = "ai" => Collecting(Tail(s)) \/ Tail(s)[1].at = "end"
              /\ Head(s).at \in {"lists", "script", "home"} => Collecting(Tail(s))
<1>1. Frames(s) = {Head(s)} \cup Frames(Tail(s))
  BY PopFacts
<1>2. DueOK(w, Tail(s)) /\ FrameIsDue(w, Head(s))
  BY <1>1 DEF DueOK, Steady
<1>3. ShapeOK(s) /\ GoneOK(s)
  BY DEF Steady
<1>4. Steady(w, Tail(s))
  BY <1>2, <1>3, PopShape, PopGone DEF Steady
<1> QED BY <1>2, <1>3, <1>4, PopShape, PopGone

(* A stack on which nothing uses a reference fits any managers. *)
LEMMA SteadyQuiet ==
  ASSUME NEW w, NEW v, NEW s, Steady(w, s), Quiet(s), v.ok = TRUE, v.threat \subseteq v.listed
  PROVE  Steady(v, s)
BY DEF Steady, Quiet, DueOK, FrameIsDue

LEMMA CoverStep ==
  ASSUME NEW w, NEW v, NEW s, NEW t, NEW here, NEW now, CoverOK(w, s, here),
         v.objs \subseteq w.objs,
         \A u \in Units : Goes(t, u, now) => Goes(s, u, here),
         \A o \in v.objs, u \in Units : \A f \in Frames(s) :
           (u = o[1] \/ u = o[2]) /\ Covers(f, o, u) => \E g \in Frames(t) : Covers(g, o, u)
  PROVE  CoverOK(v, t, now)
BY DEF CoverOK

LEMMA CoverPush ==
  ASSUME NEW w, NEW s \in Seq(Frame), NEW here, CoverOK(w, s, here), NEW f \in Frame, f.at # "gone"
  PROVE  CoverOK(w, <<f>> \o s, here)
<1>1. Frames(<<f>> \o s) = {f} \cup Frames(s)
  BY PushFacts
<1>2. \A u \in Units : Goes(<<f>> \o s, u, here) => Goes(s, u, here)
  BY <1>1 DEF Goes
<1> QED BY <1>1, <1>2, CoverStep

LEMMA CoverPop ==
  ASSUME NEW w, NEW s \in Seq(Frame), NEW here, s # <<>>, CoverOK(w, s, here),
         \A o \in w.objs, u \in Units :
           (u = o[1] \/ u = o[2]) => ~Covers(Head(s), o, u)
  PROVE  CoverOK(w, Tail(s), here)
<1>1. Frames(s) = {Head(s)} \cup Frames(Tail(s))
  BY PopFacts
<1>2. \A u \in Units : Goes(Tail(s), u, here) => Goes(s, u, here)
  BY <1>1 DEF Goes
<1> QED BY <1>1, <1>2, CoverStep

(* A call of one of the other kinds ends no combat. *)
LEMMA OthersCoverNothing ==
  ASSUME NEW f, f.at \notin {"clearAll", "pvp", "endAll", "end"}, NEW o, NEW u
  PROVE  ~Covers(f, o, u)
BY DEF Covers

LEMMA CoverSame ==
  ASSUME NEW w, NEW v, NEW s, NEW here, CoverOK(w, s, here), v.objs = w.objs
  PROVE  CoverOK(v, s, here)
BY DEF CoverOK

-----------------------------------------------------------------------------
(* One step of a call. *)

LEMMA IInvNext ==
  ASSUME Base(m, stack)', (present \subseteq Units)', (hidden \subseteq Players)',
         (engaged \subseteq Creatures)', (evading \subseteq Creatures)', (handedOff \in BOOLEAN)',
         (handedOff = FALSE => Steady(m, stack) /\ CoverOK(m, stack, present))'
  PROVE  CombatIInv'
BY IInvIs, PTL

LEMMA CallStep ==
  ASSUME CombatIInv, UNCHANGED <<present, hidden, engaged, evading, handedOff>>,
         Base(m', stack'),
         handedOff = FALSE => Steady(m', stack') /\ CoverOK(m', stack', present)
  PROVE  CombatIInv'
<1>1. /\ present \subseteq Units /\ hidden \subseteq Players
      /\ engaged \subseteq Creatures /\ evading \subseteq Creatures
      /\ handedOff \in BOOLEAN
  BY IInvIs
<1>2. present' \subseteq Units /\ hidden' \subseteq Players
      /\ engaged' \subseteq Creatures /\ evading' \subseteq Creatures
  BY <1>1
<1>3. handedOff' = handedOff /\ present' = present
  OBVIOUS
<1>4. handedOff' \in BOOLEAN
  BY <1>1, <1>3
<1>5. handedOff' = FALSE => Steady(m', stack') /\ CoverOK(m', stack', present')
  BY <1>3
<1> QED BY <1>2, <1>4, <1>5, IInvNext

LEMMA PushedIs ==
  ASSUME NEW s \in Seq(Frame), NEW f \in Frame
  PROVE  Head(<<f>> \o s) = f /\ Tail(<<f>> \o s) = s /\ <<f>> \o s # <<>>
<1> DEFINE t == <<f>> \o s
<1>1. /\ t \in Seq(Frame) /\ Len(t) = Len(s) + 1 /\ t # <<>> /\ t[1] = f
      /\ \A i \in 1 .. Len(s) : t[i + 1] = s[i]
  BY PushFacts
<1> HIDE DEF t
<1>2. /\ Head(t) = t[1] /\ Tail(t) \in Seq(Frame) /\ Len(Tail(t)) = Len(t) - 1
      /\ \A i \in 1 .. Len(Tail(t)) : Tail(t)[i] = t[i + 1]
  BY <1>1, PopFacts
<1>3. Len(Tail(t)) = Len(s) /\ Len(s) \in Nat
  BY <1>1, <1>2
<1>4. \A i \in 1 .. Len(s) : Tail(t)[i] = s[i]
  BY <1>1, <1>2, <1>3
<1>5. Tail(t) = s
  BY <1>2, <1>3, <1>4
<1> QED BY <1>1, <1>2, <1>5 DEF t

(* The AI may have to be told. *)
LEMMA Told ==
  ASSUME NEW o, NEW c \in Creatures, NEW s \in Seq(Frame), o.tell \subseteq Units,
         Continue(o, c, s), Base(o.m, s)
  PROVE  /\ m' = o.m /\ Base(m', stack')
         /\ /\ Steady(o.m, s)
            /\ s # <<>> => s[1].at # "endAll"
            /\ GoneEnd(s) => Collecting(s) \/ s[1].at = "end"
            => Steady(m', stack')
         /\ \A here : CoverOK(o.m, s, here) => CoverOK(m', stack', here)
<1> DEFINE f == Ai(c, o.tell)
<1>1. f \in Frame /\ f.at = "ai"
  BY NewFrames
<1>2. m' = o.m /\ (stack' = <<f>> \o s \/ stack' = <<>> \o s)
  BY DEF Continue
<1>3. <<>> \o s = s
  OBVIOUS
<1> HIDE DEF f
<1>4. Base(o.m, <<f>> \o s)
  BY <1>1, BasePush
<1>5. FrameIsDue(o.m, f)
  BY <1>1 DEF FrameIsDue
<1>6. s = <<>> => Quiet(s)
  BY EmptyStack DEF Quiet
<1>7. ASSUME Steady(o.m, s), s # <<>> => s[1].at # "endAll",
             GoneEnd(s) => Collecting(s) \/ s[1].at = "end"
      PROVE  Steady(o.m, <<f>> \o s)
  BY <1>1, <1>5, <1>6, <1>7, SteadyPush
<1>8. \A here : CoverOK(o.m, s, here) => CoverOK(o.m, <<f>> \o s, here)
  BY <1>1, CoverPush
<1>9. CASE stack' = <<f>> \o s
  BY <1>2, <1>4, <1>7, <1>8, <1>9
<1>10. CASE stack' = s
  BY <1>2, <1>10
<1> QED BY <1>2, <1>3, <1>9, <1>10

LEMMA SteadyLight ==
  ASSUME NEW w, NEW v, NEW s, NEW o, Steady(w, s), Light(s, o), v.ok = TRUE,
         v.threat \subseteq v.listed, w.objs \ {o} \subseteq v.objs
  PROVE  Steady(v, s)
<1>1. \A f \in Frames(s) : FrameIsDue(v, f)
  BY DEF Steady, Light, DueOK, FrameIsDue
<1> QED BY <1>1 DEF Steady, DueOK

LEMMA FailedIs ==
  ASSUME m \in Managers, ThreatOK(m), Fail
  PROVE  Base(m', stack') /\ m'.ok = FALSE
<1> DEFINE v == [m EXCEPT !.ok = FALSE]
<1>1. v \in Managers
  BY DEF Managers
<1>2. v.threat = m.threat /\ v.online = m.online /\ v.victim = m.victim
  BY DEF Managers
<1>3. v.ok = FALSE
  BY DEF Managers
<1>4. m' = v /\ stack' = <<>>
  BY DEF Fail
<1> HIDE DEF v
<1>5. ThreatOK(v)
  BY <1>2, SameThreatIsOK DEF SameThreat
<1> QED BY <1>1, <1>3, <1>4, <1>5, EmptyStack DEF Base

(* The three ways a part of EndCombat may go. *)
LEMMA EndFromIs ==
  ASSUME NEW w, NEW o, NEW n \in 1 .. 3, NEW below, EndFrom(w, o, n, below)
  PROVE  \/ o \notin w.objs /\ Fail
         \/ /\ o \in w.objs /\ n = 1 /\ <<o[1], o[2]>> \in w.threat
            /\ \E r \in ClearThreat(w, o[1], o[2]) : Continue(r, o[1], <<End(o, 2)>> \o below)
         \/ /\ o \in w.objs /\ n <= 2 /\ <<o[2], o[1]>> \in w.threat
            /\ n = 1 => <<o[1], o[2]>> \notin w.threat
            /\ \E r \in ClearThreat(w, o[2], o[1]) : Continue(r, o[2], <<End(o, 3)>> \o below)
         \/ /\ o \in w.objs /\ m' = PurgeReferences(w, o) /\ stack' = below
            /\ n = 1 => <<o[1], o[2]>> \notin w.threat
            /\ n <= 2 => <<o[2], o[1]>> \notin w.threat
<1> DEFINE HasThreat(i) == <<o[i], o[3 - i]>> \in w.threat
           i == IF n = 1 /\ HasThreat(1) THEN 1 ELSE IF n <= 2 /\ HasThreat(2) THEN 2 ELSE 3
<1>1. \/ o \notin w.objs /\ Fail
      \/ /\ o \in w.objs /\ i < 3
         /\ \E r \in ClearThreat(w, o[i], o[3 - i]) :
              Continue(r, o[i], <<End(o, i + 1)>> \o below)
      \/ o \in w.objs /\ i = 3 /\ m' = PurgeReferences(w, o) /\ stack' = below
  BY DEF EndFrom
<1>2. (HasThreat(1) <=> <<o[1], o[2]>> \in w.threat) /\ (HasThreat(2) <=> <<o[2], o[1]>> \in w.threat)
  OBVIOUS
<1>3. i = 1 => n = 1 /\ HasThreat(1)
  OBVIOUS
<1>4. i = 2 => n <= 2 /\ HasThreat(2) /\ (n = 1 => ~HasThreat(1))
  OBVIOUS
<1>5. i = 3 => (n = 1 => ~HasThreat(1)) /\ (n <= 2 => ~HasThreat(2))
  OBVIOUS
<1>6. i \in {1, 2, 3}
  OBVIOUS
<1> HIDE DEF HasThreat, i
<1>7. CASE i = 1
  <2>1. 3 - i = 2 /\ i + 1 = 2
    BY <1>7
  <2> QED BY <1>1, <1>2, <1>3, <1>7, <2>1
<1>8. CASE i = 2
  <2>1. 3 - i = 1 /\ i + 1 = 3
    BY <1>8
  <2> QED BY <1>1, <1>2, <1>4, <1>8, <2>1
<1>9. CASE i = 3
  BY <1>1, <1>2, <1>5, <1>9
<1> QED BY <1>6, <1>7, <1>8, <1>9

(* The end of o goes on with another part. *)
LEMMA EndGoesOn ==
  ASSUME NEW w, NEW o \in Pairs, NEW n \in 1 .. 3, NEW k \in 1 .. 3, NEW s \in Seq(Frame),
         BottomOK(s), Base(w, <<End(o, n)>> \o s)
  PROVE  /\ Base(w, <<End(o, k)>> \o s)
         /\ \A here : CoverOK(w, <<End(o, n)>> \o s, here) => CoverOK(w, <<End(o, k)>> \o s, here)
<1> DEFINE f == End(o, n)
           g == End(o, k)
<1>1. f \in Frame /\ f.at = "end" /\ f.ref = o /\ g \in Frame /\ g.at = "end" /\ g.ref = o
  BY NewFrames
<1> HIDE DEF f, g
<1>2. Ending(<<f>> \o s) = Ending(<<g>> \o s)
  <2>1. Ending(<<f>> \o s) = Ending(s) \cup {o}
    BY <1>1, EndingPush
  <2>2. Ending(<<g>> \o s) = Ending(s) \cup {o}
    BY <1>1, EndingPush
  <2> QED BY <2>1, <2>2
<1>3. <<g>> \o s \in Seq(Frame) /\ BottomOK(<<g>> \o s)
  BY <1>1, PushFacts, PushBottom
<1>4. Base(w, <<g>> \o s)
  BY <1>2, <1>3 DEF Base, f
<1>5. Frames(<<f>> \o s) = {f} \cup Frames(s) /\ Frames(<<g>> \o s) = {g} \cup Frames(s)
  BY <1>1, PushFacts
<1>6. \A p, u : Covers(f, p, u) <=> Covers(g, p, u)
  BY <1>1 DEF Covers
<1>7. \A here, u : Goes(<<g>> \o s, u, here) => Goes(<<f>> \o s, u, here)
  BY <1>1, <1>5 DEF Goes
<1>8. ASSUME NEW here, CoverOK(w, <<f>> \o s, here) PROVE CoverOK(w, <<g>> \o s, here)
  BY <1>5, <1>6, <1>7, <1>8, CoverStep
<1> QED BY <1>4, <1>8 DEF f, g

(* The threat of one of the two was cleared. *)
LEMMA EndClears ==
  ASSUME NEW w, NEW o \in Pairs, NEW n \in 1 .. 3, NEW s \in Seq(Frame), BottomOK(s),
         Base(w, <<End(o, n)>> \o s), NEW i \in 1 .. 2, NEW a, NEW b, <<a, b>> \in w.threat,
         i = 1 => a = o[1] /\ b = o[2],
         i = 2 => a = o[2] /\ b = o[1] /\ n <= 2 /\ (n = 1 => <<o[1], o[2]>> \notin w.threat),
         NEW r \in ClearThreat(w, a, b), Continue(r, a, <<End(o, i + 1)>> \o s)
  PROVE  /\ Base(m', stack')
         /\ Steady(w, <<End(o, n)>> \o s) => Steady(m', stack')
         /\ \A here : CoverOK(w, <<End(o, n)>> \o s, here) => CoverOK(m', stack', here)
<1> DEFINE f == End(o, n)
           g == End(o, i + 1)
           v == r.m
<1>1. i + 1 \in 1 .. 3
  OBVIOUS
<1>2. /\ f \in Frame /\ f.at = "end" /\ f.ref = o /\ f.step = n
      /\ g \in Frame /\ g.at = "end" /\ g.ref = o /\ g.step = i + 1
  BY <1>1, NewFrames
<1>3. /\ Base(w, <<g>> \o s)
      /\ \A here : CoverOK(w, <<f>> \o s, here) => CoverOK(w, <<g>> \o s, here)
  BY <1>1, EndGoesOn
<1>4. w \in Managers /\ ThreatOK(w)
  BY DEF Base
<1>5. a \in Creatures /\ a \in Units /\ b \in Units
  BY <1>4 DEF Managers, Units
<1>6. Rethreatened(w, r, w.threat \ {<<a, b>>})
  BY <1>4, <1>5, ClearThreatFacts
<1>7. /\ v \in Managers /\ ThreatOK(v) /\ SameRefs(w, v)
      /\ v.threat = w.threat \ {<<a, b>>} /\ r.tell \subseteq Units
  BY <1>6 DEF Rethreatened
<1> HIDE DEF v, f, g
<1>8. Base(v, <<g>> \o s)
  BY <1>3, <1>7, BaseThreat
<1>9. <<g>> \o s \in Seq(Frame) /\ <<g>> \o s # <<>> /\ (<<g>> \o s)[1] = g
  BY <1>2, PushFacts
<1>10. /\ m' = r.m /\ Base(m', stack')
       /\ Steady(r.m, <<g>> \o s) => Steady(m', stack')
       /\ \A here : CoverOK(r.m, <<g>> \o s, here) => CoverOK(m', stack', here)
  BY <1>2, <1>5, <1>7, <1>8, <1>9, Told DEF v, g
<1>11. ASSUME Steady(w, <<f>> \o s) PROVE Steady(v, <<g>> \o s)
  <2>1. Head(<<f>> \o s) = f /\ Tail(<<f>> \o s) = s /\ <<f>> \o s # <<>> /\ <<f>> \o s \in Seq(Frame)
    BY <1>2, PushedIs, PushFacts
  <2>2. /\ Steady(w, s) /\ FrameIsDue(w, f) /\ Light(s, o)
        /\ GoneEnd(s) => Collecting(s) \/ s[1].at # "ai"
    BY <1>2, <1>11, <2>1, SteadyPop
  <2>3. v.objs = w.objs /\ v.listed = w.listed
    BY <1>7 DEF SameRefs
  <2>4. v.ok = TRUE
    BY <1>7, <2>2 DEF SameRefs, Steady
  <2>5. Steady(v, s)
    BY <1>7, <2>2, <2>3, <2>4, SteadyLight DEF Steady
  <2>6. FrameIsDue(v, g)
    <3>1. o \in v.objs
      BY <1>2, <2>2, <2>3 DEF FrameIsDue
    <3>2. <<o[1], o[2]>> \notin v.threat
      BY <1>2, <1>7, <2>2 DEF FrameIsDue
    <3>3. i + 1 >= 3 => <<o[2], o[1]>> \notin v.threat
      BY <1>7
    <3> QED BY <1>2, <3>1, <3>2, <3>3 DEF FrameIsDue
  <2> QED BY <1>2, <2>2, <2>5, <2>6, SteadyPush
<1>12. \A here : CoverOK(w, <<f>> \o s, here) => CoverOK(v, <<g>> \o s, here)
  BY <1>3, <1>7, CoverSame DEF SameRefs
<1> QED BY <1>10, <1>11, <1>12 DEF f, v

(* The reference is removed. *)
LEMMA EndPurges ==
  ASSUME NEW w, w.ok = TRUE, NEW o \in Pairs, o \in w.objs, NEW n \in 1 .. 3,
         NEW s \in Seq(Frame), BottomOK(s), Base(w, <<End(o, n)>> \o s),
         m' = PurgeReferences(w, o), stack' = s,
         n = 1 => <<o[1], o[2]>> \notin w.threat,
         n <= 2 => <<o[2], o[1]>> \notin w.threat
  PROVE  /\ Base(m', stack')
         /\ Steady(w, <<End(o, n)>> \o s) => Steady(m', stack')
         /\ \A here : CoverOK(w, <<End(o, n)>> \o s, here) => CoverOK(m', stack', here)
<1> DEFINE f == End(o, n)
           v == PurgeReferences(w, o)
<1>1. f \in Frame /\ f.at = "end" /\ f.ref = o /\ f.step = n
  BY NewFrames
<1>2. w \in Managers /\ ThreatOK(w) /\ RefsOK(w, Ending(<<f>> \o s))
  BY DEF Base
<1>3. /\ v \in Managers /\ SameThreat(w, v)
      /\ v.objs = w.objs \ {o}
      /\ v.listed = w.listed \ {<<o[1], o[2]>>, <<o[2], o[1]>>}
  BY <1>2, PurgeFacts
<1>4. v.ok = TRUE
  BY <1>2, PurgeFacts
<1>5. RefsOK(v, Ending(<<f>> \o s) \ {o})
  BY <1>2, PurgeRefs
<1> HIDE DEF f, v
<1>6. Ending(<<f>> \o s) = Ending(s) \cup {o}
  BY <1>1, EndingPush
<1>7. RefsOK(v, Ending(s))
  <2>1. Ending(<<f>> \o s) \ {o} \subseteq Ending(s)
    BY <1>6
  <2> QED BY <1>5, <2>1, RefsMonotone
<1>8. Base(v, s)
  BY <1>2, <1>3, <1>7, SameThreatIsOK DEF Base
<1>9. ASSUME Steady(w, <<f>> \o s) PROVE Steady(v, s)
  <2>1. Head(<<f>> \o s) = f /\ Tail(<<f>> \o s) = s /\ <<f>> \o s # <<>> /\ <<f>> \o s \in Seq(Frame)
    BY <1>1, PushedIs, PushFacts
  <2>2. Steady(w, s) /\ FrameIsDue(w, f) /\ Light(s, o)
    BY <1>1, <1>9, <2>1, SteadyPop
  <2>3. <<o[1], o[2]>> \notin w.threat /\ <<o[2], o[1]>> \notin w.threat
    BY <1>1, <2>2 DEF FrameIsDue
  <2>4. v.threat \subseteq v.listed
    BY <1>3, <2>2, <2>3 DEF SameThreat, Steady
  <2>5. w.objs \ {o} \subseteq v.objs
    BY <1>3
  <2> QED BY <1>4, <2>2, <2>4, <2>5, SteadyLight
<1>10. ASSUME NEW here, CoverOK(w, <<f>> \o s, here) PROVE CoverOK(v, s, here)
  <2>1. Frames(<<f>> \o s) = {f} \cup Frames(s)
    BY <1>1, PushFacts
  <2>2. \A u \in Units : Goes(s, u, here) => Goes(<<f>> \o s, u, here)
    BY <2>1 DEF Goes
  <2>3. \A p, u : Covers(f, p, u) => p = o
    BY <1>1 DEF Covers
  <2> QED BY <1>3, <1>10, <2>1, <2>2, <2>3, CoverStep
<1> QED BY <1>8, <1>9, <1>10 DEF f, v

LEMMA EndStep ==
  ASSUME m \in Managers, ThreatOK(m), NEW w, w.ok = TRUE, NEW o \in Pairs, NEW n \in 1 .. 3,
         NEW s \in Seq(Frame), BottomOK(s), Base(w, <<End(o, n)>> \o s), EndFrom(w, o, n, s)
  PROVE  /\ Base(m', stack')
         /\ Steady(w, <<End(o, n)>> \o s) => Steady(m', stack')
         /\ \A here : Steady(w, <<End(o, n)>> \o s) /\ CoverOK(w, <<End(o, n)>> \o s, here)
                        => CoverOK(m', stack', here)
<1>1. CASE o \notin w.objs /\ Fail
  <2>1. Base(m', stack')
    BY <1>1, FailedIs
  <2>2. End(o, n) \in Frame /\ End(o, n).at = "end" /\ End(o, n).ref = o
    BY NewFrames
  <2>3. Frames(<<End(o, n)>> \o s) = {End(o, n)} \cup Frames(s)
    BY <2>2, PushFacts
  <2>4. ~Steady(w, <<End(o, n)>> \o s)
    BY <1>1, <2>2, <2>3 DEF Steady, DueOK, FrameIsDue
  <2> QED BY <2>1, <2>4
<1>2. CASE /\ o \in w.objs /\ n = 1 /\ <<o[1], o[2]>> \in w.threat
           /\ \E r \in ClearThreat(w, o[1], o[2]) : Continue(r, o[1], <<End(o, 2)>> \o s)
  <2>1. 1 + 1 = 2 /\ 1 \in 1 .. 2
    OBVIOUS
  <2>2. PICK r \in ClearThreat(w, o[1], o[2]) : Continue(r, o[1], <<End(o, 1 + 1)>> \o s)
    BY <1>2, <2>1
  <2>3. /\ 1 = 1 => o[1] = o[1] /\ o[2] = o[2]
        /\ 1 = 2 => o[1] = o[2] /\ o[2] = o[1] /\ n <= 2
                     /\ (n = 1 => <<o[1], o[2]>> \notin w.threat)
    OBVIOUS
  <2>4. <<o[1], o[2]>> \in w.threat
    BY <1>2
  <2>5. /\ Base(m', stack')
        /\ Steady(w, <<End(o, n)>> \o s) => Steady(m', stack')
        /\ \A here : CoverOK(w, <<End(o, n)>> \o s, here) => CoverOK(m', stack', here)
    BY <2>1, <2>2, <2>3, <2>4, EndClears
  <2> QED BY <2>5
<1>3. CASE /\ o \in w.objs /\ n <= 2 /\ <<o[2], o[1]>> \in w.threat
           /\ n = 1 => <<o[1], o[2]>> \notin w.threat
           /\ \E r \in ClearThreat(w, o[2], o[1]) : Continue(r, o[2], <<End(o, 3)>> \o s)
  <2>1. 2 + 1 = 3 /\ 2 \in 1 .. 2
    OBVIOUS
  <2>2. PICK r \in ClearThreat(w, o[2], o[1]) : Continue(r, o[2], <<End(o, 2 + 1)>> \o s)
    BY <1>3, <2>1
  <2>3. /\ 2 = 1 => o[2] = o[1] /\ o[1] = o[2]
        /\ 2 = 2 => o[2] = o[2] /\ o[1] = o[1] /\ n <= 2
                     /\ (n = 1 => <<o[1], o[2]>> \notin w.threat)
    BY <1>3
  <2>4. <<o[2], o[1]>> \in w.threat
    BY <1>3
  <2>5. /\ Base(m', stack')
        /\ Steady(w, <<End(o, n)>> \o s) => Steady(m', stack')
        /\ \A here : CoverOK(w, <<End(o, n)>> \o s, here) => CoverOK(m', stack', here)
    BY <2>1, <2>2, <2>3, <2>4, EndClears
  <2> QED BY <2>5
<1>4. CASE /\ o \in w.objs /\ m' = PurgeReferences(w, o) /\ stack' = s
           /\ n = 1 => <<o[1], o[2]>> \notin w.threat
           /\ n <= 2 => <<o[2], o[1]>> \notin w.threat
  BY <1>4, EndPurges
<1> QED BY <1>1, <1>2, <1>3, <1>4, EndFromIs

-----------------------------------------------------------------------------
(* Loops. *)

LEMMA WithoutIs ==
  ASSUME NEW x
  PROVE  \/ Top.todo = {x} /\ Without(x) = Below
         \/ Top.todo # {x} /\ Without(x) = <<Fewer(Top, x)>> \o Below
BY DEF Without, Fewer

LEMMA WithoutBase ==
  ASSUME NEW w, Base(w, stack), stack # <<>>, Top.at \in {"ai", "lists", "endAll", "loop"}, NEW x
  PROVE  Base(w, Without(x)) /\ Without(x) \in Seq(Frame) /\ BottomOK(Without(x))
<1>1. Base(w, Below) /\ Top \in Frame
  BY BasePop DEF Top, Below
<1>2. Fewer(Top, x) \in Frame /\ Fewer(Top, x).at = Top.at
  BY <1>1, FewerFacts
<1>3. Top.at = "loop" => Below = <<>>
  BY PopBottom DEF Base, Top, Below
<1>4. Base(w, <<Fewer(Top, x)>> \o Below)
  BY <1>1, <1>2, <1>3, BasePush
<1>5. Base(w, Without(x))
  BY <1>1, <1>4, WithoutIs
<1> QED BY <1>5 DEF Base

LEMMA GoneEndPush ==
  ASSUME NEW s \in Seq(Frame), NEW f \in Frame, f.at # "gone", GoneEnd(<<f>> \o s)
  PROVE  GoneEnd(s)
<1> DEFINE t == <<f>> \o s
<1>1. /\ t \in Seq(Frame) /\ Len(t) = Len(s) + 1 /\ t[1] = f
      /\ \A i \in 1 .. Len(s) : t[i + 1] = s[i]
  BY PushFacts
<1>2. Len(s) \in Nat
  OBVIOUS
<1>3. t[Len(t)].at = "gone"
  BY DEF GoneEnd
<1> HIDE DEF t
<1>4. s # <<>>
  <2>1. CASE s = <<>>
    <3>1. Len(t) = 1
      BY <1>1, <2>1
    <3> QED BY <3>1, <1>1, <1>3
  <2> QED BY <2>1
<1>5. Len(s) \in 1 .. Len(s)
  BY <1>2, <1>4
<1>6. t[Len(t)] = s[Len(s)]
  BY <1>1, <1>5
<1> QED BY <1>3, <1>4, <1>6 DEF GoneEnd

LEMMA WithoutSteady ==
  ASSUME NEW w, Base(w, stack), stack # <<>>, Steady(w, stack),
         Top.at \in {"ai", "lists", "endAll", "loop"}, NEW x,
         NEW v, Steady(v, Below), FrameIsDue(v, Fewer(Top, x))
  PROVE  /\ Steady(v, Without(x))
         /\ Collecting(Below) => Collecting(Without(x))
         /\ GoneEnd(Without(x)) => GoneEnd(Below)
<1>1. Below \in Seq(Frame) /\ Top \in Frame /\ stack \in Seq(Frame)
  BY BasePop DEF Top, Below, Base
<1>2. Fewer(Top, x) \in Frame /\ Fewer(Top, x).at = Top.at
  BY <1>1, FewerFacts
<1>3. Top.at = "loop" => Below = <<>>
  BY PopBottom DEF Base, Top, Below
<1>4. ~GoneEnd(<<>>)
  BY DEF GoneEnd
<1>5. Below = <<>> => Quiet(Below)
  BY EmptyStack DEF Quiet
<1>6. /\ Top.at \notin {"ai", "end"} => Quiet(Below)
      /\ Top.at = "ai" /\ Below # <<>> => Below[1].at # "endAll"
      /\ GoneEnd(Below) =>
           /\ Top.at # "ai" => Collecting(Below) \/ Below[1].at # "ai"
           /\ Top.at = "ai" => Collecting(Below) \/ Below[1].at = "end"
           /\ Top.at \in {"lists", "script", "home"} => Collecting(Below)
  BY <1>1, SteadyPop DEF Top, Below
<1>7. Quiet(Below) \/ (Fewer(Top, x).at = "ai" /\ Below[1].at # "endAll")
  BY <1>2, <1>5, <1>6
<1>8. GoneEnd(Below) => \/ Collecting(Below)
                        \/ Fewer(Top, x).at \in {"end", "endAll", "pvp"} /\ Below[1].at # "ai"
                        \/ Fewer(Top, x).at = "ai" /\ Below[1].at = "end"
  BY <1>2, <1>3, <1>4, <1>6
<1>9. /\ Steady(v, <<Fewer(Top, x)>> \o Below)
      /\ Collecting(Below) => Collecting(<<Fewer(Top, x)>> \o Below)
  BY <1>1, <1>2, <1>7, <1>8, SteadyPush
<1>10. GoneEnd(<<Fewer(Top, x)>> \o Below) => GoneEnd(Below)
  BY <1>1, <1>2, GoneEndPush
<1> QED BY <1>9, <1>10, WithoutIs

LEMMA WithoutFrames ==
  ASSUME NEW w, Base(w, stack), stack # <<>>, Top.at \in {"ai", "lists", "endAll", "loop"}, NEW x
  PROVE  /\ Frames(Below) \subseteq Frames(Without(x))
         /\ Frames(stack) = {Top} \cup Frames(Below)
         /\ \A f \in Frames(Without(x)) : f \in Frames(Below) \/ f = Fewer(Top, x)
         /\ Top.todo # {x} => Fewer(Top, x) \in Frames(Without(x))
<1>1. Below \in Seq(Frame) /\ Top \in Frame /\ stack \in Seq(Frame)
  BY BasePop DEF Top, Below, Base
<1>2. Fewer(Top, x) \in Frame
  BY <1>1, FewerFacts
<1>3. Frames(<<Fewer(Top, x)>> \o Below) = {Fewer(Top, x)} \cup Frames(Below)
  BY <1>1, <1>2, PushFacts
<1>4. Frames(stack) = {Top} \cup Frames(Below)
  BY <1>1, PopFacts DEF Top, Below
<1> QED BY <1>3, <1>4, WithoutIs

LEMMA WithoutCover ==
  ASSUME NEW w, Base(w, stack), stack # <<>>, Top.at \in {"ai", "lists", "loop"}, NEW x,
         NEW here, CoverOK(w, stack, here)
  PROVE  CoverOK(w, Without(x), here)
<1>1. /\ Frames(Below) \subseteq Frames(Without(x))
      /\ Frames(stack) = {Top} \cup Frames(Below)
      /\ \A f \in Frames(Without(x)) : f \in Frames(Below) \/ f = Fewer(Top, x)
  BY WithoutFrames
<1>2. Top \in Frame
  BY BasePop DEF Top, Below, Base
<1>3. Fewer(Top, x).at # "gone"
  BY <1>2, FewerFacts
<1>4. \A u \in Units : Goes(Without(x), u, here) => Goes(stack, u, here)
  BY <1>1, <1>3 DEF Goes
<1>5. \A o, u : ~Covers(Top, o, u)
  BY OthersCoverNothing
<1> QED BY <1>1, <1>4, <1>5, CoverStep

-----------------------------------------------------------------------------
(* The calls, one by one. *)

LEMMA AtIs ==
  ASSUME CombatIInv, NEW a, At(a)
  PROVE  /\ m.ok = TRUE /\ stack # <<>> /\ Top.at = a /\ Top \in Frame
         /\ stack \in Seq(Frame) /\ Below \in Seq(Frame)
         /\ Base(m, stack) /\ m \in Managers /\ ThreatOK(m)
<1>1. Base(m, stack)
  BY IInvIs
<1>2. m.ok \in BOOLEAN
  BY <1>1 DEF Base, Managers
<1>3. m.ok = TRUE /\ stack # <<>> /\ Top.at = a
  BY <1>2 DEF At
<1> QED BY <1>1, <1>3, BasePop DEF Top, Below, Base

LEMMA CalmIs ==
  ASSUME CombatIInv, handedOff = FALSE
  PROVE  Steady(m, stack) /\ CoverOK(m, stack, present)
BY IInvIs

LEMMA ProcessAIUpdatesStep ==
  ASSUME CombatIInv, ProcessAIUpdates
  PROVE  CombatIInv'
<1>1. At("ai")
  BY DEF ProcessAIUpdates
<1>2. /\ m.ok = TRUE /\ stack # <<>> /\ Top.at = "ai" /\ Top \in Frame
      /\ stack \in Seq(Frame) /\ Below \in Seq(Frame) /\ Base(m, stack)
  BY <1>1, AtIs
<1>3. Top.who \in Creatures
  BY <1>2, FrameFacts
<1>4. m' = m /\ present' = present /\ hidden' = hidden /\ evading' = evading
  BY DEF ProcessAIUpdates
<1>5. PICK u : \/ /\ engaged' = engaged \cup {Top.who}
                  /\ stack' = <<Script(Top.who, MaxActs)>> \o Without(u)
                  /\ handedOff' = (handedOff \/
                        \E i \in DOMAIN stack : stack[i].at \in {"lists", "end"})
               \/ stack' = Without(u) /\ engaged' = engaged /\ handedOff' = handedOff
  BY DEF ProcessAIUpdates
<1>6. Base(m, Without(u)) /\ Without(u) \in Seq(Frame)
  BY <1>2, WithoutBase
<1>7. ASSUME handedOff = FALSE
      PROVE  /\ Steady(m, Without(u)) /\ CoverOK(m, Without(u), present)
             /\ Collecting(Below) => Collecting(Without(u))
             /\ GoneEnd(Without(u)) => GoneEnd(Below)
             /\ GoneEnd(Below) => Collecting(Below) \/ Below[1].at = "end"
  <2>1. Steady(m, stack) /\ CoverOK(m, stack, present)
    BY <1>7, CalmIs
  <2>2. Steady(m, Below) /\ (GoneEnd(Below) => Collecting(Below) \/ Below[1].at = "end")
    BY <1>2, <2>1, SteadyPop DEF Top, Below
  <2>3. Fewer(Top, u).at = "ai"
    BY <1>2, FewerFacts
  <2>4. FrameIsDue(m, Fewer(Top, u))
    BY <2>3 DEF FrameIsDue
  <2>5. /\ Steady(m, Without(u))
        /\ Collecting(Below) => Collecting(Without(u))
        /\ GoneEnd(Without(u)) => GoneEnd(Below)
    BY <1>2, <2>1, <2>2, <2>4, WithoutSteady
  <2> QED BY <1>2, <2>1, <2>2, <2>5, WithoutCover
<1>8. CASE stack' = Without(u) /\ engaged' = engaged /\ handedOff' = handedOff
  BY <1>4, <1>6, <1>7, <1>8, CallStep
<1>9. CASE /\ engaged' = engaged \cup {Top.who}
           /\ stack' = <<Script(Top.who, MaxActs)>> \o Without(u)
           /\ handedOff' = (handedOff \/
                 \E i \in DOMAIN stack : stack[i].at \in {"lists", "end"})
  <2> DEFINE f == Script(Top.who, MaxActs)
             t == Without(u)
  <2>1. f \in Frame /\ f.at = "script"
    BY <1>3, NewFrames, CombatAssumption
  <2> HIDE DEF f, t
  <2>2. Base(m, <<f>> \o t)
    BY <1>6, <2>1, BasePush DEF t
  <2>3. handedOff \in BOOLEAN /\ engaged \subseteq Creatures /\ present \subseteq Units
          /\ hidden \subseteq Players /\ evading \subseteq Creatures
    BY IInvIs
  <2>4. handedOff' \in BOOLEAN
    BY <1>9, <2>3
  <2>5. handedOff' = FALSE => handedOff = FALSE /\ \A i \in DOMAIN stack : stack[i].at \notin {"lists", "end"}
    BY <1>9, <2>3, Zenon
  <2>6. ASSUME handedOff' = FALSE
        PROVE  Steady(m, <<f>> \o t) /\ CoverOK(m, <<f>> \o t, present)
    <3>1. handedOff = FALSE /\ \A i \in 1 .. Len(stack) : stack[i].at \notin {"lists", "end"}
      BY <1>2, <2>5, <2>6
    <3>2. Steady(m, stack)
      BY <3>1, CalmIs
    <3>3. \A i \in 1 .. Len(stack) : stack[i].at # "endAll"
      <4> TAKE i \in 1 .. Len(stack)
      <4>1. CASE i = 1
        BY <1>2, <4>1, PopFacts DEF Top
      <4>2. CASE i > 1
        <5>1. i - 1 \in 1 .. Len(stack)
          BY <1>2, <4>2
        <5> QED BY <3>1, <3>2, <4>2, <5>1 DEF Steady, ShapeOK
      <4> QED BY <4>1, <4>2
    <3>4. \A g \in Frames(stack) : g.at \notin {"lists", "end", "endAll"}
      BY <3>1, <3>3 DEF Frames
    <3>5. /\ Frames(stack) = {Top} \cup Frames(Below)
          /\ \A g \in Frames(t) : g \in Frames(Below) \/ g = Fewer(Top, u)
      BY <1>2, WithoutFrames DEF t
    <3>6. Fewer(Top, u).at = "ai"
      BY <1>2, FewerFacts
    <3>7. Quiet(t)
      BY <3>4, <3>5, <3>6 DEF Quiet
    <3>8. GoneEnd(t) => Collecting(t)
      <4>1. SUFFICES ASSUME GoneEnd(Below) PROVE Below[1].at # "end"
        BY <1>7, <3>1 DEF t
      <4>2. Below # <<>>
        BY <4>1 DEF GoneEnd
      <4>3. Below[1] \in Frames(Below)
        BY <1>2, <4>2, TopIs
      <4> QED BY <3>4, <3>5, <4>3
    <3>9. FrameIsDue(m, f)
      BY <2>1 DEF FrameIsDue
    <3>10. Steady(m, t) /\ CoverOK(m, t, present) /\ t \in Seq(Frame)
      BY <1>6, <1>7, <3>1 DEF t
    <3>11. Steady(m, <<f>> \o t)
      BY <2>1, <3>7, <3>8, <3>9, <3>10, SteadyPush
    <3>12. CoverOK(m, <<f>> \o t, present)
      BY <2>1, <3>10, CoverPush
    <3> QED BY <3>11, <3>12
  <2>7. stack' = <<f>> \o t
    BY <1>9 DEF f, t
  <2>8. engaged' \subseteq Creatures
    BY <1>3, <1>9, <2>3
  <2>9. Base(m', stack')
    BY <1>4, <2>2, <2>7
  <2>10. handedOff' = FALSE => Steady(m', stack') /\ CoverOK(m', stack', present')
    BY <1>4, <2>6, <2>7
  <2>11. present' \subseteq Units /\ hidden' \subseteq Players /\ evading' \subseteq Creatures
    BY <1>4, <2>3
  <2> QED BY <2>4, <2>8, <2>9, <2>10, <2>11, IInvNext
<1> QED BY <1>5, <1>8, <1>9

(* A call that ends no combat returns. *)
LEMMA PopStep ==
  ASSUME CombatIInv, NEW a, At(a), a \notin {"clearAll", "pvp", "endAll", "end"}
  PROVE  /\ Base(m, Below)
         /\ handedOff = FALSE => Steady(m, Below) /\ CoverOK(m, Below, present)
<1>1. /\ stack # <<>> /\ Top.at = a /\ stack \in Seq(Frame) /\ Base(m, stack)
  BY AtIs
<1>2. Base(m, Below)
  BY <1>1, BasePop DEF Top, Below
<1>3. ASSUME handedOff = FALSE PROVE Steady(m, Below) /\ CoverOK(m, Below, present)
  <2>1. Steady(m, stack) /\ CoverOK(m, stack, present)
    BY <1>3, CalmIs
  <2>2. Steady(m, Below)
    BY <1>1, <2>1, SteadyPop DEF Below
  <2>3. \A o, u : ~Covers(Head(stack), o, u)
    BY <1>1, OthersCoverNothing DEF Top
  <2>4. CoverOK(m, Below, present)
    BY <1>1, <2>1, <2>3, CoverPop DEF Below
  <2> QED BY <2>2, <2>4
<1> QED BY <1>2, <1>3

LEMMA ScriptReturnsStep ==
  ASSUME CombatIInv, ScriptReturns
  PROVE  CombatIInv'
<1>1. /\ At("script") /\ stack' = Below /\ m' = m
      /\ UNCHANGED <<present, hidden, engaged, evading, handedOff>>
  BY DEF ScriptReturns
<1> QED BY <1>1, PopStep, CallStep

LEMMA GoesHomeStep ==
  ASSUME CombatIInv, GoesHome
  PROVE  CombatIInv'
<1>1. /\ At("home") /\ stack' = Below /\ m' = m
      /\ engaged' = engaged \ {Top.who} /\ evading' = evading \cup {Top.who}
      /\ present' = present /\ hidden' = hidden
  BY DEF GoesHome
<1>2. handedOff' = handedOff
  BY DEF GoesHome
<1>3. Top.who \in Creatures
  BY <1>1, AtIs, FrameFacts
<1>4. /\ present \subseteq Units /\ hidden \subseteq Players
      /\ engaged \subseteq Creatures /\ evading \subseteq Creatures
      /\ handedOff \in BOOLEAN
  BY IInvIs
<1>5. /\ Base(m, Below)
      /\ handedOff = FALSE => Steady(m, Below) /\ CoverOK(m, Below, present)
  BY <1>1, PopStep
<1>6. present' \subseteq Units /\ hidden' \subseteq Players
      /\ engaged' \subseteq Creatures /\ evading' \subseteq Creatures
  BY <1>1, <1>3, <1>4
<1>7. handedOff' \in BOOLEAN
  BY <1>2, <1>4
<1>8. Base(m', stack') /\ (handedOff' = FALSE => Steady(m', stack') /\ CoverOK(m', stack', present'))
  BY <1>1, <1>2, <1>5
<1> QED BY <1>6, <1>7, <1>8, IInvNext

LEMMA RemovedFromWorldStep ==
  ASSUME CombatIInv, RemovedFromWorld
  PROVE  CombatIInv'
<1>1. /\ At("gone") /\ stack' = Below /\ m' = m /\ present' = present \ {Top.who}
      /\ engaged' = engaged /\ evading' = evading /\ hidden' = hidden
  BY DEF RemovedFromWorld
<1>2. handedOff' = handedOff
  BY DEF RemovedFromWorld
<1>3. /\ stack # <<>> /\ Top.at = "gone" /\ stack \in Seq(Frame)
  BY <1>1, AtIs
<1>4. /\ present \subseteq Units /\ hidden \subseteq Players
      /\ engaged \subseteq Creatures /\ evading \subseteq Creatures
      /\ handedOff \in BOOLEAN
  BY IInvIs
<1>5. /\ Base(m, Below)
      /\ handedOff = FALSE => Steady(m, Below)
  BY <1>1, PopStep
<1>6. ASSUME handedOff = FALSE PROVE CoverOK(m, Below, present \ {Top.who})
  <2>1. CoverOK(m, stack, present)
    BY <1>6, CalmIs
  <2>2. Frames(stack) = {Top} \cup Frames(Below)
    BY <1>3, PopFacts DEF Top, Below
  <2>3. \A u \in Units : Goes(Below, u, present \ {Top.who}) => Goes(stack, u, present)
    BY <1>3, <2>2 DEF Goes
  <2>4. \A o, u : ~Covers(Top, o, u)
    BY <1>3, OthersCoverNothing
  <2> QED BY <2>1, <2>2, <2>3, <2>4, CoverStep
<1>7. present' \subseteq Units /\ hidden' \subseteq Players
      /\ engaged' \subseteq Creatures /\ evading' \subseteq Creatures
  BY <1>1, <1>4
<1>8. handedOff' \in BOOLEAN
  BY <1>2, <1>4
<1>9. Base(m', stack') /\ (handedOff' = FALSE => Steady(m', stack') /\ CoverOK(m', stack', present'))
  BY <1>1, <1>2, <1>5, <1>6
<1> QED BY <1>7, <1>8, <1>9, IInvNext

(* CombatStop: its calls on top of the stack. *)
LEMMA ConcatAssoc ==
  ASSUME NEW x \in Seq(Frame), NEW y \in Seq(Frame), NEW z \in Seq(Frame)
  PROVE  (x \o y) \o z = x \o (y \o z)
<1> DEFINE l == (x \o y) \o z
           r == x \o (y \o z)
<1>1. l \in Seq(Frame) /\ r \in Seq(Frame) /\ Len(l) = Len(r)
  OBVIOUS
<1>2. ASSUME NEW i \in 1 .. Len(l) PROVE l[i] = r[i]
  OBVIOUS
<1> HIDE DEF l, r
<1>3. l = [i \in 1 .. Len(l) |-> l[i]] /\ r = [i \in 1 .. Len(r) |-> r[i]]
  BY <1>1
<1>4. [i \in 1 .. Len(l) |-> l[i]] = [i \in 1 .. Len(r) |-> r[i]]
  BY <1>1, <1>2
<1>5. l = r
  BY <1>3, <1>4
<1> QED BY <1>5 DEF l, r

LEMMA Stacked ==
  ASSUME NEW a \in Frame, NEW b \in Frame, NEW c \in Frame, NEW s \in Seq(Frame)
  PROVE  /\ (<<>> \o <<b, c>>) \o s = <<b>> \o (<<c>> \o s)
         /\ (<<a>> \o <<b, c>>) \o s = <<a>> \o (<<b>> \o (<<c>> \o s))
<1>1. <<b, c>> = <<b>> \o <<c>> /\ <<>> \o <<b, c>> = <<b, c>>
  <2> DEFINE x == <<b, c>>
             y == <<b>> \o <<c>>
             z == <<>> \o x
  <2>1. x \in Seq(Frame) /\ y \in Seq(Frame) /\ z \in Seq(Frame)
    OBVIOUS
  <2>2. Len(x) = 2 /\ Len(y) = 2 /\ Len(z) = 2
    OBVIOUS
  <2>3. x[1] = b /\ x[2] = c /\ y[1] = b /\ y[2] = c /\ z[1] = b /\ z[2] = c
    OBVIOUS
  <2>4. \A i \in 1 .. 2 : i = 1 \/ i = 2
    OBVIOUS
  <2> HIDE DEF x, y, z
  <2>5. x = y
    BY <2>1, <2>2, <2>3, <2>4
  <2>6. z = x
    BY <2>1, <2>2, <2>3, <2>4
  <2> QED BY <2>5, <2>6 DEF x, y, z
<1>2. <<a>> \in Seq(Frame) /\ <<b>> \in Seq(Frame) /\ <<c>> \in Seq(Frame) /\ <<b, c>> \in Seq(Frame)
  OBVIOUS
<1>3. <<b, c>> \o s = <<b>> \o (<<c>> \o s)
  BY <1>1, <1>2, ConcatAssoc
<1>4. (<<a>> \o <<b, c>>) \o s = <<a>> \o (<<b, c>> \o s)
  BY <1>2, ConcatAssoc
<1> QED BY <1>1, <1>3, <1>4

LEMMA StopIs ==
  ASSUME NEW u \in Units, NEW mutual \in BOOLEAN, NEW s \in Seq(Frame)
  PROVE  /\ CombatStop(u, mutual) \in Seq(Frame) /\ CombatStop(u, mutual) # <<>>
         /\ \/ CombatStop(u, mutual) \o s = <<ClearAll(u)>> \o (<<PvP(u, mutual)>> \o s)
            \/ \E cs \in SUBSET Creatures :
                 /\ \A c \in cs : <<c, u>> \in m.threat
                 /\ CombatStop(u, mutual) \o s =
                      <<Lists(u, cs)>> \o (<<ClearAll(u)>> \o (<<PvP(u, mutual)>> \o s))
<1> DEFINE cs == {c \in Creatures : <<c, u>> \in m.threat}
           f == Lists(u, cs)
           g == ClearAll(u)
           h == PvP(u, mutual)
<1>1. cs \in SUBSET Creatures /\ \A c \in cs : <<c, u>> \in m.threat
  OBVIOUS
<1>2. f \in Frame /\ g \in Frame
  BY <1>1, NewFrames
<1>3. h \in Frame
  BY NewPvPFrame, Zenon
<1>4. CombatStop(u, mutual) = <<>> \o <<g, h>> \/ CombatStop(u, mutual) = <<f>> \o <<g, h>>
  BY DEF CombatStop
<1> HIDE DEF cs, f, g, h
<1>5. /\ (<<>> \o <<g, h>>) \o s = <<g>> \o (<<h>> \o s)
      /\ (<<f>> \o <<g, h>>) \o s = <<f>> \o (<<g>> \o (<<h>> \o s))
  BY <1>2, <1>3, Stacked
<1>6. CombatStop(u, mutual) \in Seq(Frame) /\ CombatStop(u, mutual) # <<>>
  <2>1. <<>> \o <<g, h>> \in Seq(Frame) /\ <<>> \o <<g, h>> # <<>>
    BY <1>2, <1>3
  <2>2. <<f>> \o <<g, h>> \in Seq(Frame) /\ <<f>> \o <<g, h>> # <<>>
    BY <1>2, <1>3
  <2> QED BY <1>4, <2>1, <2>2
<1>7. \/ CombatStop(u, mutual) \o s = <<g>> \o (<<h>> \o s)
      \/ CombatStop(u, mutual) \o s = <<f>> \o (<<g>> \o (<<h>> \o s))
  BY <1>4, <1>5
<1> QED BY <1>1, <1>6, <1>7 DEF f, g, h

LEMMA StopStep ==
  ASSUME NEW u \in Units, NEW mutual \in BOOLEAN, NEW s, Base(m, s)
  PROVE  LET p == <<ClearAll(u)>> \o (<<PvP(u, mutual)>> \o s)
             t == CombatStop(u, mutual) \o s
         IN  /\ Base(m, t)
             /\ Quiet(s) => Quiet(p)
             /\ ClearAll(u) \in Frames(t) /\ PvP(u, mutual) \in Frames(t)
             /\ Frames(s) \subseteq Frames(t)
             /\ \A x \in Frames(t) : x \in Frames(s) \/ x.at # "gone"
             /\ Steady(m, p) /\ Quiet(p) /\ (GoneEnd(p) => Collecting(p)) => Steady(m, t)
             /\ \A here : CoverOK(m, s, here) => CoverOK(m, t, here)
<1> DEFINE g == ClearAll(u)
           h == PvP(u, mutual)
           q == <<h>> \o s
           p == <<g>> \o q
           t == CombatStop(u, mutual) \o s
<1>1. s \in Seq(Frame)
  BY DEF Base
<1>2. g \in Frame /\ g.at = "clearAll"
  BY NewFrames
<1>3. h \in Frame /\ h.at = "pvp"
  BY NewPvPFrame, Zenon
<1>4. \/ t = p
      \/ \E cs \in SUBSET Creatures :
           (\A c \in cs : <<c, u>> \in m.threat) /\ t = <<Lists(u, cs)>> \o p
  BY <1>1, StopIs
<1> HIDE DEF g, h, q, p, t
<1>5. q \in Seq(Frame) /\ Frames(q) = {h} \cup Frames(s) /\ Base(m, q)
      /\ \A here : CoverOK(m, s, here) => CoverOK(m, q, here)
  BY <1>1, <1>3, PushFacts, BasePush, CoverPush DEF q
<1>6. p \in Seq(Frame) /\ Frames(p) = {g} \cup Frames(q) /\ Base(m, p)
      /\ \A here : CoverOK(m, q, here) => CoverOK(m, p, here)
  BY <1>2, <1>5, PushFacts, BasePush, CoverPush DEF p
<1>7. Quiet(s) => Quiet(p)
  BY <1>2, <1>3, <1>5, <1>6 DEF Quiet
<1>8. CASE t = p
  BY <1>2, <1>3, <1>5, <1>6, <1>7, <1>8 DEF g, h, p, q, t
<1>9. ASSUME NEW cs \in SUBSET Creatures, \A c \in cs : <<c, u>> \in m.threat,
             t = <<Lists(u, cs)>> \o p
      PROVE  /\ Base(m, t) /\ Frames(t) = {Lists(u, cs)} \cup Frames(p) /\ Lists(u, cs).at = "lists"
             /\ Steady(m, p) /\ Quiet(p) /\ (GoneEnd(p) => Collecting(p)) => Steady(m, t)
             /\ \A here : CoverOK(m, p, here) => CoverOK(m, t, here)
  <2> DEFINE f == Lists(u, cs)
  <2>1. f \in Frame /\ f.at = "lists" /\ f.who = u /\ f.todo = cs
    BY NewFrames
  <2> HIDE DEF f
  <2>2. FrameIsDue(m, f)
    BY <1>9, <2>1 DEF FrameIsDue
  <2>3. t = <<f>> \o p
    BY <1>9 DEF f
  <2>4. Base(m, t) /\ Frames(t) = {f} \cup Frames(p)
    BY <1>6, <2>1, <2>3, BasePush, PushFacts
  <2>5. Steady(m, p) /\ Quiet(p) /\ (GoneEnd(p) => Collecting(p)) => Steady(m, t)
    BY <1>6, <2>1, <2>2, <2>3, SteadyPush
  <2>6. \A here : CoverOK(m, p, here) => CoverOK(m, t, here)
    BY <1>6, <2>1, <2>3, CoverPush
  <2> QED BY <2>1, <2>4, <2>5, <2>6 DEF f
<1>10. ASSUME NEW cs \in SUBSET Creatures, \A c \in cs : <<c, u>> \in m.threat,
              t = <<Lists(u, cs)>> \o p
       PROVE  /\ Base(m, t) /\ g \in Frames(t) /\ h \in Frames(t) /\ Frames(s) \subseteq Frames(t)
              /\ \A x \in Frames(t) : x \in Frames(s) \/ x.at # "gone"
              /\ Steady(m, p) /\ Quiet(p) /\ (GoneEnd(p) => Collecting(p)) => Steady(m, t)
              /\ \A here : CoverOK(m, s, here) => CoverOK(m, t, here)
  BY <1>2, <1>3, <1>5, <1>6, <1>9, <1>10
<1>11. CASE t # p
  BY <1>4, <1>7, <1>10, <1>11 DEF g, h, p, q, t
<1> QED BY <1>8, <1>11

(* On a stack where nothing uses a reference. *)
LEMMA StopSteady ==
  ASSUME NEW u \in Units, NEW mutual \in BOOLEAN, NEW s, Base(m, s), Steady(m, s), Quiet(s),
         GoneEnd(s) => Collecting(s)
  PROVE  Steady(m, CombatStop(u, mutual) \o s)
<1> DEFINE g == ClearAll(u)
           h == PvP(u, mutual)
           q == <<h>> \o s
           p == <<g>> \o q
<1>1. s \in Seq(Frame)
  BY DEF Base
<1>2. g \in Frame /\ g.at = "clearAll"
  BY NewFrames
<1>3. h \in Frame /\ h.at = "pvp"
  BY NewPvPFrame, Zenon
<1>4. /\ Quiet(p)
      /\ Steady(m, p) /\ Quiet(p) /\ (GoneEnd(p) => Collecting(p))
           => Steady(m, CombatStop(u, mutual) \o s)
  BY StopStep, Zenon
<1> HIDE DEF g, h, p, q
<1>5. FrameIsDue(m, g) /\ FrameIsDue(m, h)
  BY <1>2, <1>3 DEF FrameIsDue
<1>6. Steady(m, q) /\ (Collecting(s) => Collecting(q)) /\ (GoneEnd(q) => GoneEnd(s))
  BY <1>1, <1>3, <1>5, SteadyPush, GoneEndPush DEF q
<1>7. q \in Seq(Frame) /\ Frames(q) = {h} \cup Frames(s)
  BY <1>1, <1>3, PushFacts DEF q
<1>8. Quiet(q)
  BY <1>3, <1>7 DEF Quiet
<1>9. Steady(m, p) /\ (Collecting(q) => Collecting(p)) /\ (GoneEnd(p) => GoneEnd(q))
  BY <1>2, <1>5, <1>6, <1>7, <1>8, SteadyPush, GoneEndPush DEF p
<1> QED BY <1>4, <1>6, <1>9

LEMMA ScriptEvadesStep ==
  ASSUME CombatIInv, ScriptEvades
  PROVE  CombatIInv'
<1> DEFINE c == Top.who
           h == Home(c)
           s == <<h>> \o Below
<1>1. /\ At("script") /\ stack' = EnterEvadeMode(c) \o Below /\ m' = m
      /\ UNCHANGED <<present, hidden, engaged, evading, handedOff>>
  BY DEF ScriptEvades
<1>2. /\ stack # <<>> /\ Top.at = "script" /\ Top \in Frame /\ stack \in Seq(Frame)
      /\ Below \in Seq(Frame)
  BY <1>1, AtIs
<1>3. /\ Base(m, Below)
      /\ handedOff = FALSE => Steady(m, Below) /\ CoverOK(m, Below, present)
  BY <1>1, PopStep
<1>4. c \in Creatures /\ c \in Units
  BY <1>2, FrameFacts DEF Units
<1>5. h \in Frame /\ h.at = "home"
  BY <1>4, NewFrames
<1>6. CASE c \in evading
  <2>1. EnterEvadeMode(c) = <<>> /\ <<>> \o Below = Below
    BY <1>2, <1>6 DEF EnterEvadeMode
  <2>2. stack' = Below
    BY <1>1, <2>1
  <2> QED BY <1>1, <1>3, <2>2, CallStep
<1>7. CASE c \notin evading
  <2>1. EnterEvadeMode(c) = CombatStop(c, TRUE) \o <<h>>
    BY <1>7 DEF EnterEvadeMode
  <2> HIDE DEF c, h
  <2>2. CombatStop(c, TRUE) \in Seq(Frame)
    <3>1. TRUE \in BOOLEAN
      OBVIOUS
    <3> QED BY <1>2, <1>4, <3>1, StopIs, Zenon
  <2>3. stack' = CombatStop(c, TRUE) \o s
    <3> DEFINE x == CombatStop(c, TRUE)
    <3>1. stack' = (x \o <<h>>) \o Below
      BY <1>1, <2>1
    <3>2. x \in Seq(Frame)
      BY <2>2, Zenon
    <3> HIDE DEF x
    <3>3. <<h>> \in Seq(Frame)
      BY <1>5
    <3>4. stack' = x \o s
      BY <1>2, <3>1, <3>2, <3>3, ConcatAssoc
    <3> QED BY <3>4 DEF x
  <2>4. Base(m, s) /\ s \in Seq(Frame) /\ Frames(s) = {h} \cup Frames(Below)
    BY <1>2, <1>3, <1>5, BasePush, PushFacts
  <2> HIDE DEF s
  <2>5. /\ Base(m, CombatStop(c, TRUE) \o s)
        /\ CoverOK(m, s, present) => CoverOK(m, CombatStop(c, TRUE) \o s, present)
    BY <1>4, <2>4, StopStep
  <2>6. ASSUME handedOff = FALSE
        PROVE  /\ Steady(m, CombatStop(c, TRUE) \o s)
               /\ CoverOK(m, CombatStop(c, TRUE) \o s, present)
    <3>1. Quiet(Below) /\ (GoneEnd(Below) => Collecting(Below))
      BY <1>2, <2>6, CalmIs, SteadyPop DEF Top, Below
    <3>2. FrameIsDue(m, h)
      BY <1>5 DEF FrameIsDue
    <3>3. Steady(m, s) /\ (Collecting(Below) => Collecting(s)) /\ (GoneEnd(s) => GoneEnd(Below))
      BY <1>2, <1>3, <1>5, <2>6, <3>1, <3>2, SteadyPush, GoneEndPush DEF s
    <3>4. Quiet(s)
      BY <1>5, <2>4, <3>1 DEF Quiet
    <3>5. Steady(m, CombatStop(c, TRUE) \o s)
      BY <1>4, <2>4, <3>1, <3>3, <3>4, StopSteady
    <3>6. CoverOK(m, s, present)
      BY <1>2, <1>3, <1>5, <2>6, CoverPush DEF s
    <3> QED BY <2>5, <3>5, <3>6
  <2> QED BY <1>1, <2>3, <2>5, <2>6, CallStep
<1> QED BY <1>6, <1>7

(* Without an end under way both managers have every entry. *)
LEMMA FullyListed ==
  ASSUME NEW w \in Managers, RefsOK(w, {}), NEW a \in Units, NEW b \in Units
  PROVE  <<b, a>> \in w.listed => <<a, b>> \in w.listed
BY DEF RefsOK

LEMMA AddThreatStep ==
  ASSUME NEW s, Base(m, s), m.ok = TRUE, NEW c \in Creatures, NEW u \in Units,
         NEW o \in AddThreat(m, c, u)
  PROVE  /\ Base(o.m, s) /\ o.tell \subseteq Units
         /\ o.m.objs \subseteq m.objs \cup {<<c, u>>}
         /\ o.m.objs # m.objs => c \in present /\ u \in present
         /\ Quiet(s) /\ Steady(m, s) => Steady(o.m, s)
<1>1. m \in Managers /\ ThreatOK(m) /\ RefsOK(m, Ending(s))
  BY DEF Base
<1>2. Threatens(m, o, c, u, Ending(s))
  BY <1>1, AddThreatFacts
<1>3. PICK v \in Managers :
        /\ Engages(m, v, c, u) /\ (v.ok = TRUE => RefsOK(v, Ending(s)))
        /\ \E T : /\ Rethreatened(v, o, T)
                  /\ T = m.threat \/ (T = m.threat \cup {<<c, u>>} /\ <<c, u>> \in v.listed)
  BY <1>2 DEF Threatens
<1>4. PICK T : /\ Rethreatened(v, o, T)
               /\ T = m.threat \/ (T = m.threat \cup {<<c, u>>} /\ <<c, u>> \in v.listed)
  BY <1>3
<1>5. /\ o.m \in Managers /\ ThreatOK(o.m) /\ SameRefs(v, o.m)
      /\ o.m.threat = T /\ o.tell \subseteq Units
  BY <1>4 DEF Rethreatened
<1>6. o.m.ok = TRUE => RefsOK(o.m, Ending(s))
  <2> HAVE o.m.ok = TRUE
  <2>1. v.ok = TRUE
    BY <1>5 DEF SameRefs
  <2> QED BY <1>3, <1>5, <2>1, RefsSame
<1>7. Base(o.m, s)
  BY <1>5, <1>6 DEF Base
<1>8. /\ o.m.objs \subseteq m.objs \cup {<<c, u>>}
      /\ o.m.objs # m.objs => c \in present /\ u \in present
  BY <1>3, <1>5 DEF SameRefs, Engages
<1>9. ASSUME Quiet(s), Steady(m, s) PROVE Steady(o.m, s)
  <2>1. RefsOK(m, {})
    BY <1>1, <1>9, QuietEnding
  <2>2. <<u, c>> \in m.listed => <<c, u>> \in m.listed
    BY <1>1, <2>1, FullyListed DEF Units
  <2>3. v.ok = TRUE
    BY <1>3, <2>2 DEF Engages
  <2>4. o.m.ok = TRUE
    BY <1>5, <2>3 DEF SameRefs
  <2>5. o.m.threat \subseteq o.m.listed
    BY <1>3, <1>4, <1>5, <1>9 DEF SameRefs, Engages, Steady
  <2> QED BY <1>9, <2>4, <2>5, SteadyQuiet
<1> QED BY <1>5, <1>7, <1>8, <1>9

(* A new combat of someone about to go is ended with the others. *)
LEMMA CoverNew ==
  ASSUME NEW w, NEW v, NEW s \in Seq(Frame), BottomOK(s), CoverOK(w, s, present),
         NEW a, NEW b, a \in Creatures \/ s = <<>>,
         v.objs \subseteq w.objs \cup {<<a, b>>},
         v.objs # w.objs => a \in present /\ b \in present,
         GoneEnd(s) => Collecting(s)
  PROVE  CoverOK(v, s, present)
<1> SUFFICES ASSUME NEW o \in v.objs, NEW u \in Units, u = o[1] \/ u = o[2],
                    Goes(s, u, present)
             PROVE  \E f \in Frames(s) : Covers(f, o, u)
  BY DEF CoverOK
<1>1. CASE o \in w.objs
  BY <1>1 DEF CoverOK
<1>2. CASE o \notin w.objs
  <2>1. o = <<a, b>> /\ a \in present /\ b \in present
    BY <1>2
  <2>2. u \in present
    BY <2>1
  <2>3. PICK f \in Frames(s) : f.at = "gone" /\ f.who = u
    BY <2>2 DEF Goes
  <2>4. GoneEnd(s) /\ f = s[Len(s)]
    BY <2>3, GoesByGone
  <2>5. PICK g \in Frames(s) : g.at = "clearAll" /\ g.who = s[Len(s)].who
    BY <2>4, CollectingCovers
  <2>6. a \in Creatures
    BY <2>3, EmptyStack
  <2>7. ~IsPvP(o)
    BY <2>1, <2>6, CombatAssumption DEF IsPvP
  <2>8. Covers(g, o, u)
    BY <2>3, <2>4, <2>5, <2>7 DEF Covers
  <2> QED BY <2>8
<1> QED BY <1>1, <1>2

LEMMA ScriptEngagesStep ==
  ASSUME CombatIInv, ScriptEngages
  PROVE  CombatIInv'
<1>1. /\ At("script") /\ Top.acts > 0
      /\ UNCHANGED <<present, hidden, engaged, evading, handedOff>>
  BY DEF ScriptEngages
<1>0. PICK c \in Creatures, u \in Units : \E o \in AddThreat(m, c, u) :
        Continue(o, c, <<Script(Top.who, Top.acts - 1)>> \o Below)
  BY DEF ScriptEngages
<1>2. PICK o \in AddThreat(m, c, u) :
        Continue(o, c, <<Script(Top.who, Top.acts - 1)>> \o Below)
  BY <1>0
<1>3. /\ m.ok = TRUE /\ stack # <<>> /\ Top.at = "script" /\ Top \in Frame /\ stack \in Seq(Frame)
      /\ Below \in Seq(Frame)
  BY <1>1, AtIs
<1> DEFINE f == Script(Top.who, Top.acts - 1)
           s == <<f>> \o Below
<1>4. f \in Frame /\ f.at = "script"
  <2>1. Top.who \in Creatures /\ Top.acts - 1 \in Nat
    BY <1>1, <1>3, FrameFacts
  <2> QED BY <2>1, NewFrames
<1> HIDE DEF f
<1>5. /\ Base(m, Below)
      /\ handedOff = FALSE => Steady(m, Below) /\ CoverOK(m, Below, present)
  BY <1>1, PopStep
<1>6. /\ Base(m, s) /\ s \in Seq(Frame) /\ BottomOK(s) /\ s[1] = f
      /\ Frames(s) = {f} \cup Frames(Below)
  BY <1>3, <1>4, <1>5, BasePush, PushFacts DEF Base
<1>7. /\ Base(o.m, s) /\ o.tell \subseteq Units
      /\ o.m.objs \subseteq m.objs \cup {<<c, u>>}
      /\ o.m.objs # m.objs => c \in present /\ u \in present
      /\ Quiet(s) /\ Steady(m, s) => Steady(o.m, s)
  BY <1>3, <1>6, AddThreatStep
<1>8. ASSUME handedOff = FALSE
      PROVE  /\ Steady(o.m, s) /\ (GoneEnd(s) => Collecting(s))
             /\ CoverOK(o.m, s, present)
  <2>1. Quiet(Below) /\ (GoneEnd(Below) => Collecting(Below))
    BY <1>3, <1>8, CalmIs, SteadyPop DEF Top, Below
  <2>2. FrameIsDue(m, f)
    BY <1>4 DEF FrameIsDue
  <2>3. Steady(m, s) /\ (Collecting(Below) => Collecting(s)) /\ (GoneEnd(s) => GoneEnd(Below))
    BY <1>3, <1>4, <1>5, <1>8, <2>1, <2>2, SteadyPush, GoneEndPush
  <2>4. Quiet(s)
    BY <1>4, <1>6, <2>1 DEF Quiet
  <2>5. CoverOK(m, s, present)
    BY <1>3, <1>4, <1>5, <1>8, CoverPush
  <2>6. GoneEnd(s) => Collecting(s)
    BY <2>1, <2>3
  <2> HIDE DEF s
  <2>7. CoverOK(o.m, s, present)
    BY <1>6, <1>7, <2>5, <2>6, CoverNew
  <2> QED BY <1>7, <2>3, <2>4, <2>6, <2>7
<1>9. Continue(o, c, s)
  BY <1>2 DEF f
<1> HIDE DEF s
<1>10. /\ Base(m', stack')
       /\ /\ Steady(o.m, s)
          /\ s # <<>> => s[1].at # "endAll"
          /\ GoneEnd(s) => Collecting(s) \/ s[1].at = "end"
          => Steady(m', stack')
       /\ \A here : CoverOK(o.m, s, here) => CoverOK(m', stack', here)
  BY <1>6, <1>7, <1>9, Told
<1>11. handedOff = FALSE => Steady(m', stack') /\ CoverOK(m', stack', present)
  BY <1>4, <1>6, <1>8, <1>10
<1> QED BY <1>1, <1>10, <1>11, CallStep

LEMMA RemoveMeFromThreatListsStep ==
  ASSUME CombatIInv, RemoveMeFromThreatLists
  PROVE  CombatIInv'
<1>1. At("lists") /\ UNCHANGED <<present, hidden, engaged, evading, handedOff>>
  BY DEF RemoveMeFromThreatLists
<1>2. PICK c \in Top.todo :
        \/ <<c, Top.who>> \notin m.threat /\ Fail
        \/ /\ <<c, Top.who>> \in m.threat
           /\ \E o \in ClearThreat(m, c, Top.who) : Continue(o, c, Without(c))
  BY DEF RemoveMeFromThreatLists
<1>3. /\ m.ok = TRUE /\ stack # <<>> /\ Top.at = "lists" /\ Top \in Frame /\ stack \in Seq(Frame)
      /\ Below \in Seq(Frame) /\ Base(m, stack) /\ m \in Managers /\ ThreatOK(m)
  BY <1>1, AtIs
<1>4. Top.who \in Units /\ c \in Creatures /\ c \in Units
  BY <1>3, FrameFacts DEF Units
<1>5. ASSUME handedOff = FALSE
      PROVE  /\ Steady(m, stack) /\ Steady(m, Below) /\ Quiet(Below)
             /\ \A x \in Top.todo : <<x, Top.who>> \in m.threat
             /\ GoneEnd(Below) => Collecting(Below)
  <2>1. Steady(m, stack)
    BY <1>5, CalmIs
  <2>2. /\ Steady(m, Below) /\ FrameIsDue(m, Top) /\ Quiet(Below)
        /\ GoneEnd(Below) => Collecting(Below)
    BY <1>3, <2>1, SteadyPop DEF Top, Below
  <2> QED BY <1>3, <2>1, <2>2 DEF FrameIsDue
<1>6. CASE <<c, Top.who>> \notin m.threat /\ Fail
  <2>1. Base(m', stack')
    BY <1>3, <1>6, FailedIs
  <2>2. handedOff # FALSE
    BY <1>5, <1>6
  <2> QED BY <1>1, <2>1, <2>2, CallStep
<1>7. CASE /\ <<c, Top.who>> \in m.threat
           /\ \E o \in ClearThreat(m, c, Top.who) : Continue(o, c, Without(c))
  <2>1. PICK o \in ClearThreat(m, c, Top.who) : Continue(o, c, Without(c))
    BY <1>7
  <2>2. Rethreatened(m, o, m.threat \ {<<c, Top.who>>})
    BY <1>3, <1>4, ClearThreatFacts
  <2>3. /\ o.m \in Managers /\ ThreatOK(o.m) /\ SameRefs(m, o.m)
        /\ o.m.threat = m.threat \ {<<c, Top.who>>} /\ o.tell \subseteq Units
    BY <2>2 DEF Rethreatened
  <2> DEFINE s == Without(c)
  <2>4. Base(m, s) /\ s \in Seq(Frame)
    BY <1>3, WithoutBase
  <2>5. Base(o.m, s)
    BY <2>3, <2>4, BaseThreat
  <2>6. /\ Fewer(Top, c).at = "lists" /\ Fewer(Top, c).who = Top.who
        /\ Fewer(Top, c).todo = Top.todo \ {c}
    BY <1>3, FewerFacts
  <2>7. \A f \in Frames(s) : f \in Frames(Below) \/ f = Fewer(Top, c)
    BY <1>3, WithoutFrames
  <2> HIDE DEF s
  <2>8. ASSUME handedOff = FALSE
        PROVE  /\ Steady(o.m, s) /\ CoverOK(o.m, s, present)
               /\ s # <<>> => s[1].at # "endAll"
               /\ GoneEnd(s) => Collecting(s)
    <3>1. o.m.ok = TRUE
      BY <1>3, <2>3 DEF SameRefs
    <3>2. o.m.threat \subseteq o.m.listed
      BY <1>5, <2>3, <2>8 DEF SameRefs, Steady
    <3>3. Steady(o.m, Below)
      BY <1>5, <2>8, <3>1, <3>2, SteadyQuiet
    <3>4. FrameIsDue(o.m, Fewer(Top, c))
      <4>1. \A x \in Top.todo \ {c} : <<x, Top.who>> \in o.m.threat
        BY <1>5, <2>3, <2>8
      <4> QED BY <2>6, <4>1 DEF FrameIsDue
    <3>5. /\ Steady(o.m, s)
          /\ Collecting(Below) => Collecting(s)
          /\ GoneEnd(s) => GoneEnd(Below)
      BY <1>3, <1>5, <2>8, <3>3, <3>4, WithoutSteady DEF s
    <3>6. ASSUME s # <<>> PROVE s[1].at # "endAll"
      <4>1. s[1] \in Frames(s)
        BY <2>4, <3>6, TopIs
      <4> QED BY <1>5, <2>6, <2>7, <2>8, <4>1 DEF Quiet
    <3>7. CoverOK(m, stack, present)
      BY <2>8, CalmIs
    <3>8. CoverOK(m, s, present)
      BY <1>3, <3>7, WithoutCover DEF s
    <3>9. CoverOK(o.m, s, present)
      BY <2>3, <3>8, CoverSame DEF SameRefs
    <3> QED BY <1>5, <2>8, <3>5, <3>6, <3>9
  <2>9. Continue(o, c, s)
    BY <2>1 DEF s
  <2>10. /\ Base(m', stack')
         /\ /\ Steady(o.m, s)
            /\ s # <<>> => s[1].at # "endAll"
            /\ GoneEnd(s) => Collecting(s) \/ s[1].at = "end"
            => Steady(m', stack')
         /\ \A here : CoverOK(o.m, s, here) => CoverOK(m', stack', here)
    BY <1>4, <2>3, <2>4, <2>5, <2>9, Told
  <2>11. handedOff = FALSE => Steady(m', stack') /\ CoverOK(m', stack', present)
    BY <2>8, <2>10
  <2> QED BY <1>1, <2>10, <2>11, CallStep
<1> QED BY <1>2, <1>6, <1>7

(* The references collected are all that the call would have ended. *)
LEMMA CollectStep ==
  ASSUME CombatIInv, NEW a \in {"clearAll", "pvp"}, At(a),
         UNCHANGED <<present, hidden, engaged, evading, handedOff>>,
         m' \in Managers, ThreatOK(m'), SameRefs(m, m'), m'.threat \subseteq m.threat,
         NEW os, os \subseteq m.objs, ThenEndAll(os),
         \A o \in m.objs, u \in Units :
           /\ o \in m.listed /\ <<o[2], o[1]>> \in m.listed
           /\ u = o[1] \/ u = o[2]
           /\ Covers(Top, o, u)
           => o \in os
  PROVE  CombatIInv'
<1>1. /\ m.ok = TRUE /\ stack # <<>> /\ Top.at = a /\ Top \in Frame /\ stack \in Seq(Frame)
      /\ Below \in Seq(Frame) /\ Base(m, stack) /\ m \in Managers
  BY AtIs
<1> DEFINE f == EndAll(os)
<1>2. f \in Frame /\ f.at = "endAll" /\ f.todo = os
  BY <1>1, NewFrames DEF Managers
<1>3. \/ os = {} /\ stack' = Below
      \/ os # {} /\ stack' = <<f>> \o Below
  <2>1. <<>> \o Below = Below
    BY <1>1
  <2> QED BY <2>1 DEF ThenEndAll
<1> HIDE DEF f
<1>4. Base(m', Below)
  BY <1>1, BasePop, BaseThreat DEF Top, Below
<1>5. Base(m', <<f>> \o Below)
  BY <1>2, <1>4, BasePush
<1>6. Base(m', stack')
  BY <1>3, <1>4, <1>5
<1>7. Frames(stack) = {Top} \cup Frames(Below) /\ Frames(<<f>> \o Below) = {f} \cup Frames(Below)
  BY <1>1, <1>2, PopFacts, PushFacts DEF Top, Below
<1>8. ASSUME handedOff = FALSE PROVE Steady(m', stack') /\ CoverOK(m', stack', present)
  <2>1. Steady(m, stack) /\ CoverOK(m, stack, present)
    BY <1>8, CalmIs
  <2>2. /\ Steady(m, Below) /\ Quiet(Below)
        /\ GoneEnd(Below) => Collecting(Below) \/ Below[1].at # "ai"
    BY <1>1, <2>1, SteadyPop DEF Top, Below
  <2>3. m'.ok = TRUE
    BY <1>1 DEF SameRefs
  <2>4. m'.threat \subseteq m'.listed /\ m'.objs = m.objs
    BY <2>1 DEF SameRefs, Steady
  <2>5. Steady(m', Below)
    BY <2>2, <2>3, <2>4, SteadyQuiet
  <2>6. FrameIsDue(m', f)
    BY <1>2, <2>4 DEF FrameIsDue
  <2>7. Steady(m', <<f>> \o Below)
    BY <1>1, <1>2, <2>2, <2>5, <2>6, SteadyPush
  <2>8. Quiet(stack)
    BY <1>1, <1>7, <2>2 DEF Quiet
  <2>9. RefsOK(m, {})
    BY <1>1, <2>8, QuietEnding DEF Base
  <2>10. \A o \in m.objs : o \in m.listed /\ <<o[2], o[1]>> \in m.listed
    BY <2>9 DEF RefsOK
  <2>11. \A o \in m.objs, u \in Units : (u = o[1] \/ u = o[2]) /\ Covers(Top, o, u) => o \in os
    BY <2>10
  <2>12. \A o, u : o \in os => Covers(f, o, u)
    BY <1>2 DEF Covers
  <2>13. Frames(Below) \subseteq Frames(stack') /\ (os # {} => f \in Frames(stack'))
    BY <1>3, <1>7
  <2>14. \A u \in Units : Goes(stack', u, present) => Goes(stack, u, present)
    BY <1>2, <1>3, <1>7 DEF Goes
  <2>15. \A o \in m.objs, u \in Units : \A g \in Frames(stack) :
           (u = o[1] \/ u = o[2]) /\ Covers(g, o, u) => \E h \in Frames(stack') : Covers(h, o, u)
    BY <1>7, <2>11, <2>12, <2>13
  <2>16. CoverOK(m', stack', present)
    BY <2>1, <2>4, <2>14, <2>15, CoverStep
  <2> QED BY <1>3, <2>5, <2>7, <2>16
<1> QED BY <1>6, <1>8, CallStep

LEMMA ReferencesIs ==
  ASSUME m \in Managers, NEW u \in Units, NEW pvp \in BOOLEAN
  PROVE  /\ References(u, pvp) \subseteq m.objs
         /\ \A o \in m.objs :
              /\ o \in m.listed /\ <<o[2], o[1]>> \in m.listed
              /\ u = o[1] \/ u = o[2]
              /\ IsPvP(o) <=> pvp
              => o \in References(u, pvp)
<1>1. References(u, pvp) \subseteq m.objs
  BY DEF References
<1>2. ASSUME NEW o \in m.objs, o \in m.listed, <<o[2], o[1]>> \in m.listed, u = o[1] \/ u = o[2]
      PROVE  \E r \in Both(o[1], o[2]) \cap m.listed : r[1] = u
  <2>1. o = <<o[1], o[2]>>
    BY PairIs DEF Managers
  <2>2. o \in Both(o[1], o[2]) /\ <<o[2], o[1]>> \in Both(o[1], o[2])
    BY <2>1 DEF Both
  <2> QED BY <1>2, <2>2
<1> QED BY <1>1, <1>2 DEF References

LEMMA EndAllPvECombatStep ==
  ASSUME CombatIInv, EndAllPvECombat
  PROVE  CombatIInv'
<1>1. /\ At("clearAll") /\ UNCHANGED <<present, hidden, engaged, evading, handedOff>>
      /\ m' = IF Top.who \in Creatures THEN Unregister(m, Top.who, Units) ELSE m
      /\ ThenEndAll(References(Top.who, FALSE))
  BY DEF EndAllPvECombat
<1>2. Top.at = "clearAll" /\ Top \in Frame /\ m \in Managers /\ ThreatOK(m)
  BY <1>1, AtIs
<1>3. Top.who \in Units
  BY <1>2, FrameFacts
<1>4. m' \in Managers /\ ThreatOK(m') /\ SameRefs(m, m') /\ m'.threat \subseteq m.threat
  <2>1. CASE Top.who \in Creatures
    <3>1. m' = Unregister(m, Top.who, Units)
      BY <1>1, <2>1
    <3> QED BY <1>2, <2>1, <3>1, UnregisterFacts
  <2>2. CASE Top.who \notin Creatures
    BY <1>1, <1>2, <2>2 DEF SameRefs
  <2> QED BY <2>1, <2>2
<1>5. \A o, u : Covers(Top, o, u) => u = Top.who /\ ~IsPvP(o)
  BY <1>2 DEF Covers
<1>6. /\ References(Top.who, FALSE) \subseteq m.objs
      /\ \A o \in m.objs :
           /\ o \in m.listed /\ <<o[2], o[1]>> \in m.listed
           /\ Top.who = o[1] \/ Top.who = o[2]
           /\ ~IsPvP(o)
           => o \in References(Top.who, FALSE)
  BY <1>2, <1>3, ReferencesIs
<1> DEFINE os == References(Top.who, FALSE)
<1>7. os \subseteq m.objs
  BY <1>6
<1>8. \A o \in m.objs, u \in Units :
        /\ o \in m.listed /\ <<o[2], o[1]>> \in m.listed
        /\ u = o[1] \/ u = o[2]
        /\ Covers(Top, o, u)
        => o \in os
  BY <1>5, <1>6
<1>9. ThenEndAll(os)
  BY <1>1
<1> HIDE DEF os
<1> QED BY <1>1, <1>4, <1>7, <1>8, <1>9, CollectStep

LEMMA EndAllPvPCombatStep ==
  ASSUME CombatIInv, EndAllPvPCombat
  PROVE  CombatIInv'
<1>1. /\ At("pvp") /\ UNCHANGED <<present, hidden, engaged, evading, handedOff>>
      /\ m' = m /\ ThenEndAll(References(Top.who, TRUE))
  BY DEF EndAllPvPCombat
<1>2. Top.at = "pvp" /\ Top \in Frame /\ m \in Managers /\ ThreatOK(m)
  BY <1>1, AtIs
<1>3. Top.who \in Units
  BY <1>2, FrameFacts
<1>4. m' \in Managers /\ ThreatOK(m') /\ SameRefs(m, m') /\ m'.threat \subseteq m.threat
  BY <1>1, <1>2 DEF SameRefs
<1>5. \A o, u : Covers(Top, o, u) => u = Top.who /\ IsPvP(o)
  BY <1>2 DEF Covers
<1>6. /\ References(Top.who, TRUE) \subseteq m.objs
      /\ \A o \in m.objs :
           /\ o \in m.listed /\ <<o[2], o[1]>> \in m.listed
           /\ Top.who = o[1] \/ Top.who = o[2]
           /\ IsPvP(o)
           => o \in References(Top.who, TRUE)
  BY <1>2, <1>3, ReferencesIs
<1> DEFINE os == References(Top.who, TRUE)
<1>7. os \subseteq m.objs
  BY <1>6
<1>8. \A o \in m.objs, u \in Units :
        /\ o \in m.listed /\ <<o[2], o[1]>> \in m.listed
        /\ u = o[1] \/ u = o[2]
        /\ Covers(Top, o, u)
        => o \in os
  BY <1>5, <1>6
<1>9. ThenEndAll(os)
  BY <1>1
<1> HIDE DEF os
<1> QED BY <1>1, <1>4, <1>7, <1>8, <1>9, CollectStep

LEMMA SuppressAllPvPCombatStep ==
  ASSUME CombatIInv, SuppressAllPvPCombat
  PROVE  CombatIInv'
<1>1. /\ At("pvp") /\ UNCHANGED <<present, hidden, engaged, evading, handedOff>>
      /\ m' = SuppressPvPCombat(m, Top.who) /\ stack' = Below
  BY DEF SuppressAllPvPCombat
<1>2. ~Top.mutual
  BY DEF SuppressAllPvPCombat
<1>3. /\ m.ok = TRUE /\ stack # <<>> /\ Top.at = "pvp" /\ Top \in Frame /\ stack \in Seq(Frame)
      /\ Below \in Seq(Frame) /\ Base(m, stack) /\ m \in Managers /\ ThreatOK(m)
  BY <1>1, AtIs
<1>4. Top.who \in Units
  BY <1>3, FrameFacts
<1>5. Top.mutual # TRUE
  BY <1>2
<1>6. /\ m' \in Managers /\ SameThreat(m, m') /\ m'.objs = m.objs /\ m'.listed = m.listed
  BY <1>1, <1>3, <1>4, SuppressFacts
<1>7. m'.ok = TRUE
  BY <1>1, <1>3, <1>4, SuppressFacts
<1>8. Base(m, Below)
  BY <1>3, BasePop DEF Top, Below
<1>9. RefsOK(m', Ending(Below))
  BY <1>1, <1>3, <1>4, <1>8, SuppressRefs DEF Base
<1>10. Base(m', Below)
  BY <1>3, <1>6, <1>8, <1>9, SameThreatIsOK DEF Base
<1>11. ASSUME handedOff = FALSE PROVE Steady(m', Below) /\ CoverOK(m', Below, present)
  <2>1. Steady(m, stack) /\ CoverOK(m, stack, present)
    BY <1>11, CalmIs
  <2>2. Steady(m, Below) /\ Quiet(Below)
    BY <1>3, <2>1, SteadyPop DEF Top, Below
  <2>3. m'.threat \subseteq m'.listed
    BY <1>6, <2>1 DEF SameThreat, Steady
  <2>4. Steady(m', Below)
    BY <1>7, <2>2, <2>3, SteadyQuiet
  <2>5. \A o, u : ~Covers(Head(stack), o, u)
    BY <1>3, <1>5 DEF Covers, Top
  <2>6. CoverOK(m, Below, present)
    BY <1>3, <2>1, <2>5, CoverPop DEF Below
  <2> QED BY <1>6, <2>4, <2>6, CoverSame
<1>12. stack' = Below
  BY <1>1
<1> QED BY <1>1, <1>10, <1>11, <1>12, CallStep

LEMMA EndCombatStep ==
  ASSUME CombatIInv, EndCombat
  PROVE  CombatIInv'
<1>1. /\ At("end") /\ UNCHANGED <<present, hidden, engaged, evading, handedOff>>
      /\ EndFrom(m, Top.ref, Top.step, Below)
  BY DEF EndCombat
<1>2. /\ m.ok = TRUE /\ stack # <<>> /\ Top.at = "end" /\ Top \in Frame /\ stack \in Seq(Frame)
      /\ Below \in Seq(Frame) /\ Base(m, stack) /\ m \in Managers /\ ThreatOK(m)
  BY <1>1, AtIs
<1>3. Top.ref \in Pairs /\ Top.step \in 1 .. 3
  BY <1>2, FrameFacts
<1>4. Top = End(Top.ref, Top.step)
  <2>1. Top \in EndFrame
    BY <1>2 DEF Frame, AiFrame, ScriptFrame, ListsFrame, ClearAllFrame, PvPFrame, EndAllFrame,
       EndFrame, LoopFrame, HomeFrame, GoneFrame
  <2> QED BY <2>1 DEF EndFrame, End
<1>5. stack = <<Top>> \o Below
  <2> DEFINE t == <<Top>> \o Below
  <2>1. /\ t \in Seq(Frame) /\ Len(t) = Len(Below) + 1 /\ t[1] = Top
        /\ \A i \in 1 .. Len(Below) : t[i + 1] = Below[i]
    BY <1>2, PushFacts
  <2>2. /\ Top = stack[1] /\ Len(stack) >= 1 /\ Len(Below) = Len(stack) - 1 /\ Len(stack) \in Nat
        /\ \A i \in 1 .. Len(Below) : Below[i] = stack[i + 1]
    BY <1>2, PopFacts DEF Top, Below
  <2> HIDE DEF t
  <2>3. Len(t) = Len(stack)
    BY <2>1, <2>2
  <2>4. ASSUME NEW i \in 1 .. Len(stack) PROVE t[i] = stack[i]
    <3>1. CASE i = 1
      BY <2>1, <2>2, <3>1
    <3>2. CASE i > 1
      <4>1. i - 1 \in 1 .. Len(Below) /\ (i - 1) + 1 = i
        BY <2>2, <3>2
      <4> QED BY <2>1, <2>2, <4>1
    <3> QED BY <3>1, <3>2
  <2>5. t = stack
    BY <1>2, <2>1, <2>3, <2>4
  <2> QED BY <2>5 DEF t
<1>6. BottomOK(Below)
  BY <1>2, BasePop DEF Below
<1> DEFINE o == Top.ref
           n == Top.step
<1>7. stack = <<End(o, n)>> \o Below
  BY <1>4, <1>5
<1>8. EndFrom(m, o, n, Below) /\ o \in Pairs /\ n \in 1 .. 3
  BY <1>1, <1>3
<1> HIDE DEF o, n
<1>9. Base(m, <<End(o, n)>> \o Below)
  BY <1>2, <1>7
<1>10. /\ Base(m', stack')
       /\ Steady(m, <<End(o, n)>> \o Below) => Steady(m', stack')
       /\ \A here : Steady(m, <<End(o, n)>> \o Below) /\ CoverOK(m, <<End(o, n)>> \o Below, here)
                      => CoverOK(m', stack', here)
  BY <1>2, <1>6, <1>8, <1>9, EndStep
<1>11. handedOff = FALSE => Steady(m', stack') /\ CoverOK(m', stack', present)
  BY <1>7, <1>10, CalmIs
<1> QED BY <1>1, <1>10, <1>11, CallStep

LEMMA EndNextStep ==
  ASSUME CombatIInv, EndNext
  PROVE  CombatIInv'
<1>1. At("endAll") /\ UNCHANGED <<present, hidden, engaged, evading, handedOff>>
  BY DEF EndNext
<1>2. PICK o \in Top.todo : EndFrom(m, o, 1, Without(o))
  BY DEF EndNext
<1>3. /\ m.ok = TRUE /\ stack # <<>> /\ Top.at = "endAll" /\ Top \in Frame /\ stack \in Seq(Frame)
      /\ Below \in Seq(Frame) /\ Base(m, stack) /\ m \in Managers /\ ThreatOK(m)
  BY <1>1, AtIs
<1>4. o \in Pairs /\ 1 \in 1 .. 3
  BY <1>3, FrameFacts
<1> DEFINE s == Without(o)
           e == End(o, 1)
           f == Fewer(Top, o)
<1>5. Base(m, s) /\ s \in Seq(Frame) /\ BottomOK(s)
  BY <1>3, WithoutBase
<1>6. e \in Frame /\ e.at = "end" /\ e.ref = o /\ e.step = 1
  BY <1>4, NewFrames
<1>7. f \in Frame /\ f.at = "endAll" /\ f.todo = Top.todo \ {o}
  BY <1>3, FewerFacts
<1>8. /\ Frames(Below) \subseteq Frames(s)
      /\ Frames(stack) = {Top} \cup Frames(Below)
      /\ \A g \in Frames(s) : g \in Frames(Below) \/ g = f
      /\ Top.todo # {o} => f \in Frames(s)
  BY <1>3, WithoutFrames
<1>9. s = Below \/ s = <<f>> \o Below
  BY WithoutIs
<1> HIDE DEF s, e, f
<1>10. Base(m, <<e>> \o s)
  BY <1>5, <1>6, BasePush
<1>11. ASSUME handedOff = FALSE PROVE Steady(m, <<e>> \o s) /\ CoverOK(m, <<e>> \o s, present)
  <2>1. Steady(m, stack) /\ CoverOK(m, stack, present)
    BY <1>11, CalmIs
  <2>2. /\ Steady(m, Below) /\ FrameIsDue(m, Top) /\ Quiet(Below)
        /\ GoneEnd(Below) => Collecting(Below) \/ Below[1].at # "ai"
    BY <1>3, <2>1, SteadyPop DEF Top, Below
  <2>3. Top.todo \subseteq m.objs
    BY <1>3, <2>2 DEF FrameIsDue
  <2>4. FrameIsDue(m, f)
    BY <1>7, <2>3 DEF FrameIsDue
  <2>5. /\ Steady(m, s)
        /\ Collecting(Below) => Collecting(s)
        /\ GoneEnd(s) => GoneEnd(Below)
    BY <1>3, <2>1, <2>2, <2>4, WithoutSteady DEF s, f
  <2>6. Light(s, o)
    BY <1>7, <1>8, <2>2 DEF Light, Quiet
  <2>7. GoneEnd(s) => Collecting(s) \/ s[1].at # "ai"
    <3>1. CASE s = Below
      BY <2>2, <3>1
    <3>2. CASE s = <<f>> \o Below
      <4>1. s[1] = f
        BY <1>3, <1>7, <3>2, PushFacts
      <4> QED BY <1>7, <4>1
    <3> QED BY <1>9, <3>1, <3>2
  <2>8. FrameIsDue(m, e)
    BY <1>6, <2>3 DEF FrameIsDue
  <2>9. Steady(m, <<e>> \o s)
    BY <1>5, <1>6, <2>5, <2>6, <2>7, <2>8, SteadyPush
  <2>10. Frames(<<e>> \o s) = {e} \cup Frames(s)
    BY <1>5, <1>6, PushFacts
  <2>11. \A u \in Units : Goes(<<e>> \o s, u, present) => Goes(stack, u, present)
    BY <1>6, <1>7, <1>8, <2>10 DEF Goes
  <2>12. \A r, u : Covers(Top, r, u) => Covers(e, r, u) \/ (Top.todo # {o} /\ Covers(f, r, u))
    BY <1>3, <1>6, <1>7 DEF Covers
  <2>13. CoverOK(m, <<e>> \o s, present)
    BY <1>8, <2>1, <2>10, <2>11, <2>12, CoverStep
  <2> QED BY <2>9, <2>13
<1>12. EndFrom(m, o, 1, s)
  BY <1>2 DEF s
<1>13. Base(m, <<End(o, 1)>> \o s)
  BY <1>10 DEF e
<1>14. /\ Base(m', stack')
       /\ Steady(m, <<End(o, 1)>> \o s) => Steady(m', stack')
       /\ \A here : Steady(m, <<End(o, 1)>> \o s) /\ CoverOK(m, <<End(o, 1)>> \o s, here)
                      => CoverOK(m', stack', here)
  BY <1>3, <1>4, <1>5, <1>12, <1>13, EndStep
<1>15. handedOff = FALSE => Steady(m', stack') /\ CoverOK(m', stack', present)
  BY <1>11, <1>14 DEF e
<1> QED BY <1>1, <1>14, <1>15, CallStep

(* A loop erases the entry of its own side first. *)
LEMMA OwnEntryErased ==
  ASSUME m \in Managers, ThreatOK(m), m.ok = TRUE, RefsOK(m, {}),
         NEW p \in Players, NEW v \in Units, NEW o \in m.objs, o \in Both(p, v)
  PROVE  LET w == [m EXCEPT !.listed = @ \ {<<p, v>>}]
         IN  /\ w \in Managers /\ ThreatOK(w) /\ w.ok = TRUE /\ RefsOK(w, {o})
             /\ w.objs = m.objs /\ w.threat = m.threat /\ w.listed = m.listed \ {<<p, v>>}
<1> DEFINE L == m.listed \ {<<p, v>>}
           w == [m EXCEPT !.listed = L]
<1>1. L \in SUBSET Pairs
  BY DEF Managers
<1>2. [m EXCEPT !.listed = @ \ {<<p, v>>}] = w
  BY DEF Managers
<1>3. L = m.listed \ {<<p, v>>}
  OBVIOUS
<1> HIDE DEF L
<1>4. w \in Managers
  BY <1>1 DEF Managers
<1>5. /\ w.objs = m.objs /\ w.listed = L /\ w.suppressed = m.suppressed /\ w.inCombat = m.inCombat
      /\ w.threat = m.threat /\ w.online = m.online /\ w.victim = m.victim
  BY DEF Managers
<1>6. w.ok = TRUE
  BY DEF Managers
<1> HIDE DEF w
<1>7. ThreatOK(w)
  BY <1>5, SameThreatIsOK DEF SameThreat
<1>8. (o = <<p, v>> \/ o = <<v, p>>) /\ p \in Units
  BY BothIs DEF Units
<1>9. p # v
  BY <1>8 DEF RefsOK
<1>10. \A r \in m.objs : r[1] # r[2] /\ <<r[2], r[1]>> \notin m.objs
  BY DEF RefsOK
<1>11. \A r \in m.objs : r \in m.listed /\ <<r[2], r[1]>> \in m.listed
  BY DEF RefsOK
<1>12. \A r \in w.objs : r \in {o} \/ (r \in w.listed /\ <<r[2], r[1]>> \in w.listed)
  <2> SUFFICES ASSUME NEW r \in m.objs, r # o
               PROVE  r # <<p, v>> /\ <<r[2], r[1]>> # <<p, v>>
    BY <1>3, <1>5, <1>11
  <2>1. r = <<r[1], r[2]>> /\ o = <<o[1], o[2]>>
    BY PairIs DEF Managers
  <2>2. <<o[2], o[1]>> \notin m.objs /\ <<o[2], o[1]>> # r
    BY <1>10
  <2> QED BY <1>8, <2>1, <2>2
<1>13. o \in w.listed \/ <<o[2], o[1]>> \in w.listed
  <2>1. CASE o = <<p, v>>
    <3>1. <<o[2], o[1]>> = <<v, p>> /\ <<v, p>> # <<p, v>>
      BY <1>9, <2>1
    <3> QED BY <1>3, <1>5, <1>11, <3>1
  <2>2. CASE o = <<v, p>>
    <3>1. <<v, p>> # <<p, v>>
      BY <1>9
    <3> QED BY <1>3, <1>5, <1>11, <2>2, <3>1
  <2> QED BY <1>8, <2>1, <2>2
<1>14. \A r \in w.objs : r \in w.listed \/ <<r[2], r[1]>> \in w.listed
  BY <1>12, <1>13
<1>15. \A r \in w.listed : r \in w.objs \/ <<r[2], r[1]>> \in w.objs
  BY <1>3, <1>5 DEF RefsOK
<1>16. \A u \in Units : u # p => (HasCombat(w, u) <=> HasCombat(m, u))
  BY <1>3, <1>5, <1>8 DEF HasCombat
<1>17. \A u \in Units : u \in m.inCombat <=> HasCombat(m, u)
  BY DEF RefsOK
<1>18. p = o[1] \/ p = o[2]
  BY <1>8
<1>19. \A u \in Units : (u \in w.inCombat <=> HasCombat(w, u))
                          \/ \E r \in {o} : u = r[1] \/ u = r[2]
  BY <1>5, <1>16, <1>17, <1>18
<1>20. RefsOK(w, {o})
  BY <1>5, <1>10, <1>12, <1>14, <1>15, <1>19 DEF RefsOK
<1> QED BY <1>2, <1>3, <1>4, <1>5, <1>6, <1>7, <1>20

LEMMA LoopStepStep ==
  ASSUME CombatIInv, LoopStep
  PROVE  CombatIInv'
<1>1. At("loop") /\ UNCHANGED <<present, hidden, engaged, evading, handedOff>>
  BY DEF LoopStep
<1>2. PICK v \in Top.todo :
        \/ \E o \in m.objs \cap Both(Top.who, v) :
             EndFrom([m EXCEPT !.listed = @ \ {<<Top.who, v>>}], o, 1, Without(v))
        \/ stack' = Without(v) /\ m' = m
  BY DEF LoopStep
<1>3. /\ m.ok = TRUE /\ stack # <<>> /\ Top.at = "loop" /\ Top \in Frame /\ stack \in Seq(Frame)
      /\ Below \in Seq(Frame) /\ Base(m, stack) /\ m \in Managers /\ ThreatOK(m)
  BY <1>1, AtIs
<1>4. Top.who \in Players /\ v \in Units
  BY <1>3, FrameFacts
<1>5. Below = <<>> /\ Quiet(Below) /\ ~GoneEnd(Below)
  <2>1. Below = <<>>
    BY <1>3, PopBottom DEF Base, Top, Below
  <2> QED BY <2>1, EmptyStack DEF Quiet, GoneEnd
<1> DEFINE s == Without(v)
           f == Fewer(Top, v)
<1>6. Base(m, s) /\ s \in Seq(Frame) /\ BottomOK(s)
  BY <1>3, WithoutBase
<1>7. f.at = "loop"
  BY <1>3, FewerFacts
<1>8. \A g \in Frames(s) : g \in Frames(Below) \/ g = f
  BY <1>3, WithoutFrames
<1> HIDE DEF s, f
<1>9. Quiet(s)
  BY <1>5, <1>7, <1>8 DEF Quiet
<1>10. ASSUME NEW w, w.ok = TRUE, w.threat \subseteq w.listed, handedOff = FALSE
       PROVE  Steady(w, s) /\ ~GoneEnd(s)
  <2>1. Steady(m, stack)
    BY <1>10, CalmIs
  <2>2. Steady(m, Below)
    BY <1>3, <2>1, SteadyPop DEF Below
  <2>3. Steady(w, Below)
    BY <1>5, <1>10, <2>2, SteadyQuiet
  <2>4. FrameIsDue(w, f)
    BY <1>7 DEF FrameIsDue
  <2> QED BY <1>3, <1>5, <2>1, <2>3, <2>4, WithoutSteady DEF s, f
<1>11. handedOff = FALSE => CoverOK(m, s, present) /\ m.threat \subseteq m.listed
  BY <1>3, CalmIs, WithoutCover DEF s, Steady
<1>12. CASE stack' = Without(v) /\ m' = m
  BY <1>1, <1>3, <1>6, <1>10, <1>11, <1>12, CallStep DEF s
<1>13. CASE \E o \in m.objs \cap Both(Top.who, v) :
              EndFrom([m EXCEPT !.listed = @ \ {<<Top.who, v>>}], o, 1, Without(v))
  <2>1. PICK o \in m.objs \cap Both(Top.who, v) :
          EndFrom([m EXCEPT !.listed = @ \ {<<Top.who, v>>}], o, 1, s)
    BY <1>13 DEF s
  <2> DEFINE w == [m EXCEPT !.listed = @ \ {<<Top.who, v>>}]
             e == End(o, 1)
  <2>2. RefsOK(m, {}) /\ Ending(s) = {}
    <3>1. Ending(stack) = Ending(Below)
      BY <1>3, EndingPop DEF Top, Below
    <3>2. Ending(Below) = {} /\ Ending(s) = {}
      BY <1>5, <1>9, QuietEnding
    <3> QED BY <1>3, <3>1, <3>2 DEF Base
  <2>3. /\ w \in Managers /\ ThreatOK(w) /\ w.ok = TRUE /\ RefsOK(w, {o})
        /\ w.objs = m.objs /\ w.threat = m.threat /\ w.listed = m.listed \ {<<Top.who, v>>}
    BY <1>3, <1>4, <2>1, <2>2, OwnEntryErased
  <2>4. o \in Pairs /\ 1 \in 1 .. 3
    BY <1>3 DEF Managers
  <2>5. e \in Frame /\ e.at = "end" /\ e.ref = o /\ e.step = 1
    BY <2>4, NewFrames
  <2>6. EndFrom(w, o, 1, s)
    BY <2>1
  <2> HIDE DEF w, e
  <2>7. Ending(<<e>> \o s) = {o}
    BY <1>6, <2>2, <2>5, EndingPush
  <2>8. <<e>> \o s \in Seq(Frame) /\ BottomOK(<<e>> \o s)
    BY <1>6, <2>5, PushFacts, PushBottom
  <2>9. Base(w, <<e>> \o s)
    BY <2>3, <2>7, <2>8 DEF Base
  <2>10. ASSUME handedOff = FALSE
         PROVE  Steady(w, <<e>> \o s) /\ CoverOK(w, <<e>> \o s, present)
    <3>1. <<Top.who, v>> \notin m.threat
      BY <1>3, <1>4, CombatAssumption DEF Managers
    <3>2. w.threat \subseteq w.listed
      BY <1>11, <2>3, <2>10, <3>1
    <3>3. Steady(w, s) /\ ~GoneEnd(s)
      BY <1>10, <2>3, <2>10, <3>2
    <3>4. FrameIsDue(w, e)
      BY <2>1, <2>3, <2>5 DEF FrameIsDue
    <3>5. Steady(w, <<e>> \o s)
      BY <1>6, <1>9, <2>5, <3>3, <3>4, SteadyPush
    <3>6. CoverOK(w, s, present)
      BY <1>11, <2>3, <2>10, CoverSame
    <3>7. CoverOK(w, <<e>> \o s, present)
      BY <1>6, <2>5, <3>6, CoverPush
    <3> QED BY <3>5, <3>7
  <2>11. Base(w, <<End(o, 1)>> \o s)
    BY <2>9 DEF e
  <2>12. /\ Base(m', stack')
         /\ Steady(w, <<End(o, 1)>> \o s) => Steady(m', stack')
         /\ \A here : Steady(w, <<End(o, 1)>> \o s) /\ CoverOK(w, <<End(o, 1)>> \o s, here)
                        => CoverOK(m', stack', here)
    BY <1>3, <1>6, <2>3, <2>4, <2>6, <2>11, EndStep
  <2>13. handedOff = FALSE => Steady(m', stack') /\ CoverOK(m', stack', present)
    BY <2>10, <2>12 DEF e
  <2> QED BY <1>1, <2>12, <2>13, CallStep
<1> QED BY <1>2, <1>12, <1>13

-----------------------------------------------------------------------------
(* What the map update calls. *)

LEMMA NoStack ==
  /\ <<>> \in Seq(Frame) /\ Frames(<<>>) = {} /\ BottomOK(<<>>)
  /\ Quiet(<<>>) /\ ~GoneEnd(<<>>) /\ Ending(<<>>) = {}
<1>1. Frames(<<>>) = {} /\ <<>> \in Seq(Frame) /\ BottomOK(<<>>)
  BY EmptyStack
<1> QED BY <1>1 DEF Quiet, GoneEnd, Ending

LEMMA ReadyIs ==
  ASSUME CombatIInv, Ready
  PROVE  /\ m.ok = TRUE /\ stack = <<>> /\ handedOff = FALSE
         /\ m \in Managers /\ ThreatOK(m)
         /\ Base(m, <<>>) /\ Steady(m, <<>>) /\ CoverOK(m, <<>>, present)
<1>1. Base(m, stack) /\ handedOff \in BOOLEAN
  BY IInvIs
<1>2. stack = <<>>
  BY DEF Ready, AtRest
<1>3. m.ok \in BOOLEAN
  BY <1>1 DEF Base, Managers
<1>4. m.ok = TRUE
  BY <1>3 DEF Ready, AtRest
<1>5. handedOff = FALSE
  BY <1>1 DEF Ready
<1> QED BY <1>1, <1>2, <1>4, <1>5, CalmIs DEF Base

LEMMA SetInCombatStep ==
  ASSUME CombatIInv, Ready, NEW a \in Units, NEW b \in Units, NEW late \in BOOLEAN,
         m' = SetInCombatWith(m, a, b, late), stack' = stack,
         UNCHANGED <<present, hidden, engaged, evading, handedOff>>
  PROVE  CombatIInv'
<1>1. /\ m.ok = TRUE /\ stack = <<>> /\ m \in Managers /\ ThreatOK(m)
      /\ Base(m, <<>>) /\ Steady(m, <<>>) /\ CoverOK(m, <<>>, present)
  BY ReadyIs
<1>2. RefsOK(m, {})
  BY <1>1, NoStack DEF Base
<1>3. Engages(m, m', a, b) /\ (m'.ok = TRUE => RefsOK(m', {}))
  <2> DEFINE v == SetInCombatWith(m, a, b, late)
  <2>1. Engages(m, v, a, b) /\ (v.ok = TRUE => RefsOK(v, {}))
    BY <1>1, <1>2, SetInCombatFacts, Zenon
  <2>2. m' = v
    OBVIOUS
  <2> HIDE DEF v
  <2> QED BY <2>1, <2>2
<1>4. <<b, a>> \in m.listed => <<a, b>> \in m.listed
  BY <1>1, <1>2, FullyListed
<1>5. m' \in Managers /\ SameThreat(m, m') /\ m.listed \subseteq m'.listed
      /\ m'.objs \subseteq m.objs \cup {<<a, b>>}
      /\ (m'.objs # m.objs => a \in present /\ b \in present)
  BY <1>3 DEF Engages
<1>6. m'.ok = TRUE
  BY <1>1, <1>3, <1>4 DEF Engages
<1>7. Base(m', <<>>)
  BY <1>1, <1>3, <1>5, NoStack, SameThreatIsOK DEF Base
<1>8. m'.threat \subseteq m'.listed
  BY <1>1, <1>5 DEF Steady, SameThreat
<1>9. Steady(m', <<>>)
  BY <1>1, <1>6, <1>8, NoStack, SteadyQuiet
<1>10. CoverOK(m', <<>>, present)
  BY <1>1, <1>5, NoStack, CoverNew
<1>11. stack' = <<>>
  BY <1>1
<1> QED BY <1>7, <1>9, <1>10, <1>11, CallStep

LEMMA EngageWithTargetStep ==
  ASSUME CombatIInv, NEW u \in Units, NEW enemy \in Units, EngageWithTarget(u, enemy)
  PROVE  CombatIInv'
<1>1. Ready /\ UNCHANGED <<present, hidden, engaged, evading, handedOff>>
  BY DEF EngageWithTarget
<1>2. CASE u \notin Creatures
  <2>1. m' = SetInCombatWith(m, u, enemy, FALSE) /\ stack' = stack
    BY <1>2 DEF EngageWithTarget
  <2> QED BY <1>1, <2>1, SetInCombatStep
<1>3. CASE u \in Creatures
  <2>1. PICK o \in AddThreat(m, u, enemy) : Continue(o, u, <<>>)
    BY <1>3 DEF EngageWithTarget
  <2>2. /\ m.ok = TRUE /\ Base(m, <<>>) /\ Steady(m, <<>>) /\ CoverOK(m, <<>>, present)
    BY <1>1, ReadyIs
  <2>3. /\ Base(o.m, <<>>) /\ o.tell \subseteq Units
        /\ o.m.objs \subseteq m.objs \cup {<<u, enemy>>}
        /\ o.m.objs # m.objs => u \in present /\ enemy \in present
        /\ Steady(o.m, <<>>)
    BY <1>3, <2>2, NoStack, AddThreatStep
  <2>4. CoverOK(o.m, <<>>, present)
    BY <1>3, <2>2, <2>3, NoStack, CoverNew
  <2>5. Base(m', stack') /\ Steady(m', stack') /\ CoverOK(m', stack', present)
    BY <1>3, <2>1, <2>3, <2>4, NoStack, Told
  <2> QED BY <1>1, <2>5, CallStep
<1> QED BY <1>2, <1>3

LEMMA LaunchMissileStep ==
  ASSUME CombatIInv, NEW s \in Missiles, LaunchMissile(s[1], s[2])
  PROVE  CombatIInv'
<1>1. /\ Ready /\ UNCHANGED <<present, hidden, engaged, evading, handedOff>>
      /\ m' = SetInCombatWith(m, s[1], s[2], TRUE) /\ stack' = stack
  BY DEF LaunchMissile
<1>2. s[1] \in Units /\ s[2] \in Units
  BY CombatAssumption DEF Units
<1> QED BY <1>1, <1>2, SetInCombatStep

LEMMA ThreatUpdateStep ==
  ASSUME CombatIInv, NEW c \in Creatures, ThreatUpdate(c)
  PROVE  CombatIInv'
<1>1. Ready /\ UNCHANGED <<present, hidden, engaged, evading, handedOff>>
  BY DEF ThreatUpdate
<1>2. PICK o \in UpdateVictim(m, c) : Continue(o, c, <<>>)
  BY DEF ThreatUpdate
<1>3. /\ m.ok = TRUE /\ m \in Managers /\ ThreatOK(m)
      /\ Base(m, <<>>) /\ Steady(m, <<>>) /\ CoverOK(m, <<>>, present)
  BY <1>1, ReadyIs
<1>4. Rethreatened(m, o, m.threat)
  BY <1>3, SelectFacts DEF ThreatOK
<1>5. /\ o.m \in Managers /\ ThreatOK(o.m) /\ SameRefs(m, o.m)
      /\ o.m.threat = m.threat /\ o.tell \subseteq Units
  BY <1>4 DEF Rethreatened
<1>6. Base(o.m, <<>>)
  BY <1>3, <1>5, BaseThreat
<1>7. o.m.ok = TRUE
  BY <1>3, <1>5 DEF SameRefs
<1>8. o.m.threat \subseteq o.m.listed /\ o.m.objs = m.objs
  BY <1>3, <1>5 DEF SameRefs, Steady
<1>9. Steady(o.m, <<>>) /\ CoverOK(o.m, <<>>, present)
  BY <1>3, <1>7, <1>8, NoStack, SteadyQuiet, CoverSame
<1>10. Base(m', stack') /\ Steady(m', stack') /\ CoverOK(m', stack', present)
  BY <1>2, <1>5, <1>6, <1>9, NoStack, Told
<1> QED BY <1>1, <1>10, CallStep

LEMMA OnNothing ==
  ASSUME NEW x \in Seq(Frame)
  PROVE  x \o <<>> = x /\ <<>> \o x = x
OBVIOUS

LEMMA JustReachedHomeStep ==
  ASSUME CombatIInv, NEW c \in Creatures, JustReachedHome(c)
  PROVE  CombatIInv'
BY DEF CombatIInv, JustReachedHome, CombatTypeOK

LEMMA ChangeVisibilityStep ==
  ASSUME CombatIInv, NEW p \in MayHide, ChangeVisibility(p)
  PROVE  CombatIInv'
BY CombatAssumption DEF CombatIInv, ChangeVisibility, CombatTypeOK

LEMMA EvadeStep ==
  ASSUME CombatIInv, NEW c \in Creatures, Evade(c)
  PROVE  CombatIInv'
<1>1. /\ Ready /\ EnterEvadeMode(c) # <<>> /\ stack' = EnterEvadeMode(c) /\ m' = m
      /\ UNCHANGED <<present, hidden, engaged, evading, handedOff>>
  BY DEF Evade, Call
<1>2. Base(m, <<>>) /\ Steady(m, <<>>) /\ CoverOK(m, <<>>, present)
  BY <1>1, ReadyIs
<1> DEFINE h == Home(c)
           s == <<h>> \o <<>>
           t == CombatStop(c, TRUE) \o s
<1>3. h \in Frame /\ h.at = "home" /\ c \in Units
  BY NewFrames DEF Units
<1> HIDE DEF h
<1>4. <<h>> = s
  BY <1>3
<1>5. stack' = t
  BY <1>1, <1>4 DEF EnterEvadeMode, h
<1>6. Base(m, s) /\ s \in Seq(Frame) /\ Frames(s) = {h}
  <2>1. Base(m, s)
    BY <1>2, <1>3, BasePush
  <2>2. s \in Seq(Frame) /\ Frames(s) = {h} \cup Frames(<<>>)
    BY <1>3, NoStack, PushFacts
  <2> QED BY <2>1, <2>2, NoStack
<1>7. FrameIsDue(m, h)
  BY <1>3 DEF FrameIsDue
<1>8. Steady(m, s) /\ ~GoneEnd(s) /\ CoverOK(m, s, present)
  BY <1>2, <1>3, <1>7, NoStack, SteadyPush, GoneEndPush, CoverPush
<1> HIDE DEF s
<1>9. Quiet(s)
  BY <1>3, <1>6 DEF Quiet
<1>10. Base(m, t) /\ (CoverOK(m, s, present) => CoverOK(m, t, present))
  BY <1>3, <1>6, StopStep
<1>11. Steady(m, t)
  BY <1>3, <1>6, <1>8, <1>9, StopSteady
<1> HIDE DEF t
<1> QED BY <1>1, <1>5, <1>8, <1>10, <1>11, CallStep

(* CombatStop at rest. *)
LEMMA StopAtRest ==
  ASSUME CombatIInv, Ready, NEW u \in Units, NEW mutual \in BOOLEAN,
         stack' = CombatStop(u, mutual)
  PROVE  /\ Base(m, stack') /\ Steady(m, stack') /\ CoverOK(m, stack', present)
         /\ ClearAll(u) \in Frames(stack') /\ PvP(u, mutual) \in Frames(stack')
         /\ \A x \in Frames(stack') : x.at # "gone"
<1>1. Base(m, <<>>) /\ Steady(m, <<>>) /\ CoverOK(m, <<>>, present)
  BY ReadyIs
<1> DEFINE t == CombatStop(u, mutual) \o <<>>
<1>2. CombatStop(u, mutual) \in Seq(Frame)
  BY NoStack, StopIs, Zenon
<1>3. stack' = t
  BY <1>2, OnNothing, Zenon
<1>4. /\ Base(m, t) /\ ClearAll(u) \in Frames(t) /\ PvP(u, mutual) \in Frames(t)
      /\ \A x \in Frames(t) : x \in Frames(<<>>) \/ x.at # "gone"
      /\ CoverOK(m, <<>>, present) => CoverOK(m, t, present)
  BY <1>1, StopStep, Zenon
<1>5. Steady(m, t)
  BY <1>1, NoStack, StopSteady, Zenon
<1> HIDE DEF t
<1> QED BY <1>1, <1>3, <1>4, <1>5, NoStack

LEMMA VanishStep ==
  ASSUME CombatIInv, NEW p \in Players, Vanish(p)
  PROVE  CombatIInv'
<1>1. /\ Ready /\ stack' = CombatStop(p, FALSE) /\ m' = m
      /\ UNCHANGED <<present, hidden, engaged, evading, handedOff>>
  BY DEF Vanish, Call
<1>2. p \in Units
  BY DEF Units
<1>3. Base(m, stack') /\ Steady(m, stack') /\ CoverOK(m, stack', present)
  BY <1>1, <1>2, StopAtRest
<1> QED BY <1>1, <1>3, CallStep

(* Nobody else is gone: the unit that goes ends all its combats. *)
LEMMA StopCovers ==
  ASSUME NEW w, CoverOK(w, <<>>, present), NEW t, NEW here, NEW u \in Units,
         ClearAll(u) \in Frames(t), PvP(u, TRUE) \in Frames(t),
         \A x \in Units : Goes(t, x, here) => x = u \/ x \notin present
  PROVE  CoverOK(w, t, here)
<1> SUFFICES ASSUME NEW o \in w.objs, NEW x \in Units, x = o[1] \/ x = o[2], Goes(t, x, here)
             PROVE  \E f \in Frames(t) : Covers(f, o, x)
  BY DEF CoverOK
<1>1. x \in present
  BY NoStack DEF CoverOK, Goes
<1>2. x = u
  BY <1>1
<1>3. ClearAll(u).at = "clearAll" /\ ClearAll(u).who = u
  BY NewFrames
<1>4. PvP(u, TRUE).at = "pvp" /\ PvP(u, TRUE).who = u
  BY NewPvPFrame
<1>5. PvP(u, TRUE).mutual = TRUE
  BY NewPvPFrame
<1>6. CASE IsPvP(o)
  <2>1. Covers(PvP(u, TRUE), o, x)
    BY <1>2, <1>4, <1>5, <1>6 DEF Covers
  <2> QED BY <2>1
<1>7. CASE ~IsPvP(o)
  <2>1. Covers(ClearAll(u), o, x)
    BY <1>2, <1>3, <1>7 DEF Covers
  <2> QED BY <2>1
<1> QED BY <1>6, <1>7

LEMMA DiesStep ==
  ASSUME CombatIInv, NEW u \in Mortals, Dies(u)
  PROVE  CombatIInv'
<1>1. /\ Ready /\ stack' = CombatStop(u, TRUE) /\ m' = m /\ present' = present \ {u}
      /\ UNCHANGED <<hidden, engaged, evading>>
  BY DEF Dies, Call
<1>2. handedOff' = handedOff
  BY DEF Dies
<1>3. u \in Units
  BY CombatAssumption
<1>4. /\ Base(m, stack') /\ Steady(m, stack')
      /\ ClearAll(u) \in Frames(stack') /\ PvP(u, TRUE) \in Frames(stack')
      /\ \A x \in Frames(stack') : x.at # "gone"
  BY <1>1, <1>3, StopAtRest
<1>5. CoverOK(m, <<>>, present)
  BY <1>1, ReadyIs
<1>6. \A x \in Units : Goes(stack', x, present \ {u}) => x = u \/ x \notin present
  BY <1>4 DEF Goes
<1>7. CoverOK(m, stack', present \ {u})
  BY <1>3, <1>4, <1>5, <1>6, StopCovers
<1>8. /\ present \subseteq Units /\ hidden \subseteq Players
      /\ engaged \subseteq Creatures /\ evading \subseteq Creatures
      /\ handedOff \in BOOLEAN
  BY IInvIs
<1>9. present' \subseteq Units /\ hidden' \subseteq Players
      /\ engaged' \subseteq Creatures /\ evading' \subseteq Creatures
  BY <1>1, <1>8
<1>10. handedOff' \in BOOLEAN
  BY <1>2, <1>8
<1>11. Base(m', stack') /\ Steady(m', stack') /\ CoverOK(m', stack', present')
  BY <1>1, <1>4, <1>7
<1> QED BY <1>9, <1>10, <1>11, IInvNext

LEMMA ReturnsStep ==
  ASSUME CombatIInv, NEW p \in Players, Returns(p)
  PROVE  CombatIInv'
<1>1. /\ Ready /\ m' = m /\ stack' = stack /\ present' = present \cup {p}
      /\ UNCHANGED <<hidden, engaged, evading>>
  BY DEF Returns
<1>2. handedOff' = handedOff
  BY DEF Returns
<1>3. stack = <<>> /\ Base(m, <<>>) /\ Steady(m, <<>>) /\ CoverOK(m, <<>>, present)
  BY <1>1, ReadyIs
<1>4. CoverOK(m, <<>>, present \cup {p})
  BY <1>3 DEF CoverOK, Goes
<1>5. /\ present \subseteq Units /\ hidden \subseteq Players
      /\ engaged \subseteq Creatures /\ evading \subseteq Creatures
      /\ handedOff \in BOOLEAN
  BY IInvIs
<1>6. present' \subseteq Units /\ hidden' \subseteq Players
      /\ engaged' \subseteq Creatures /\ evading' \subseteq Creatures
  BY <1>1, <1>5 DEF Units
<1>7. handedOff' \in BOOLEAN
  BY <1>2, <1>5
<1>8. Base(m', stack') /\ Steady(m', stack') /\ CoverOK(m', stack', present')
  BY <1>1, <1>3, <1>4
<1> QED BY <1>6, <1>7, <1>8, IInvNext

LEMMA LoopStarts ==
  ASSUME CombatIInv, Ready, NEW p \in Players, NEW vs \in SUBSET Units,
         stack' = <<Loop(p, vs)>>, m' = m,
         UNCHANGED <<present, hidden, engaged, evading, handedOff>>
  PROVE  CombatIInv'
<1>1. Base(m, <<>>) /\ Steady(m, <<>>) /\ CoverOK(m, <<>>, present)
  BY ReadyIs
<1> DEFINE f == Loop(p, vs)
<1>2. f \in Frame /\ f.at = "loop"
  BY NewFrames
<1>3. stack' = <<f>> \o <<>>
  OBVIOUS
<1> HIDE DEF f
<1>4. FrameIsDue(m, f)
  BY <1>2 DEF FrameIsDue
<1>5. Base(m, <<f>> \o <<>>)
  BY <1>1, <1>2, BasePush
<1>6. Steady(m, <<f>> \o <<>>) /\ CoverOK(m, <<f>> \o <<>>, present)
  BY <1>1, <1>2, <1>4, NoStack, SteadyPush, CoverPush
<1> QED BY <1>3, <1>5, <1>6, CallStep

LEMMA UpdatePvPStep ==
  ASSUME CombatIInv, NEW p \in Players, UpdatePvP(p)
  PROVE  CombatIInv'
<1>1. PICK v \in Players : Ready /\ stack' = <<Loop(p, {v})>>
  BY DEF UpdatePvP, Call
<1>2. m' = m /\ UNCHANGED <<present, hidden, engaged, evading, handedOff>>
  BY DEF UpdatePvP
<1>3. {v} \in SUBSET Units
  BY DEF Units
<1> QED BY <1>1, <1>2, <1>3, LoopStarts

LEMMA EndCombatBeyondRangeStep ==
  ASSUME CombatIInv, NEW p \in Players, EndCombatBeyondRange(p)
  PROVE  CombatIInv'
<1>1. PICK far \in SUBSET {v \in Units : <<p, v>> \in m.listed} : Ready /\ stack' = <<Loop(p, far)>>
  BY DEF EndCombatBeyondRange, Call
<1>2. m' = m /\ UNCHANGED <<present, hidden, engaged, evading, handedOff>>
  BY DEF EndCombatBeyondRange
<1>3. far \in SUBSET Units
  OBVIOUS
<1> QED BY <1>1, <1>2, <1>3, LoopStarts

LEMMA RemovePlayerFromMapStep ==
  ASSUME CombatIInv, NEW p \in Mortals \cap Players, RemovePlayerFromMap(p)
  PROVE  CombatIInv'
<1>1. /\ Ready /\ stack' = CombatStop(p, TRUE) \o <<Gone(p)>> /\ m' = m
      /\ UNCHANGED <<present, hidden, engaged, evading, handedOff>>
  BY DEF RemovePlayerFromMap, Call
<1>2. Base(m, <<>>) /\ Steady(m, <<>>) /\ CoverOK(m, <<>>, present)
  BY <1>1, ReadyIs
<1>3. p \in Units /\ p \in Players
  BY DEF Units
<1> DEFINE e == Gone(p)
           h == PvP(p, TRUE)
           g == ClearAll(p)
           s == <<e>> \o <<>>
           q == <<h>> \o s
           r == <<g>> \o q
           t == CombatStop(p, TRUE) \o s
<1>4. e \in Frame /\ e.at = "gone" /\ e.who = p
  BY <1>3, NewFrames
<1>5. h \in Frame /\ h.at = "pvp"
  BY <1>3, NewPvPFrame
<1>6. g \in Frame /\ g.at = "clearAll" /\ g.who = p
  BY <1>3, NewFrames
<1>7. stack' = t
  <2>1. <<Gone(p)>> = s
    BY <1>4
  <2> QED BY <1>1, <2>1
<1>8. Base(m, s) /\ s \in Seq(Frame) /\ Len(s) = 1 /\ s[1] = e /\ Frames(s) = {e}
  <2> HIDE DEF e
  <2>1. Base(m, s)
    BY <1>2, <1>4, BasePush
  <2>2. s \in Seq(Frame) /\ Len(s) = Len(<<>>) + 1 /\ s[1] = e /\ Frames(s) = {e} \cup Frames(<<>>)
    BY <1>4, NoStack, PushFacts
  <2>3. Len(<<>>) = 0
    OBVIOUS
  <2> HIDE DEF s
  <2> QED BY <2>1, <2>2, <2>3, NoStack
<1>9. /\ Base(m, t) /\ (Quiet(s) => Quiet(r))
      /\ g \in Frames(t) /\ h \in Frames(t)
      /\ \A x \in Frames(t) : x \in Frames(s) \/ x.at # "gone"
      /\ Steady(m, r) /\ Quiet(r) /\ (GoneEnd(r) => Collecting(r)) => Steady(m, t)
  <2> HIDE DEF s
  <2> QED BY <1>3, <1>8, StopStep
<1>10. CoverOK(m, t, present)
  <2>1. \A x \in Units : Goes(t, x, present) => x = p \/ x \notin present
    BY <1>4, <1>8, <1>9 DEF Goes
  <2> HIDE DEF t
  <2> QED BY <1>2, <1>3, <1>9, <2>1, StopCovers DEF g, h
<1> HIDE DEF e, g, h, t
<1>11. FrameIsDue(m, e) /\ FrameIsDue(m, g) /\ FrameIsDue(m, h)
  BY <1>4, <1>5, <1>6 DEF FrameIsDue
<1>12. Steady(m, s)
  BY <1>2, <1>4, <1>11, NoStack, SteadyPush
<1>13. Quiet(s)
  BY <1>4, <1>8 DEF Quiet
<1> HIDE DEF s
<1>14. Steady(m, q)
  BY <1>4, <1>5, <1>8, <1>11, <1>12, <1>13, SteadyPush
<1>15. /\ q \in Seq(Frame) /\ Len(q) = 2 /\ q[1] = h /\ q[2] = e /\ Frames(q) = {h} \cup Frames(s)
  <2>1. /\ q \in Seq(Frame) /\ Len(q) = Len(s) + 1 /\ q[1] = h
        /\ \A i \in 1 .. Len(s) : q[i + 1] = s[i]
        /\ Frames(q) = {h} \cup Frames(s)
    BY <1>5, <1>8, PushFacts
  <2>2. 1 \in 1 .. Len(s) /\ 1 + 1 = 2
    BY <1>8
  <2> HIDE DEF q
  <2>3. q[2] = s[1]
    BY <2>1, <2>2
  <2> QED BY <1>8, <2>1, <2>3
<1>16. Quiet(q)
  BY <1>5, <1>13, <1>15 DEF Quiet
<1> HIDE DEF q
<1>17. /\ r \in Seq(Frame) /\ Len(r) = 3 /\ r[1] = g /\ r[2] = h /\ r[3] = e
       /\ Frames(r) = {g} \cup Frames(q)
  <2>1. /\ r \in Seq(Frame) /\ Len(r) = Len(q) + 1 /\ r[1] = g
        /\ \A i \in 1 .. Len(q) : r[i + 1] = q[i]
        /\ Frames(r) = {g} \cup Frames(q)
    BY <1>6, <1>15, PushFacts
  <2>2. 1 \in 1 .. Len(q) /\ 2 \in 1 .. Len(q) /\ 1 + 1 = 2 /\ 2 + 1 = 3
    BY <1>15
  <2> HIDE DEF r
  <2>3. r[2] = q[1] /\ r[3] = q[2]
    BY <2>1, <2>2
  <2> QED BY <1>15, <2>1, <2>3
<1>18. ShapeOK(r) /\ DueOK(m, r)
  <2>1. ShapeOK(r)
    BY <1>6, <1>14, <1>15, <1>16, PushShape DEF Steady
  <2>2. DueOK(m, r)
    BY <1>11, <1>14, <1>17 DEF DueOK, Steady
  <2> QED BY <2>1, <2>2
<1> HIDE DEF r
<1>19. Collecting(r)
  <2>1. 3 - 1 = 2 /\ 3 - 2 = 1
    OBVIOUS
  <2> QED BY <1>4, <1>5, <1>6, <1>17, <2>1 DEF Collecting
<1>20. Steady(m, r)
  BY <1>14, <1>18, <1>19 DEF Steady, GoneOK
<1>21. Steady(m, t)
  BY <1>9, <1>13, <1>19, <1>20
<1> QED BY <1>1, <1>7, <1>9, <1>10, <1>21, CallStep

LEMMA CombatInitially ==
  CombatInit => CombatIInv
<1> SUFFICES ASSUME CombatInit PROVE CombatIInv
  OBVIOUS
<1>1. stack = <<>> /\ present = Units /\ hidden = {} /\ engaged = {} /\ evading = {}
  BY DEF CombatInit
<1>2. handedOff = FALSE
  BY DEF CombatInit
<1>3. m.objs = {} /\ m.listed = {} /\ m.suppressed = {} /\ m.inCombat = {} /\ m.threat = {}
      /\ m.online = {} /\ m.victim = [c \in Creatures |-> None]
  BY DEF CombatInit
<1>4. m.ok = TRUE
  BY DEF CombatInit
<1>5. m \in Managers
  BY DEF CombatInit, Managers
<1>6. ThreatOK(m)
  BY <1>3 DEF ThreatOK
<1>7. \A u : ~HasCombat(m, u)
  BY <1>3 DEF HasCombat
<1>8. RefsOK(m, Ending(stack))
  BY <1>3, <1>7 DEF RefsOK
<1>9. Base(m, stack)
  BY <1>1, <1>5, <1>6, <1>8, NoStack DEF Base
<1>10. Steady(m, stack)
  BY <1>1, <1>3, <1>4, EmptyStack DEF Steady, DueOK
<1>11. CoverOK(m, stack, present)
  BY <1>3 DEF CoverOK
<1>12. handedOff \in BOOLEAN
  BY <1>2
<1> QED BY <1>1, <1>9, <1>10, <1>11, <1>12, IInvIs

LEMMA CombatInductive ==
  CombatIInv /\ [CombatNext]_combatVars => CombatIInv'
<1> SUFFICES ASSUME CombatIInv, [CombatNext]_combatVars PROVE CombatIInv'
  OBVIOUS
<1>1. CASE Calls
  <2>1. CASE ProcessAIUpdates \/ ScriptEngages \/ ScriptEvades \/ ScriptReturns
    BY <2>1, ProcessAIUpdatesStep, ScriptEngagesStep, ScriptEvadesStep, ScriptReturnsStep
  <2>2. CASE RemoveMeFromThreatLists \/ EndAllPvECombat \/ EndAllPvPCombat \/ SuppressAllPvPCombat
    BY <2>2, RemoveMeFromThreatListsStep, EndAllPvECombatStep, EndAllPvPCombatStep,
       SuppressAllPvPCombatStep
  <2>3. CASE EndNext \/ EndCombat \/ LoopStep \/ GoesHome \/ RemovedFromWorld
    BY <2>3, EndNextStep, EndCombatStep, LoopStepStep, GoesHomeStep, RemovedFromWorldStep
  <2> QED BY <1>1, <2>1, <2>2, <2>3 DEF Calls
<1>2. ASSUME NEW u \in Units, NEW v \in Units, EngageWithTarget(u, v) PROVE CombatIInv'
  BY <1>2, EngageWithTargetStep
<1>3. ASSUME NEW s \in Missiles, LaunchMissile(s[1], s[2]) PROVE CombatIInv'
  BY <1>3, LaunchMissileStep
<1>4. ASSUME NEW c \in Creatures, ThreatUpdate(c) \/ Evade(c) \/ JustReachedHome(c) PROVE CombatIInv'
  BY <1>4, ThreatUpdateStep, EvadeStep, JustReachedHomeStep
<1>5. ASSUME NEW p \in MayHide, ChangeVisibility(p) PROVE CombatIInv'
  BY <1>5, ChangeVisibilityStep
<1>6. ASSUME NEW u \in Mortals, Dies(u) PROVE CombatIInv'
  BY <1>6, DiesStep
<1>7. ASSUME NEW p \in Players, Vanish(p) \/ Returns(p) \/ UpdatePvP(p) \/ EndCombatBeyondRange(p)
      PROVE  CombatIInv'
  BY <1>7, VanishStep, ReturnsStep, UpdatePvPStep, EndCombatBeyondRangeStep
<1>8. ASSUME NEW p \in Mortals \cap Players, RemovePlayerFromMap(p) PROVE CombatIInv'
  BY <1>8, RemovePlayerFromMapStep
<1>9. CASE Stops \/ UNCHANGED combatVars
  <2>1. UNCHANGED combatVars
    BY <1>9 DEF Stops
  <2> QED BY <2>1 DEF combatVars, CombatIInv, CombatTypeOK
<1> QED BY <1>1, <1>2, <1>3, <1>4, <1>5, <1>6, <1>7, <1>8, <1>9 DEF CombatNext

LEMMA CombatInvariant ==
  CombatSpec => []CombatIInv
BY CombatInitially, CombatInductive, PTL DEF CombatSpec

-----------------------------------------------------------------------------
(* The managers and the call stack of the map update stay well formed: every *)
(* victim is on the threat list it was chosen from, and only entries of that *)
(* list are available.                                                       *)
THEOREM CombatTypeCorrect == CombatSpec => []CombatTypeOK
<1>1. CombatIInv => CombatTypeOK
  BY DEF CombatIInv
<1> QED BY <1>1, CombatInvariant, PTL

(* UNIT_FLAG_IN_COMBAT agrees with the references whenever no call is in     *)
(* progress, and both managers have every reference: UpdateOwnerCombatState  *)
(* is never missed, not even after a script interfered with an end.          *)
THEOREM CombatFlagsAreRight == CombatSpec => []InCombatIffReferenced
<1>1. CombatIInv => InCombatIffReferenced
  <2> SUFFICES ASSUME CombatIInv, AtRest
               PROVE  /\ m.inCombat = {u \in Units : HasCombat(m, u)}
                      /\ m.listed = UNION {Both(o[1], o[2]) : o \in m.objs}
                      /\ \A o \in m.objs : <<o[2], o[1]>> \notin m.objs
    BY DEF InCombatIffReferenced
  <2>1. Base(m, stack)
    BY IInvIs
  <2>2. m \in Managers /\ m.ok \in BOOLEAN /\ stack = <<>>
    BY <2>1 DEF Base, Managers, AtRest
  <2>3. m.ok = TRUE
    BY <2>2 DEF AtRest
  <2>4. RefsOK(m, {})
    BY <2>1, <2>2, <2>3, NoStack DEF Base
  <2>5. m.inCombat = {u \in Units : HasCombat(m, u)}
    BY <2>2, <2>4 DEF RefsOK, Managers
  <2>6. m.listed \subseteq UNION {Both(o[1], o[2]) : o \in m.objs}
    <3> SUFFICES ASSUME NEW r \in m.listed PROVE \E o \in m.objs : r \in Both(o[1], o[2])
      OBVIOUS
    <3>1. r = <<r[1], r[2]>>
      BY <2>2, PairIs DEF Managers
    <3>2. r \in m.objs \/ <<r[2], r[1]>> \in m.objs
      BY <2>4 DEF RefsOK
    <3> QED BY <3>1, <3>2 DEF Both
  <2>7. ASSUME NEW o \in m.objs PROVE Both(o[1], o[2]) \subseteq m.listed
    <3>1. o = <<o[1], o[2]>>
      BY <2>2, PairIs DEF Managers
    <3>2. o \in m.listed /\ <<o[2], o[1]>> \in m.listed
      BY <2>4 DEF RefsOK
    <3> QED BY <3>1, <3>2 DEF Both
  <2>8. \A o \in m.objs : <<o[2], o[1]>> \notin m.objs
    BY <2>4 DEF RefsOK
  <2>9. UNION {Both(o[1], o[2]) : o \in m.objs} \subseteq m.listed
    BY <2>7
  <2> QED BY <2>5, <2>6, <2>8, <2>9
<1> QED BY <1>1, CombatInvariant, PTL

(* A creature has threat only of units it is in combat with: EndCombat and   *)
(* RemoveMeFromThreatLists clear the threat of whatever combat ends.         *)
THEOREM ThreatNeedsCombat == CombatSpec => []ThreatImpliesCombat
<1>1. CombatIInv => ThreatImpliesCombat
  <2> SUFFICES ASSUME CombatIInv, ~handedOff PROVE m.threat \subseteq m.listed
    BY DEF ThreatImpliesCombat
  <2>1. handedOff = FALSE
    BY IInvIs
  <2> QED BY <2>1, CalmIs DEF Steady
<1> QED BY <1>1, CombatInvariant, PTL

(* No call uses a reference or a threat entry that was freed meanwhile, and  *)
(* PutReference never finds an entry, unless a script was called while a     *)
(* combat ended.                                                             *)
THEOREM ReferencesNeverDangle == CombatSpec => []NoDanglingReference
<1>1. CombatIInv => NoDanglingReference
  <2> SUFFICES ASSUME CombatIInv, ~handedOff PROVE m.ok
    BY DEF NoDanglingReference
  <2>1. handedOff = FALSE
    BY IInvIs
  <2>2. m.ok = TRUE
    BY <2>1, CalmIs DEF Steady
  <2> QED BY <2>2
<1> QED BY <1>1, CombatInvariant, PTL

(* Whoever dies or leaves the map is in nobody's combat or threat list once  *)
(* its CombatStop has returned, whatever scripts engaged on the way.         *)
THEOREM AbsentAreForgotten == CombatSpec => []AbsentUnitsAreForgotten
<1>1. CombatIInv => AbsentUnitsAreForgotten
  <2> SUFFICES ASSUME CombatIInv, AtRest, ~handedOff, NEW r \in m.listed \cup m.threat
               PROVE  r[1] \in present /\ r[2] \in present
    BY DEF AbsentUnitsAreForgotten
  <2>1. Ready
    BY DEF Ready
  <2>2. m \in Managers /\ Base(m, <<>>) /\ Steady(m, <<>>) /\ CoverOK(m, <<>>, present)
    BY <2>1, ReadyIs
  <2>3. m.ok = TRUE
    BY <2>1, ReadyIs
  <2>4. RefsOK(m, {})
    BY <2>2, <2>3, NoStack DEF Base
  <2>5. r \in m.listed
    BY <2>2 DEF Steady
  <2>6. r[1] \in Units /\ r[2] \in Units
    BY <2>2, <2>5, PairIs DEF Managers
  <2>7. PICK o \in m.objs : /\ r[1] = o[1] \/ r[1] = o[2]
                            /\ r[2] = o[1] \/ r[2] = o[2]
    BY <2>4, <2>5 DEF RefsOK
  <2>8. ~Goes(<<>>, r[1], present) /\ ~Goes(<<>>, r[2], present)
    BY <2>2, <2>6, <2>7, NoStack DEF CoverOK
  <2> QED BY <2>8 DEF Goes
<1> QED BY <1>1, CombatInvariant, PTL
=============================================================================

--------------------------- MODULE CardZones_proofs ---------------------------
(***************************************************************************)
(* Theorems about CardZones, for any cards, areas and bounds.              *)
(*                                                                         *)
(* A handler takes cards out of one place and puts them into another, so   *)
(* in the middle of it some cards are nowhere.  Whole(t, L) says that on   *)
(* the table t the cards of L are nowhere and every other card is in one   *)
(* place.  A lemma about each helper says how it changes L; every action   *)
(* is then a chain of helpers that starts and ends with no card in L.      *)
(*                                                                         *)
(* Keeps(t, u) says what a step from t to u leaves of the records about    *)
(* the stage; with it the history of readied members is shown to be that   *)
(* of the present stays.                                                   *)
(***************************************************************************)
EXTENDS CardZones, FiniteSetTheorems, TLAPS

Out(t, c) ==
    /\ \A z \in Zone : c \notin t.zone[z]
    /\ \A s \in Slot : t.area[s] # c /\ c \notin t.under[s]

Whole(t, L) ==
    /\ t \in Table
    /\ L \subseteq Card
    /\ \A c \in Card : IF c \in L THEN Out(t, c) ELSE Once(t, c)

(* The records about the stage are untouched. *)
SameStage(t, u) ==
    /\ u.area = t.area /\ u.under = t.under /\ u.mods = t.mods
    /\ u.object = t.object /\ u.next = t.next /\ u.events = t.events

(* A member that leaves loses its records, any other member keeps its       *)
(* object, and a top member that stays is still a top member.               *)
Keeps(t, u) ==
    /\ u.next = t.next /\ u.events = t.events
    /\ \A c \in Member :
          IF c \in Staged(t) \ Staged(u)
          THEN c \notin u.mods /\ u.object[c] = NoToken
          ELSE u.object[c] = t.object[c] /\ (c \in Tops(t) => c \in Tops(u))

Sound(t) == \A s \in Slot : t.area[s] = Nothing => t.under[s] = {}

(* What the steps of a handler make of the table, all in all. *)
Good(t, u) == Whole(u, {}) /\ Sound(u) /\ Keeps(t, u)

(* Card c or an area is on the stage. *)
On(t, c) == \E s \in Slot : t.area[s] = c \/ c \in t.under[s]
OnTop(t, c) == \E s \in Slot : t.area[s] = c

(* Nobody comes to the stage; or nobody but c, and only the top of s changes. *)
Stays(t, u) == \A d \in Member : On(u, d) => On(t, d)
Comes(t, u, c, s) ==
    /\ \A d \in Member : On(u, d) => On(t, d) \/ d = c
    /\ \A r \in Slot : u.area[r] # t.area[r] => r = s

GoodCalm(t, u) == Good(t, u) /\ Stays(t, u)
GoodEntry(t, u, c, s) == Good(t, u) /\ Comes(t, u, c, s)

(* A member with an object was readied in its present stay; it is a top     *)
(* member, and its event is recorded.  Tokens are issued once.              *)
Objects(t, R) ==
    /\ R \subseteq Tops(t)
    /\ \A c \in Member : t.object[c] # NoToken <=> c \in R
    /\ \A c \in R : <<c, t.object[c]>> \in t.events
    /\ \A c \in Member, k \in Nat : <<c, k>> \in t.events => 0 < k /\ k <= t.next

IInv ==
    /\ TypeOK
    /\ Whole(table, {})
    /\ Sound(table)
    /\ Objects(table, readied)

-----------------------------------------------------------------------------
(* Fields of the tables the helpers build.                                  *)

LEMMA PutFields ==
    ASSUME NEW t \in Table, NEW z \in Zone, NEW C \in SUBSET Card
    PROVE  /\ Put(t, z, C) \in Table
           /\ Put(t, z, C).zone = [t.zone EXCEPT ![z] = @ \cup C]
           /\ SameStage(t, Put(t, z, C))
BY DEF Put, Table, SameStage

LEMMA TakeFields ==
    ASSUME NEW t \in Table, NEW z \in Zone, NEW C \in SUBSET Card
    PROVE  /\ Take(t, z, C) \in Table
           /\ Take(t, z, C).zone = [t.zone EXCEPT ![z] = @ \ C]
           /\ SameStage(t, Take(t, z, C))
BY DEF Take, Table, SameStage

LEMMA ClearFields ==
    ASSUME NEW t \in Table, NEW C
    PROVE  /\ ClearDeparted(t, C) \in Table
           /\ ClearDeparted(t, C).zone = t.zone
           /\ ClearDeparted(t, C).area = t.area
           /\ ClearDeparted(t, C).under = t.under
           /\ ClearDeparted(t, C).mods = t.mods \ C
           /\ ClearDeparted(t, C).object = Forget(t.object, C)
           /\ ClearDeparted(t, C).next = t.next
           /\ ClearDeparted(t, C).events = t.events
BY DEF ClearDeparted, Forget, Table, NoToken

LEMMA TakeWhole ==
    ASSUME NEW t, NEW L, Whole(t, L), NEW z \in Zone, NEW C \in SUBSET t.zone[z]
    PROVE  Whole(Take(t, z, C), L \cup C)
<1>1. t \in Table /\ L \subseteq Card /\ C \in SUBSET Card
    BY DEF Whole, Table
<1> DEFINE u == Take(t, z, C)
<1>2. /\ u \in Table /\ u.zone = [t.zone EXCEPT ![z] = @ \ C]
      /\ u.area = t.area /\ u.under = t.under
    BY <1>1, TakeFields DEF SameStage
<1> HIDE DEF u
<1>3. ASSUME NEW c \in Card PROVE IF c \in L \cup C THEN Out(u, c) ELSE Once(u, c)
    <2>1. /\ \A y \in Zone : c \in u.zone[y] <=> c \in t.zone[y] /\ ~(y = z /\ c \in C)
          /\ c \in C => c \in t.zone[z]
          /\ IF c \in L THEN Out(t, c) ELSE Once(t, c)
        BY <1>1, <1>2 DEF Whole, Table
    <2> QED BY <2>1, <1>2 DEF Out, Once
<1> QED BY <1>1, <1>2, <1>3 DEF Whole, u

LEMMA PutWhole ==
    ASSUME NEW t, NEW L, Whole(t, L), NEW z \in Zone, NEW C \in SUBSET L
    PROVE  Whole(Put(t, z, C), L \ C)
<1>1. t \in Table /\ L \subseteq Card /\ C \in SUBSET Card
    BY DEF Whole
<1> DEFINE u == Put(t, z, C)
<1>2. /\ u \in Table /\ u.zone = [t.zone EXCEPT ![z] = @ \cup C]
      /\ u.area = t.area /\ u.under = t.under
    BY <1>1, PutFields DEF SameStage
<1> HIDE DEF u
<1>3. ASSUME NEW c \in Card PROVE IF c \in L \ C THEN Out(u, c) ELSE Once(u, c)
    <2>1. /\ \A y \in Zone : c \in u.zone[y] <=> c \in t.zone[y] \/ (y = z /\ c \in C)
          /\ IF c \in L THEN Out(t, c) ELSE Once(t, c)
        BY <1>1, <1>2 DEF Whole, Table
    <2> QED BY <2>1, <1>2 DEF Out, Once
<1> QED BY <1>1, <1>2, <1>3 DEF Whole, u

LEMMA ClearWhole ==
    ASSUME NEW t, NEW L, Whole(t, L), NEW C
    PROVE  Whole(ClearDeparted(t, C), L)
<1>1. t \in Table
    BY DEF Whole
<1> QED BY <1>1, ClearFields DEF Whole, Out, Once

(* Every change of the stage itself is of this form. *)
Restage(t, a, n) == [t EXCEPT !.area = a, !.under = n]

LEMMA RestageFields ==
    ASSUME NEW t \in Table, NEW a \in [Slot -> Member \cup {Nothing}],
           NEW n \in [Slot -> SUBSET Card]
    PROVE  /\ Restage(t, a, n) \in Table
           /\ Restage(t, a, n).zone = t.zone
           /\ Restage(t, a, n).area = a
           /\ Restage(t, a, n).under = n
           /\ Restage(t, a, n).mods = t.mods
           /\ Restage(t, a, n).object = t.object
           /\ Restage(t, a, n).next = t.next
           /\ Restage(t, a, n).events = t.events
BY DEF Restage, Table

(* A member that is nowhere takes an area; its occupant, if any, is nowhere *)
(* then.                                                                    *)
LEMMA EnterWhole ==
    ASSUME NEW t, NEW L, Whole(t, L), NEW s \in Slot, NEW c \in L \cap Member
    PROVE  /\ [t EXCEPT !.area[s] = c] = Restage(t, [t.area EXCEPT ![s] = c], t.under)
           /\ Whole([t EXCEPT !.area[s] = c],
                    (L \ {c}) \cup ({t.area[s]} \ {Nothing}))
<1>1. t \in Table /\ L \subseteq Card /\ Nothing \notin Card /\ Member \subseteq Card
    BY CardAssumption DEF Whole, Card
<1>2. [t EXCEPT !.area[s] = c] = Restage(t, [t.area EXCEPT ![s] = c], t.under)
    BY <1>1 DEF Restage, Table
<1> DEFINE u == Restage(t, [t.area EXCEPT ![s] = c], t.under)
           M == (L \ {c}) \cup ({t.area[s]} \ {Nothing})
<1>3. /\ u \in Table /\ u.zone = t.zone /\ u.area = [t.area EXCEPT ![s] = c]
      /\ u.under = t.under
    <2>1. [t.area EXCEPT ![s] = c] \in [Slot -> Member \cup {Nothing}]
          /\ t.under \in [Slot -> SUBSET Card]
        BY <1>1 DEF Table
    <2> QED BY <1>1, <2>1, RestageFields
<1> HIDE DEF u
<1>4. \A r \in Slot : u.area[r] = IF r = s THEN c ELSE t.area[r]
    BY <1>1, <1>3 DEF Table
<1>5. ASSUME NEW d \in Card PROVE IF d \in M THEN Out(u, d) ELSE Once(u, d)
    <2>1. IF d \in L THEN Out(t, d) ELSE Once(t, d)
        BY DEF Whole
    <2>2. c \in L /\ c \in Card /\ Out(t, c)
        BY <1>1 DEF Whole
    <2>3. CASE d = c
        BY <2>2, <2>3, <1>3, <1>4 DEF Out, Once
    <2>4. CASE d # c /\ d = t.area[s]
        BY <2>1, <2>2, <2>4, <1>1, <1>3, <1>4 DEF Out, Once
    <2>5. CASE d # c /\ d # t.area[s]
        BY <2>1, <2>2, <2>5, <1>1, <1>3, <1>4 DEF Out, Once
    <2> QED BY <2>3, <2>4, <2>5
<1>6. M \subseteq Card
    BY <1>1 DEF Table
<1> QED BY <1>2, <1>3, <1>5, <1>6 DEF Whole, u

(* The top member of an area is taken from it. *)
LEMMA LeaveWhole ==
    ASSUME NEW t, NEW L, Whole(t, L), NEW s \in Slot, t.area[s] # Nothing
    PROVE  /\ [t EXCEPT !.area[s] = Nothing]
                = Restage(t, [t.area EXCEPT ![s] = Nothing], t.under)
           /\ Whole([t EXCEPT !.area[s] = Nothing], L \cup {t.area[s]})
<1>1. t \in Table /\ L \subseteq Card /\ Nothing \notin Card /\ t.area[s] \in Card
    BY CardAssumption DEF Whole, Card, Table
<1>2. [t EXCEPT !.area[s] = Nothing] = Restage(t, [t.area EXCEPT ![s] = Nothing], t.under)
    BY <1>1 DEF Restage, Table
<1> DEFINE u == Restage(t, [t.area EXCEPT ![s] = Nothing], t.under)
<1>3. /\ u \in Table /\ u.zone = t.zone /\ u.area = [t.area EXCEPT ![s] = Nothing]
      /\ u.under = t.under
    <2>1. [t.area EXCEPT ![s] = Nothing] \in [Slot -> Member \cup {Nothing}]
          /\ t.under \in [Slot -> SUBSET Card]
        BY <1>1 DEF Table
    <2> QED BY <1>1, <2>1, RestageFields
<1> HIDE DEF u
<1>4. \A r \in Slot : u.area[r] = IF r = s THEN Nothing ELSE t.area[r]
    BY <1>1, <1>3 DEF Table
<1>5. ASSUME NEW d \in Card
      PROVE  IF d \in L \cup {t.area[s]} THEN Out(u, d) ELSE Once(u, d)
    <2>1. IF d \in L THEN Out(t, d) ELSE Once(t, d)
        BY DEF Whole
    <2>2. d # Nothing
        BY <1>1
    <2> QED BY <2>1, <2>2, <1>3, <1>4 DEF Out, Once
<1> QED BY <1>1, <1>2, <1>3, <1>5 DEF Whole, u

(* Cards that are nowhere are attached in an area. *)
LEMMA AttachWhole ==
    ASSUME NEW t, NEW L, Whole(t, L), NEW s \in Slot, NEW C \in SUBSET L
    PROVE  /\ [t EXCEPT !.under[s] = @ \cup C]
                = Restage(t, t.area, [t.under EXCEPT ![s] = @ \cup C])
           /\ Whole([t EXCEPT !.under[s] = @ \cup C], L \ C)
<1>1. t \in Table /\ L \subseteq Card /\ C \subseteq Card
    BY DEF Whole
<1>2. [t EXCEPT !.under[s] = @ \cup C] = Restage(t, t.area, [t.under EXCEPT ![s] = @ \cup C])
    BY <1>1 DEF Restage, Table
<1> DEFINE u == Restage(t, t.area, [t.under EXCEPT ![s] = @ \cup C])
<1>3. /\ u \in Table /\ u.zone = t.zone /\ u.area = t.area
      /\ u.under = [t.under EXCEPT ![s] = @ \cup C]
    <2>1. [t.under EXCEPT ![s] = @ \cup C] \in [Slot -> SUBSET Card]
          /\ t.area \in [Slot -> Member \cup {Nothing}]
        BY <1>1 DEF Table
    <2> QED BY <1>1, <2>1, RestageFields
<1> HIDE DEF u
<1>4. ASSUME NEW d \in Card PROVE IF d \in L \ C THEN Out(u, d) ELSE Once(u, d)
    <2>1. /\ IF d \in L THEN Out(t, d) ELSE Once(t, d)
          /\ \A r \in Slot : d \in u.under[r] <=> d \in t.under[r] \/ (r = s /\ d \in C)
        BY <1>1, <1>3 DEF Whole, Table
    <2> QED BY <2>1, <1>3 DEF Out, Once
<1>5. L \ C \subseteq Card
    BY <1>1
<1> QED BY <1>2, <1>3, <1>4, <1>5 DEF Whole, u

(* Attached cards are taken from under a member. *)
LEMMA DetachWhole ==
    ASSUME NEW t, NEW L, Whole(t, L), NEW s \in Slot, NEW C \in SUBSET t.under[s]
    PROVE  /\ [t EXCEPT !.under[s] = @ \ C]
                = Restage(t, t.area, [t.under EXCEPT ![s] = @ \ C])
           /\ Whole([t EXCEPT !.under[s] = @ \ C], L \cup C)
<1>1. t \in Table /\ L \subseteq Card /\ C \subseteq Card
    BY DEF Whole, Table
<1>2. [t EXCEPT !.under[s] = @ \ C] = Restage(t, t.area, [t.under EXCEPT ![s] = @ \ C])
    BY <1>1 DEF Restage, Table
<1> DEFINE u == Restage(t, t.area, [t.under EXCEPT ![s] = @ \ C])
<1>3. /\ u \in Table /\ u.zone = t.zone /\ u.area = t.area
      /\ u.under = [t.under EXCEPT ![s] = @ \ C]
    <2>1. [t.under EXCEPT ![s] = @ \ C] \in [Slot -> SUBSET Card]
          /\ t.area \in [Slot -> Member \cup {Nothing}]
        BY <1>1 DEF Table
    <2> QED BY <1>1, <2>1, RestageFields
<1> HIDE DEF u
<1>4. ASSUME NEW d \in Card PROVE IF d \in L \cup C THEN Out(u, d) ELSE Once(u, d)
    <2>1. /\ IF d \in L THEN Out(t, d) ELSE Once(t, d)
          /\ \A r \in Slot : d \in u.under[r] <=> d \in t.under[r] /\ ~(r = s /\ d \in C)
          /\ d \in C => d \in t.under[s]
        BY <1>1, <1>3 DEF Whole, Table
    <2> QED BY <2>1, <1>3 DEF Out, Once
<1> QED BY <1>1, <1>2, <1>3, <1>4 DEF Whole, u

LEMMA CleanWhole ==
    ASSUME NEW t, NEW L, Whole(t, L), NEW s \in Slot
    PROVE  Whole(CleanAttachments(t, s), L)
<1> DEFINE C == t.under[s]
           t1 == [t EXCEPT !.under[s] = @ \ C]
           t2 == Put(t1, "waiting_room", C \cap Member)
           t3 == Put(t2, "energy_deck", C \cap Energy)
<1>1. t \in Table /\ L \subseteq Card /\ C \subseteq Card /\ C \cap L = {}
    BY DEF Whole, Table, Out
<1>2. Whole(t1, L \cup C)
    BY DetachWhole
<1> HIDE DEF C, t1
<1>3. Whole(t2, (L \cup C) \ (C \cap Member))
    BY <1>2, PutWhole DEF Zone
<1> HIDE DEF t2
<1>4. Whole(t3, ((L \cup C) \ (C \cap Member)) \ (C \cap Energy))
    <2>1. C \cap Energy \subseteq (L \cup C) \ (C \cap Member)
        BY CardAssumption
    <2> QED BY <1>3, <2>1, PutWhole DEF Zone
<1> HIDE DEF t3
<1>5. ((L \cup C) \ (C \cap Member)) \ (C \cap Energy) = L
    BY <1>1 DEF Card
<1>6. Whole(ClearDeparted(t3, C), L)
    BY <1>4, <1>5, ClearWhole
<1> QED BY <1>6 DEF CleanAttachments, C, t1, t2, t3

(* What a cleaning leaves of the stage. *)
LEMMA CleanFields ==
    ASSUME NEW t \in Table, NEW s \in Slot
    PROVE  /\ CleanAttachments(t, s) \in Table
           /\ CleanAttachments(t, s).area = t.area
           /\ CleanAttachments(t, s).under = [t.under EXCEPT ![s] = {}]
           /\ CleanAttachments(t, s).mods = t.mods \ t.under[s]
           /\ CleanAttachments(t, s).object = Forget(t.object, t.under[s])
           /\ CleanAttachments(t, s).next = t.next
           /\ CleanAttachments(t, s).events = t.events
<1> DEFINE C == t.under[s]
           t1 == [t EXCEPT !.under[s] = @ \ C]
           t2 == Put(t1, "waiting_room", C \cap Member)
           t3 == Put(t2, "energy_deck", C \cap Energy)
<1>1. C \in SUBSET Card /\ C \cap Member \in SUBSET Card /\ C \cap Energy \in SUBSET Card
    BY DEF Table
<1>2. /\ t1 = Restage(t, t.area, [t.under EXCEPT ![s] = {}])
      /\ t.area \in [Slot -> Member \cup {Nothing}]
      /\ [t.under EXCEPT ![s] = {}] \in [Slot -> SUBSET Card]
    <2>1. C \ C = {}
        OBVIOUS
    <2> QED BY <2>1 DEF Table, Restage
<1> HIDE DEF C, t1
<1>3. /\ t1 \in Table /\ t1.area = t.area /\ t1.under = [t.under EXCEPT ![s] = {}]
      /\ t1.mods = t.mods /\ t1.object = t.object /\ t1.next = t.next
      /\ t1.events = t.events
    BY <1>2, RestageFields
<1>4. t2 \in Table /\ SameStage(t1, t2)
    BY <1>1, <1>3, PutFields DEF Zone
<1> HIDE DEF t2
<1>5. t3 \in Table /\ SameStage(t2, t3)
    BY <1>1, <1>4, PutFields DEF Zone
<1> HIDE DEF t3
<1>6. /\ ClearDeparted(t3, C) \in Table
      /\ ClearDeparted(t3, C).area = t.area
      /\ ClearDeparted(t3, C).under = [t.under EXCEPT ![s] = {}]
      /\ ClearDeparted(t3, C).mods = t.mods \ C
      /\ ClearDeparted(t3, C).object = Forget(t.object, C)
      /\ ClearDeparted(t3, C).next = t.next
      /\ ClearDeparted(t3, C).events = t.events
    BY <1>3, <1>4, <1>5, ClearFields DEF SameStage
<1> QED BY <1>6 DEF CleanAttachments, C, t1, t2, t3

LEMMA OffStageWhole ==
    ASSUME NEW t, NEW L, Whole(t, L), NEW s \in Slot, t.area[s] # Nothing
    PROVE  /\ Whole(OffStage(t, s), L)
           /\ OffStage(t, s).area = [t.area EXCEPT ![s] = Nothing]
           /\ OffStage(t, s).under = [t.under EXCEPT ![s] = {}]
           /\ OffStage(t, s).mods = t.mods \ (t.under[s] \cup {t.area[s]})
           /\ OffStage(t, s).object = Forget(t.object, t.under[s] \cup {t.area[s]})
           /\ OffStage(t, s).next = t.next
           /\ OffStage(t, s).events = t.events
<1> DEFINE c == t.area[s]
           t1 == CleanAttachments(t, s)
           t2 == [t1 EXCEPT !.area[s] = Nothing]
           t3 == Put(t2, "waiting_room", {c})
           t4 == ClearDeparted(t3, {c})
<1>1. t \in Table /\ L \subseteq Card /\ c \in Card /\ c \notin L
    BY DEF Whole, Table, Out, Card
<1>2. /\ Whole(t1, L) /\ t1 \in Table
      /\ t1.area = t.area /\ t1.under = [t.under EXCEPT ![s] = {}]
      /\ t1.mods = t.mods \ t.under[s] /\ t1.object = Forget(t.object, t.under[s])
      /\ t1.next = t.next /\ t1.events = t.events
    BY <1>1, CleanWhole, CleanFields
<1> HIDE DEF t1
<1>3. /\ t2 = Restage(t1, [t1.area EXCEPT ![s] = Nothing], t1.under)
      /\ Whole(t2, L \cup {c})
    BY <1>2, LeaveWhole
<1>4. /\ t2 \in Table
      /\ t2.area = [t.area EXCEPT ![s] = Nothing] /\ t2.under = [t.under EXCEPT ![s] = {}]
      /\ t2.mods = t.mods \ t.under[s] /\ t2.object = Forget(t.object, t.under[s])
      /\ t2.next = t.next /\ t2.events = t.events
    <2>1. /\ [t1.area EXCEPT ![s] = Nothing] \in [Slot -> Member \cup {Nothing}]
          /\ t1.under \in [Slot -> SUBSET Card]
        BY <1>2 DEF Table
    <2> QED BY <1>2, <1>3, <2>1, RestageFields
<1> HIDE DEF t2
<1>5. /\ Whole(t3, (L \cup {c}) \ {c}) /\ t3 \in Table /\ SameStage(t2, t3)
    <2>1. "waiting_room" \in Zone /\ {c} \in SUBSET Card /\ {c} \in SUBSET (L \cup {c})
        BY <1>1 DEF Zone
    <2>2. Whole(t3, (L \cup {c}) \ {c})
        BY <1>3, <2>1, PutWhole
    <2> QED BY <1>4, <2>1, <2>2, PutFields
<1>6. (L \cup {c}) \ {c} = L
    BY <1>1
<1> HIDE DEF t3
<1>7. /\ Whole(t4, L)
      /\ t4.area = t2.area /\ t4.under = t2.under
      /\ t4.mods = t2.mods \ {c} /\ t4.object = Forget(t2.object, {c})
      /\ t4.next = t.next /\ t4.events = t.events
    <2>1. Whole(t4, L)
        BY <1>5, <1>6, ClearWhole
    <2>2. /\ t4.area = t3.area /\ t4.under = t3.under
          /\ t4.mods = t3.mods \ {c} /\ t4.object = Forget(t3.object, {c})
          /\ t4.next = t3.next /\ t4.events = t3.events
        BY <1>5, ClearFields
    <2> QED BY <2>1, <2>2, <1>4, <1>5 DEF SameStage
<1>8. Forget(Forget(t.object, t.under[s]), {c}) = Forget(t.object, t.under[s] \cup {c})
    BY DEF Forget
<1>9. (t.mods \ t.under[s]) \ {c} = t.mods \ (t.under[s] \cup {c})
    OBVIOUS
<1>10. OffStage(t, s) = t4
    BY DEF OffStage, t1, t2, t3
<1> HIDE DEF t4
<1> QED BY <1>4, <1>7, <1>8, <1>9, <1>10

LEMMA ReplaceWhole ==
    ASSUME NEW t, NEW L, Whole(t, L), NEW s \in Slot, NEW c \in L \cap Member, Sound(t)
    PROVE  /\ Whole(Replace(t, s, c), L \ {c})
           /\ Replace(t, s, c).area = [t.area EXCEPT ![s] = c]
           /\ Replace(t, s, c).under = [t.under EXCEPT ![s] = {}]
           /\ Replace(t, s, c).mods = t.mods \ (t.under[s] \cup ({t.area[s]} \ {Nothing}))
           /\ Replace(t, s, c).object
                 = Forget(t.object, t.under[s] \cup ({t.area[s]} \ {Nothing}))
           /\ Replace(t, s, c).next = t.next
           /\ Replace(t, s, c).events = t.events
<1> DEFINE old == t.area[s]
           t1 == [t EXCEPT !.area[s] = c]
           t2 == CleanAttachments(t1, s)
           t3 == Put(t2, "waiting_room", {old})
           t4 == ClearDeparted(t3, {old})
<1>1. /\ t \in Table /\ L \subseteq Card /\ c \in Card /\ old \notin L
      /\ c # old /\ Nothing \notin Card
    BY CardAssumption DEF Whole, Table, Out, Card
<1>2. /\ t1 = Restage(t, [t.area EXCEPT ![s] = c], t.under)
      /\ Whole(t1, (L \ {c}) \cup ({old} \ {Nothing}))
    BY EnterWhole
<1>3. /\ t1 \in Table
      /\ t1.area = [t.area EXCEPT ![s] = c] /\ t1.under = t.under
      /\ t1.mods = t.mods /\ t1.object = t.object
      /\ t1.next = t.next /\ t1.events = t.events
    <2>1. /\ [t.area EXCEPT ![s] = c] \in [Slot -> Member \cup {Nothing}]
          /\ t.under \in [Slot -> SUBSET Card]
        BY <1>1 DEF Table
    <2> QED BY <1>1, <1>2, <2>1, RestageFields
<1>4. CASE old = Nothing
    <2>1. Replace(t, s, c) = t1
        BY <1>4 DEF Replace
    <2>2. t.under[s] = {}
        BY <1>4 DEF Sound
    <2>3. t.under = [t.under EXCEPT ![s] = {}]
        BY <1>1, <2>2 DEF Table
    <2>4. t.object = Forget(t.object, {})
        BY <1>1 DEF Forget, Table
    <2>5. {old} \ {Nothing} = {} /\ (L \ {c}) \cup {} = L \ {c}
        BY <1>4
    <2> HIDE DEF t1
    <2> QED BY <1>2, <1>3, <2>1, <2>2, <2>3, <2>4, <2>5
<1>5. CASE old # Nothing
    <2> HIDE DEF t1
    <2>1. /\ Whole(t2, (L \ {c}) \cup {old}) /\ t2 \in Table
          /\ t2.area = t1.area /\ t2.under = [t.under EXCEPT ![s] = {}]
          /\ t2.mods = t.mods \ t.under[s] /\ t2.object = Forget(t.object, t.under[s])
          /\ t2.next = t.next /\ t2.events = t.events
        <3>1. {old} \ {Nothing} = {old}
            BY <1>5
        <3>2. Whole(t2, (L \ {c}) \cup {old})
            BY <1>2, <3>1, CleanWhole
        <3>3. /\ t2 \in Table
              /\ t2.area = t1.area /\ t2.under = [t1.under EXCEPT ![s] = {}]
              /\ t2.mods = t1.mods \ t1.under[s] /\ t2.object = Forget(t1.object, t1.under[s])
              /\ t2.next = t1.next /\ t2.events = t1.events
            BY <1>3, CleanFields
        <3> QED BY <1>3, <3>2, <3>3
    <2> HIDE DEF t2
    <2>2. /\ Whole(t3, ((L \ {c}) \cup {old}) \ {old}) /\ t3 \in Table /\ SameStage(t2, t3)
        <3>1. {old} \in SUBSET Card
            BY <1>1, <1>5 DEF Table, Card
        <3> QED BY <2>1, <3>1, PutWhole, PutFields DEF Zone
    <2>3. ((L \ {c}) \cup {old}) \ {old} = L \ {c}
        BY <1>1
    <2> HIDE DEF t3
    <2>4. /\ Whole(t4, L \ {c})
          /\ t4.area = t2.area /\ t4.under = t2.under
          /\ t4.mods = t2.mods \ {old} /\ t4.object = Forget(t2.object, {old})
          /\ t4.next = t.next /\ t4.events = t.events
        <3>1. Whole(t4, L \ {c})
            BY <2>2, <2>3, ClearWhole
        <3>2. /\ t4.area = t3.area /\ t4.under = t3.under
              /\ t4.mods = t3.mods \ {old} /\ t4.object = Forget(t3.object, {old})
              /\ t4.next = t3.next /\ t4.events = t3.events
            BY <2>2, ClearFields
        <3> QED BY <3>1, <3>2, <2>1, <2>2 DEF SameStage
    <2>5. Forget(Forget(t.object, t.under[s]), {old}) = Forget(t.object, t.under[s] \cup {old})
        BY DEF Forget
    <2>6. (t.mods \ t.under[s]) \ {old} = t.mods \ (t.under[s] \cup {old})
        OBVIOUS
    <2>7. Replace(t, s, c) = t4 /\ {old} \ {Nothing} = {old}
        BY <1>5 DEF Replace, t1, t2, t3
    <2> HIDE DEF t4
    <2> QED BY <1>3, <2>1, <2>4, <2>5, <2>6, <2>7
<1> QED BY <1>4, <1>5

LEMMA DealtParts ==
    ASSUME NEW D, NEW W, D \cap W = {}, NEW n, NEW eager, NEW d \in Dealt(D, W, n, eager)
    PROVE  /\ d.taken \cup d.deck \cup d.waiting = D \cup W
           /\ d.taken \cap d.deck = {} /\ d.taken \cap d.waiting = {}
           /\ d.deck \cap d.waiting = {}
<1>1. CASE \E T \in SUBSET D : d = [taken |-> T, deck |-> D \ T, waiting |-> W]
    BY <1>1
<1>2. CASE \E T \in SUBSET W : d = [taken |-> D \cup T, deck |-> W \ T, waiting |-> {}]
    BY <1>2
<1> QED BY <1>1, <1>2 DEF Dealt

LEMMA DealsWhole ==
    ASSUME NEW t, NEW L, Whole(t, L), NEW n, NEW eager,
           NEW z \in {"hand", "resolution_area"}, NEW u \in Deals(t, n, eager, z)
    PROVE  Whole(u, L) /\ SameStage(t, u)
<1> DEFINE D == t.zone["main_deck"]
           W == t.zone["waiting_room"]
<1>1. t \in Table /\ L \subseteq Card
    BY DEF Whole
<1>2. D \subseteq Card /\ W \subseteq Card /\ D \cap W = {}
    <2>1. \A c \in Card : ~(c \in D /\ c \in W)
        BY DEF Whole, Out, Once, Zone
    <2> QED BY <1>1, <2>1 DEF Table, Zone
<1>3. PICK d \in Dealt(D, W, n, eager) :
          u = Put([t EXCEPT !.zone["main_deck"] = d.deck,
                            !.zone["waiting_room"] = d.waiting], z, d.taken)
    BY DEF Deals
<1> HIDE DEF D, W
<1>4. /\ d.taken \cup d.deck \cup d.waiting = D \cup W
      /\ d.taken \cap d.deck = {} /\ d.taken \cap d.waiting = {}
      /\ d.deck \cap d.waiting = {}
    BY <1>2, DealtParts
<1> DEFINE t1 == [t EXCEPT !.zone["main_deck"] = d.deck, !.zone["waiting_room"] = d.waiting]
<1>5. d.taken \in SUBSET Card /\ d.deck \in SUBSET Card /\ d.waiting \in SUBSET Card
    BY <1>2, <1>4
<1>6. /\ t1 \in Table /\ SameStage(t, t1)
      /\ t1.zone = [[t.zone EXCEPT !["main_deck"] = d.deck] EXCEPT !["waiting_room"] = d.waiting]
    BY <1>1, <1>5 DEF Table, SameStage, Zone
<1>7. u \in Table /\ SameStage(t1, u) /\ u.zone = [t1.zone EXCEPT ![z] = @ \cup d.taken]
    <2>1. u = Put(t1, z, d.taken) /\ z \in Zone
        BY <1>3 DEF Zone
    <2> HIDE DEF t1
    <2> QED BY <2>1, <1>5, <1>6, PutFields
<1> HIDE DEF t1
<1>8. SameStage(t, u)
    BY <1>6, <1>7 DEF SameStage
<1>9. /\ u.zone["main_deck"] = d.deck /\ u.zone["waiting_room"] = d.waiting
      /\ u.zone[z] = t.zone[z] \cup d.taken
      /\ \A y \in Zone \ {"main_deck", "waiting_room", z} : u.zone[y] = t.zone[y]
    BY <1>1, <1>6, <1>7 DEF Table, Zone
<1>10. ASSUME NEW c \in Card PROVE IF c \in L THEN Out(u, c) ELSE Once(u, c)
    <2>1. IF c \in L THEN Out(t, c) ELSE Once(t, c)
        BY DEF Whole
    <2>2. "main_deck" \in Zone /\ "waiting_room" \in Zone /\ z \in Zone
          /\ z # "main_deck" /\ z # "waiting_room"
        BY DEF Zone
    <2>3. u.area = t.area /\ u.under = t.under
        BY <1>8 DEF SameStage
    <2>4. CASE c \notin D \cup W
        <3>1. \A y \in Zone : c \in u.zone[y] <=> c \in t.zone[y]
            BY <1>4, <1>9, <2>2, <2>4 DEF D, W
        <3> QED BY <2>1, <2>3, <3>1 DEF Out, Once
    <2>5. CASE c \in D \cup W
        <3>1. PICK y \in {"main_deck", "waiting_room"} : c \in t.zone[y]
            BY <2>5 DEF D, W
        <3>2. /\ Once(t, c) /\ c \notin L
              /\ \A x \in Zone : c \in t.zone[x] => x = y
              /\ \A s \in Slot : t.area[s] # c /\ c \notin t.under[s]
            BY <2>1, <2>2, <3>1 DEF Out, Once
        <3>3. \E x \in Zone : c \in u.zone[x]
            BY <1>4, <1>9, <2>2, <2>5
        <3>4. \A x, x2 \in Zone : c \in u.zone[x] /\ c \in u.zone[x2] => x = x2
            BY <1>4, <1>9, <2>2, <3>1, <3>2
        <3> QED BY <2>3, <3>2, <3>3, <3>4 DEF Once
    <2> QED BY <2>4, <2>5
<1> QED BY <1>1, <1>7, <1>8, <1>10 DEF Whole

LEMMA LiftWhole ==
    ASSUME NEW t, NEW L, Whole(t, L), NEW c \in Card, c \notin Attached(t)
    PROVE  /\ Whole(Lift(t, c), L \cup {c})
           /\ Lift(t, c).area
                 = [s \in Slot |-> IF t.area[s] = c THEN Nothing ELSE t.area[s]]
           /\ Lift(t, c).under = t.under
           /\ Lift(t, c).mods = t.mods
           /\ Lift(t, c).object = t.object
           /\ Lift(t, c).next = t.next
           /\ Lift(t, c).events = t.events
<1> DEFINE u == Lift(t, c)
<1>1. t \in Table /\ L \subseteq Card /\ Nothing \notin Card
    BY CardAssumption DEF Whole
<1>2. /\ u.zone = [z \in Zone |-> t.zone[z] \ {c}]
      /\ u.area = [s \in Slot |-> IF t.area[s] = c THEN Nothing ELSE t.area[s]]
      /\ u.under = t.under /\ u.mods = t.mods /\ u.object = t.object
      /\ u.next = t.next /\ u.events = t.events
    BY <1>1 DEF Lift, Table
<1>3. u \in Table
    <2>1. /\ [z \in Zone |-> t.zone[z] \ {c}] \in [Zone -> SUBSET Card]
          /\ [s \in Slot |-> IF t.area[s] = c THEN Nothing ELSE t.area[s]]
                \in [Slot -> Member \cup {Nothing}]
        BY <1>1 DEF Table
    <2> QED BY <1>1, <2>1 DEF Lift, Table
<1> HIDE DEF u
<1>4. \A s \in Slot : c \notin t.under[s]
    BY DEF Attached
<1>5. ASSUME NEW d \in Card PROVE IF d \in L \cup {c} THEN Out(u, d) ELSE Once(u, d)
    <2>1. IF d \in L THEN Out(t, d) ELSE Once(t, d)
        BY DEF Whole
    <2>2. /\ \A z \in Zone : d \in u.zone[z] <=> d \in t.zone[z] /\ d # c
          /\ \A s \in Slot : u.area[s] = d <=> t.area[s] = d /\ d # c
        BY <1>1, <1>2
    <2> QED BY <2>1, <2>2, <1>2, <1>4 DEF Out, Once
<1> QED BY <1>1, <1>2, <1>3, <1>5 DEF Whole, u

LEMMA SwapWhole ==
    ASSUME NEW t, NEW L, Whole(t, L), NEW s \in Slot, NEW r \in Slot
    PROVE  /\ Whole(Swap(t, s, r), L)
           /\ Swap(t, s, r).area = [t.area EXCEPT ![s] = t.area[r], ![r] = t.area[s]]
           /\ Swap(t, s, r).under = [t.under EXCEPT ![s] = t.under[r], ![r] = t.under[s]]
           /\ Swap(t, s, r).mods = t.mods
           /\ Swap(t, s, r).object = t.object
           /\ Swap(t, s, r).next = t.next
           /\ Swap(t, s, r).events = t.events
<1> DEFINE a == [t.area EXCEPT ![s] = t.area[r], ![r] = t.area[s]]
           n == [t.under EXCEPT ![s] = t.under[r], ![r] = t.under[s]]
           u == Restage(t, a, n)
<1>1. t \in Table /\ L \subseteq Card
    BY DEF Whole
<1>2. a \in [Slot -> Member \cup {Nothing}] /\ n \in [Slot -> SUBSET Card]
    BY <1>1 DEF Table
<1>3. Swap(t, s, r) = u
    BY <1>1 DEF Swap, Restage, Table
<1>4. \A q \in Slot : /\ a[q] = IF q = r THEN t.area[s] ELSE IF q = s THEN t.area[r] ELSE t.area[q]
                      /\ n[q] = IF q = r THEN t.under[s] ELSE IF q = s THEN t.under[r] ELSE t.under[q]
    BY <1>1 DEF Table
<1> HIDE DEF a, n
<1>5. /\ u \in Table /\ u.zone = t.zone /\ u.area = a /\ u.under = n
      /\ u.mods = t.mods /\ u.object = t.object /\ u.next = t.next /\ u.events = t.events
    BY <1>1, <1>2, RestageFields
<1> HIDE DEF u
<1>6. ASSUME NEW d \in Card PROVE IF d \in L THEN Out(u, d) ELSE Once(u, d)
    <2>1. IF d \in L THEN Out(t, d) ELSE Once(t, d)
        BY DEF Whole
    <2>2. CASE d \in L
        BY <2>1, <2>2, <1>4, <1>5 DEF Out
    <2>3. CASE d \notin L
        BY <2>1, <2>3, <1>4, <1>5 DEF Once
    <2> QED BY <2>2, <2>3
<1> QED BY <1>1, <1>3, <1>5, <1>6 DEF Whole, a, n

-----------------------------------------------------------------------------
(* What the actions keep of the records about the stage.                    *)

LEMMA StagedOn ==
    ASSUME NEW t \in Table, NEW c \in Member
    PROVE  (c \in Staged(t) <=> On(t, c)) /\ (c \in Tops(t) <=> OnTop(t, c))
BY CardAssumption DEF Staged, Tops, Attached, On, OnTop, Card

(* The members that left are those of C, and the records of C were cleared. *)
LEMMA KeepsIf ==
    ASSUME NEW t \in Table, NEW u \in Table, NEW C,
           u.mods = t.mods \ C, u.object = Forget(t.object, C),
           u.next = t.next, u.events = t.events,
           \A c \in Member : c \in C <=> On(t, c) /\ ~On(u, c),
           \A c \in Member : OnTop(t, c) /\ c \notin C => OnTop(u, c)
    PROVE  Keeps(t, u)
<1>1. ASSUME NEW c \in Member
      PROVE  IF c \in Staged(t) \ Staged(u)
             THEN c \notin u.mods /\ u.object[c] = NoToken
             ELSE u.object[c] = t.object[c] /\ (c \in Tops(t) => c \in Tops(u))
    BY StagedOn DEF Forget
<1> QED BY <1>1 DEF Keeps

(* The same, when nobody left and no record was touched. *)
LEMMA KeepsAll ==
    ASSUME NEW t \in Table, NEW u \in Table,
           u.object = t.object, u.next = t.next, u.events = t.events,
           \A c \in Member : On(t, c) => On(u, c),
           \A c \in Member : OnTop(t, c) => OnTop(u, c)
    PROVE  Keeps(t, u)
<1>1. ASSUME NEW c \in Member
      PROVE  IF c \in Staged(t) \ Staged(u)
             THEN c \notin u.mods /\ u.object[c] = NoToken
             ELSE u.object[c] = t.object[c] /\ (c \in Tops(t) => c \in Tops(u))
    BY StagedOn
<1> QED BY <1>1 DEF Keeps

LEMMA SameStageGood ==
    ASSUME NEW t \in Table, Sound(t), NEW u, Whole(u, {}), SameStage(t, u)
    PROVE  GoodCalm(t, u)
<1>1. u \in Table
    BY DEF Whole
<1>2. Keeps(t, u)
    BY <1>1, KeepsAll DEF SameStage, On, OnTop
<1> QED BY <1>2 DEF GoodCalm, Good, Sound, SameStage, Stays, On

LEMMA ObjectsKept ==
    ASSUME NEW t \in Table, NEW u \in Table, NEW R, Objects(t, R), Keeps(t, u)
    PROVE  Objects(u, R \cap Staged(u))
<1> DEFINE Q == R \cap Staged(u)
<1>1. R \subseteq Member /\ R \subseteq Staged(t)
    BY DEF Objects, Staged, Tops, Table
<1>2. \A c \in R : c \in Staged(u) => c \in Tops(u) /\ u.object[c] = t.object[c]
    BY <1>1 DEF Keeps, Objects
<1>3. \A c \in Member : u.object[c] # NoToken <=> c \in Q
    <2> TAKE c \in Member
    <2>1. CASE c \in Staged(t) \ Staged(u)
        BY <2>1 DEF Keeps
    <2>2. CASE c \notin Staged(t) \ Staged(u)
        BY <2>2, <1>1 DEF Keeps, Objects
    <2> QED BY <2>1, <2>2
<1>4. \A c \in Q : <<c, u.object[c]>> \in u.events
    BY <1>1, <1>2 DEF Keeps, Objects
<1>5. \A c \in Member, k \in Nat : <<c, k>> \in u.events => 0 < k /\ k <= u.next
    BY DEF Keeps, Objects
<1> QED BY <1>2, <1>3, <1>4, <1>5 DEF Objects

LEMMA SameStageTwice ==
    ASSUME NEW t, NEW u, NEW v, SameStage(t, u), SameStage(u, v)
    PROVE  SameStage(t, v)
BY DEF SameStage

(* One card goes from a zone to another, or several. *)
LEMMA MoveWhole ==
    ASSUME NEW t, Whole(t, {}), NEW y \in Zone, NEW z \in Zone, NEW C \in SUBSET t.zone[y]
    PROVE  Whole(Move(t, y, z, C), {}) /\ SameStage(t, Move(t, y, z, C))
<1> DEFINE t1 == Take(t, y, C)
           u == Put(t1, z, C)
<1>1. t \in Table /\ C \subseteq Card
    BY DEF Whole, Table
<1>2. Whole(t1, {} \cup C)
    BY TakeWhole
<1>3. t1 \in Table /\ SameStage(t, t1)
    BY <1>1, TakeFields
<1> HIDE DEF t1
<1>4. Whole(u, ({} \cup C) \ C)
    BY <1>2, PutWhole
<1>5. SameStage(t1, u)
    BY <1>1, <1>3, PutFields
<1>6. u = Move(t, y, z, C)
    BY DEF Move, t1
<1> HIDE DEF u
<1>7. ({} \cup C) \ C = {}
    OBVIOUS
<1> QED BY <1>3, <1>4, <1>5, <1>6, <1>7 DEF SameStage

LEMMA MoveGood ==
    ASSUME NEW t, Whole(t, {}), Sound(t), NEW y \in Zone, NEW z \in Zone,
           NEW C \in SUBSET t.zone[y]
    PROVE  GoodCalm(t, Move(t, y, z, C))
BY MoveWhole, SameStageGood DEF Whole

(* Cards are dealt; the cards of a mulligan go back when others are dealt.  *)
LEMMA DealsGood ==
    ASSUME NEW t, Whole(t, {}), Sound(t), NEW n, NEW eager,
           NEW z \in {"hand", "resolution_area"}, NEW u \in Deals(t, n, eager, z)
    PROVE  GoodCalm(t, u)
<1>1. Whole(u, {}) /\ SameStage(t, u)
    BY DealsWhole
<1>2. t \in Table
    BY DEF Whole
<1> QED BY <1>1, <1>2, SameStageGood

LEMMA MulliganGood ==
    ASSUME NEW t, Whole(t, {}), Sound(t), NEW C \in SUBSET t.zone["hand"], NEW n,
           NEW u \in Deals(Take(t, "hand", C), n, TRUE, "hand")
    PROVE  GoodCalm(t, Put(u, "main_deck", C))
<1> DEFINE t1 == Take(t, "hand", C)
           v == Put(u, "main_deck", C)
<1>1. "hand" \in Zone /\ "main_deck" \in Zone /\ "hand" \in {"hand", "resolution_area"}
    BY DEF Zone
<1>2. t \in Table /\ C \in SUBSET Card /\ {} \cup C = C /\ C \ C = {} /\ C \in SUBSET C
    BY <1>1 DEF Whole, Table
<1>3. Whole(t1, {} \cup C) /\ SameStage(t, t1)
    BY <1>1, <1>2, TakeWhole, TakeFields
<1> HIDE DEF t1
<1>4. Whole(t1, C)
    BY <1>2, <1>3
<1>5. u \in Deals(t1, n, TRUE, "hand")
    BY DEF t1
<1>6. Whole(u, C) /\ SameStage(t1, u)
    BY <1>1, <1>4, <1>5, DealsWhole
<1>7. u \in Table
    BY <1>6 DEF Whole
<1>8. Whole(v, C \ C)
    BY <1>1, <1>2, <1>6, PutWhole
<1>9. SameStage(u, v)
    BY <1>1, <1>2, <1>7, PutFields
<1> HIDE DEF v
<1>10. Whole(v, {}) /\ SameStage(t, v)
    BY <1>2, <1>3, <1>6, <1>8, <1>9, SameStageTwice
<1>11. GoodCalm(t, v)
    BY <1>2, <1>10, SameStageGood
<1> QED BY <1>11 DEF v

LEMMA CleanupGood ==
    ASSUME NEW t, Whole(t, {}), Sound(t)
    PROVE  GoodCalm(t, [t EXCEPT !.zone["live_area"] = {}, !.zone["resolution_area"] = {},
                                 !.zone["waiting_room"] = @ \cup (t.zone["live_area"]
                                                            \cup t.zone["resolution_area"])])
<1> DEFINE l == t.zone["live_area"]
           r == t.zone["resolution_area"]
           u == [t EXCEPT !.zone["live_area"] = {}, !.zone["resolution_area"] = {},
                          !.zone["waiting_room"] = @ \cup (l \cup r)]
<1>1. t \in Table
    BY DEF Whole
<1>2. u \in Table /\ SameStage(t, u)
    BY <1>1 DEF Table, SameStage, Zone
<1>3. /\ u.zone["live_area"] = {} /\ u.zone["resolution_area"] = {}
      /\ u.zone["waiting_room"] = t.zone["waiting_room"] \cup (l \cup r)
      /\ \A y \in Zone \ {"live_area", "resolution_area", "waiting_room"} :
            u.zone[y] = t.zone[y]
    BY <1>1 DEF Table, Zone
<1> HIDE DEF u
<1>4. ASSUME NEW c \in Card PROVE Once(u, c)
    <2>1. Once(t, c) /\ u.area = t.area /\ u.under = t.under
        BY <1>2 DEF Whole, SameStage
    <2>2. "live_area" \in Zone /\ "resolution_area" \in Zone /\ "waiting_room" \in Zone
        BY DEF Zone
    <2>3. CASE c \in l \cup r
        <3>1. \A y \in Zone : c \in u.zone[y] <=> y = "waiting_room"
            BY <1>3, <2>1, <2>2, <2>3 DEF Once
        <3>2. \A s \in Slot : t.area[s] # c /\ c \notin t.under[s]
            BY <2>1, <2>2, <2>3 DEF Once
        <3> QED BY <2>1, <2>2, <3>1, <3>2 DEF Once
    <2>4. CASE c \notin l \cup r
        <3>1. \A y \in Zone : c \in u.zone[y] <=> c \in t.zone[y]
            BY <1>3, <2>2, <2>4
        <3> QED BY <2>1, <3>1 DEF Once
    <2> QED BY <2>3, <2>4
<1>5. Whole(u, {})
    BY <1>2, <1>4 DEF Whole
<1>6. GoodCalm(t, u)
    BY <1>1, <1>2, <1>5, SameStageGood
<1> QED BY <1>6 DEF u

(* An area is emptied. *)
LEMMA OffStageGood ==
    ASSUME NEW t, Whole(t, {}), Sound(t), NEW s \in Slot, t.area[s] # Nothing
    PROVE  GoodCalm(t, OffStage(t, s))
<1> DEFINE u == OffStage(t, s)
           C == t.under[s] \cup {t.area[s]}
<1>1. t \in Table /\ Nothing \notin Card /\ Member \subseteq Card
    BY CardAssumption DEF Whole, Card
<1>2. /\ Whole(u, {}) /\ u.area = [t.area EXCEPT ![s] = Nothing]
      /\ u.under = [t.under EXCEPT ![s] = {}]
      /\ u.mods = t.mods \ C /\ u.object = Forget(t.object, C)
      /\ u.next = t.next /\ u.events = t.events
    BY OffStageWhole
<1> HIDE DEF u
<1>3. u \in Table
    BY <1>2 DEF Whole
<1>4. \A r \in Slot : /\ u.area[r] = IF r = s THEN Nothing ELSE t.area[r]
                      /\ u.under[r] = IF r = s THEN {} ELSE t.under[r]
    BY <1>1, <1>2 DEF Table
<1>5. ASSUME NEW c \in Member PROVE c \in C <=> On(t, c) /\ ~On(u, c)
    <2>1. Once(t, c) /\ c # Nothing
        BY <1>1 DEF Whole
    <2> QED BY <2>1, <1>4 DEF On, Once
<1>6. ASSUME NEW c \in Member, OnTop(t, c), c \notin C PROVE OnTop(u, c)
    BY <1>4, <1>6 DEF OnTop
<1>7. Keeps(t, u)
    <2> HIDE DEF C
    <2> QED BY <1>1, <1>2, <1>3, <1>5, <1>6, KeepsIf
<1>8. Stays(t, u)
    BY <1>1, <1>4 DEF Stays, On
<1> QED BY <1>2, <1>4, <1>7, <1>8 DEF GoodCalm, Good, Sound, u

(* A card that was off the stage takes an area, whoever held it. *)
LEMMA ReplaceGood ==
    ASSUME NEW t, Whole(t, {}), Sound(t), NEW s \in Slot,
           NEW z \in Zone, NEW c \in t.zone[z] \cap Member
    PROVE  GoodEntry(t, Replace(Take(t, z, {c}), s, c), c, s)
<1> DEFINE t1 == Take(t, z, {c})
           u == Replace(t1, s, c)
           C == t.under[s] \cup ({t.area[s]} \ {Nothing})
<1>1. t \in Table /\ Nothing \notin Card /\ Member \subseteq Card /\ Once(t, c)
    BY CardAssumption DEF Whole, Card
<1>2. Whole(t1, {} \cup {c})
    BY TakeWhole
<1>3. t1 \in Table /\ SameStage(t, t1)
    BY <1>1, TakeFields
<1>4. {} \cup {c} = {c} /\ {c} \ {c} = {} /\ Sound(t1)
    BY <1>3 DEF Sound, SameStage
<1> HIDE DEF t1
<1>5. /\ Whole(u, {}) /\ u.area = [t1.area EXCEPT ![s] = c]
      /\ u.under = [t1.under EXCEPT ![s] = {}]
      /\ u.mods = t1.mods \ (t1.under[s] \cup ({t1.area[s]} \ {Nothing}))
      /\ u.object = Forget(t1.object, t1.under[s] \cup ({t1.area[s]} \ {Nothing}))
      /\ u.next = t1.next /\ u.events = t1.events
    <2>1. Whole(t1, {c}) /\ c \in {c} \cap Member
        BY <1>2, <1>4
    <2>2. Whole(u, {c} \ {c})
        BY <2>1, <1>4, ReplaceWhole
    <2>3. /\ u.area = [t1.area EXCEPT ![s] = c]
          /\ u.under = [t1.under EXCEPT ![s] = {}]
          /\ u.mods = t1.mods \ (t1.under[s] \cup ({t1.area[s]} \ {Nothing}))
          /\ u.object = Forget(t1.object, t1.under[s] \cup ({t1.area[s]} \ {Nothing}))
          /\ u.next = t1.next /\ u.events = t1.events
        BY <2>1, <2>2, <1>4, ReplaceWhole
    <2> HIDE DEF u
    <2> QED BY <1>4, <2>2, <2>3
<1> HIDE DEF u
<1>6. /\ u.mods = t.mods \ C /\ u.object = Forget(t.object, C)
      /\ u.next = t.next /\ u.events = t.events
    BY <1>3, <1>5 DEF SameStage
<1>7. \A r \in Slot : /\ u.area[r] = IF r = s THEN c ELSE t.area[r]
                      /\ u.under[r] = IF r = s THEN {} ELSE t.under[r]
    BY <1>1, <1>3, <1>5 DEF Table, SameStage
<1>8. u \in Table
    BY <1>5 DEF Whole
<1>9. ~On(t, c)
    BY <1>1 DEF On, Once
<1>10. ASSUME NEW d \in Member PROVE d \in C <=> On(t, d) /\ ~On(u, d)
    <2>1. Once(t, d) /\ d # Nothing
        BY <1>1 DEF Whole
    <2> QED BY <2>1, <1>7, <1>9 DEF On, Once
<1>11. ASSUME NEW d \in Member, OnTop(t, d), d \notin C PROVE OnTop(u, d)
    BY <1>1, <1>7, <1>11 DEF OnTop
<1>12. Keeps(t, u)
    <2> HIDE DEF C
    <2> QED BY <1>1, <1>6, <1>8, <1>10, <1>11, KeepsIf
<1>13. Sound(u)
    BY <1>1, <1>7 DEF Sound
<1>14. Comes(t, u, c, s)
    BY <1>1, <1>7 DEF Comes, On
<1> QED BY <1>5, <1>12, <1>13, <1>14 DEF GoodEntry, Good, u, t1

LEMMA SlotOfTop ==
    ASSUME NEW t, NEW c \in Tops(t)
    PROVE  SlotOf(t, c) \in Slot /\ t.area[SlotOf(t, c)] = c /\ c # Nothing
BY DEF SlotOf, Tops

LEMMA UnderOfAttached ==
    ASSUME NEW t, NEW c \in Attached(t)
    PROVE  UnderOf(t, c) \in Slot /\ c \in t.under[UnderOf(t, c)]
BY DEF UnderOf, Attached

LEMMA BatonGood ==
    ASSUME NEW t, Whole(t, {}), Sound(t), NEW s \in Slot, t.area[s] # Nothing,
           NEW c \in t.zone["hand"] \cap Member
    PROVE  GoodEntry(t, [OffStage(Take(t, "hand", {c}), s) EXCEPT !.area[s] = c], c, s)
<1> DEFINE t1 == Take(t, "hand", {c})
           t2 == OffStage(t1, s)
           u == [t2 EXCEPT !.area[s] = c]
           C == t.under[s] \cup {t.area[s]}
<1>1. t \in Table /\ Nothing \notin Card /\ Member \subseteq Card /\ Once(t, c)
    BY CardAssumption DEF Whole, Card
<1>2. Whole(t1, {c}) /\ t1 \in Table /\ SameStage(t, t1)
    <2>1. "hand" \in Zone /\ {} \cup {c} = {c} /\ {c} \in SUBSET t.zone["hand"]
        BY DEF Zone
    <2>2. Whole(t1, {} \cup {c})
        BY <2>1, TakeWhole
    <2> QED BY <1>1, <2>1, <2>2, TakeFields
<1> HIDE DEF t1
<1>3. t1.area[s] # Nothing /\ t1.area[s] = t.area[s] /\ t1.under[s] = t.under[s]
    BY <1>2 DEF SameStage
<1>4. /\ Whole(t2, {c})
      /\ t2.area = [t.area EXCEPT ![s] = Nothing]
      /\ t2.under = [t.under EXCEPT ![s] = {}]
      /\ t2.mods = t.mods \ C /\ t2.object = Forget(t.object, C)
      /\ t2.next = t.next /\ t2.events = t.events
    <2>1. /\ Whole(t2, {c})
          /\ t2.area = [t1.area EXCEPT ![s] = Nothing]
          /\ t2.under = [t1.under EXCEPT ![s] = {}]
          /\ t2.mods = t1.mods \ (t1.under[s] \cup {t1.area[s]})
          /\ t2.object = Forget(t1.object, t1.under[s] \cup {t1.area[s]})
          /\ t2.next = t1.next /\ t2.events = t1.events
        BY <1>2, <1>3, OffStageWhole
    <2> QED BY <2>1, <1>2, <1>3 DEF SameStage
<1> HIDE DEF t2
<1>5. t2 \in Table /\ t2.area[s] = Nothing
    BY <1>1, <1>4 DEF Whole, Table
<1>6. u = Restage(t2, [t2.area EXCEPT ![s] = c], t2.under) /\ Whole(u, {})
    <2>1. c \in {c} \cap Member /\ ({c} \ {c}) \cup ({t2.area[s]} \ {Nothing}) = {}
        BY <1>5
    <2> QED BY <1>4, <2>1, EnterWhole
<1>7. /\ u.area = [t2.area EXCEPT ![s] = c] /\ u.under = t2.under
      /\ u.mods = t2.mods /\ u.object = t2.object /\ u.next = t2.next
      /\ u.events = t2.events
    <2>1. /\ [t2.area EXCEPT ![s] = c] \in [Slot -> Member \cup {Nothing}]
          /\ t2.under \in [Slot -> SUBSET Card]
        BY <1>5 DEF Table
    <2> QED BY <1>5, <1>6, <2>1, RestageFields
<1> HIDE DEF u
<1>8. \A r \in Slot : /\ u.area[r] = IF r = s THEN c ELSE t.area[r]
                      /\ u.under[r] = IF r = s THEN {} ELSE t.under[r]
    BY <1>1, <1>4, <1>5, <1>7 DEF Table
<1>9. u \in Table /\ ~On(t, c)
    <2>1. u \in Table
        BY <1>6 DEF Whole
    <2>2. "hand" \in Zone /\ c \in t.zone["hand"]
        BY DEF Zone
    <2> QED BY <1>1, <2>1, <2>2 DEF On, Once
<1>10. ASSUME NEW d \in Member PROVE d \in C <=> On(t, d) /\ ~On(u, d)
    <2>1. Once(t, d) /\ d # Nothing
        BY <1>1 DEF Whole
    <2> QED BY <2>1, <1>8, <1>9 DEF On, Once
<1>11. ASSUME NEW d \in Member, OnTop(t, d), d \notin C PROVE OnTop(u, d)
    BY <1>1, <1>8, <1>11 DEF OnTop
<1>12. Keeps(t, u)
    <2> HIDE DEF C
    <2> QED BY <1>1, <1>4, <1>7, <1>9, <1>10, <1>11, KeepsIf
<1>13. Sound(u)
    BY <1>1, <1>8 DEF Sound
<1>14. Comes(t, u, c, s)
    BY <1>1, <1>8 DEF Comes, On
<1> QED BY <1>6, <1>12, <1>13, <1>14 DEF GoodEntry, Good, u, t2, t1

(* A member from off the stage takes an empty area: the common part of the  *)
(* entries.  t1 is the table without it.                                    *)
LEMMA EnterGood ==
    ASSUME NEW t, Whole(t, {}), Sound(t), NEW s \in Slot, t.area[s] = Nothing,
           NEW c \in Member, NEW t1, Whole(t1, {c}), SameStage(t, t1)
    PROVE  GoodEntry(t, [t1 EXCEPT !.area[s] = c], c, s)
<1> DEFINE u == [t1 EXCEPT !.area[s] = c]
<1>1. t \in Table /\ t1 \in Table /\ t1.area[s] = Nothing
      /\ Nothing \notin Card /\ Member \subseteq Card
    BY CardAssumption DEF Whole, Card, SameStage
<1>2. u = Restage(t1, [t1.area EXCEPT ![s] = c], t1.under) /\ Whole(u, {})
    <2>1. c \in {c} \cap Member /\ ({c} \ {c}) \cup ({t1.area[s]} \ {Nothing}) = {}
        BY <1>1
    <2> QED BY <2>1, EnterWhole
<1>3. /\ u.area = [t1.area EXCEPT ![s] = c] /\ u.under = t1.under
      /\ u.mods = t1.mods /\ u.object = t1.object /\ u.next = t1.next
      /\ u.events = t1.events
    <2>1. /\ [t1.area EXCEPT ![s] = c] \in [Slot -> Member \cup {Nothing}]
          /\ t1.under \in [Slot -> SUBSET Card]
        BY <1>1 DEF Table
    <2> QED BY <1>1, <1>2, <2>1, RestageFields
<1> HIDE DEF u
<1>4. \A r \in Slot : /\ u.area[r] = IF r = s THEN c ELSE t.area[r]
                      /\ u.under[r] = t.under[r]
    BY <1>1, <1>3 DEF Table, SameStage
<1>5. u \in Table /\ u.object = t.object /\ u.next = t.next /\ u.events = t.events
    BY <1>2, <1>3 DEF Whole, SameStage
<1>6. \A d \in Member : (On(t, d) => On(u, d)) /\ (OnTop(t, d) => OnTop(u, d))
    BY <1>1, <1>4 DEF On, OnTop
<1>7. Keeps(t, u)
    BY <1>1, <1>5, <1>6, KeepsAll
<1>8. Sound(u)
    BY <1>1, <1>4 DEF Sound
<1>9. Comes(t, u, c, s)
    BY <1>1, <1>4 DEF Comes, On
<1> QED BY <1>2, <1>7, <1>8, <1>9 DEF GoodEntry, Good, u

LEMMA AttachGood ==
    ASSUME NEW t, Whole(t, {}), Sound(t), NEW s \in Slot, t.area[s] # Nothing,
           NEW z \in Zone, NEW c \in t.zone[z]
    PROVE  GoodEntry(t, [Take(t, z, {c}) EXCEPT !.under[s] = @ \cup {c}], c, s)
<1> DEFINE t1 == Take(t, z, {c})
           u == [t1 EXCEPT !.under[s] = @ \cup {c}]
<1>1. t \in Table /\ c \in Card
    BY DEF Whole, Table
<1>2. Whole(t1, {c}) /\ t1 \in Table /\ SameStage(t, t1)
    <2>1. {} \cup {c} = {c} /\ {c} \in SUBSET t.zone[z] /\ {c} \in SUBSET Card
        BY <1>1
    <2>2. Whole(t1, {} \cup {c})
        BY <2>1, TakeWhole
    <2> QED BY <1>1, <2>1, <2>2, TakeFields
<1> HIDE DEF t1
<1>3. u = Restage(t1, t1.area, [t1.under EXCEPT ![s] = @ \cup {c}]) /\ Whole(u, {})
    <2>1. {c} \in SUBSET {c} /\ {c} \ {c} = {}
        OBVIOUS
    <2> QED BY <1>2, <2>1, AttachWhole
<1>4. /\ u.area = t1.area /\ u.under = [t1.under EXCEPT ![s] = @ \cup {c}]
      /\ u.mods = t1.mods /\ u.object = t1.object /\ u.next = t1.next
      /\ u.events = t1.events
    <2>1. /\ [t1.under EXCEPT ![s] = @ \cup {c}] \in [Slot -> SUBSET Card]
          /\ t1.area \in [Slot -> Member \cup {Nothing}]
        BY <1>1, <1>2 DEF Table
    <2> QED BY <1>2, <1>3, <2>1, RestageFields
<1> HIDE DEF u
<1>5. \A r \in Slot : /\ u.area[r] = t.area[r]
                      /\ u.under[r] = IF r = s THEN t.under[r] \cup {c} ELSE t.under[r]
    BY <1>1, <1>2, <1>4 DEF Table, SameStage
<1>6. u \in Table /\ u.object = t.object /\ u.next = t.next /\ u.events = t.events
    BY <1>2, <1>3, <1>4 DEF Whole, SameStage
<1>7. \A d \in Member : (On(t, d) => On(u, d)) /\ (OnTop(t, d) => OnTop(u, d))
    BY <1>5 DEF On, OnTop
<1>8. Keeps(t, u)
    BY <1>1, <1>6, <1>7, KeepsAll
<1>9. Sound(u)
    BY <1>5 DEF Sound
<1>10. Comes(t, u, c, s)
    BY <1>5 DEF Comes, On
<1> QED BY <1>3, <1>8, <1>9, <1>10 DEF GoodEntry, Good, u, t1

LEMMA DetachGood ==
    ASSUME NEW t, Whole(t, {}), Sound(t), NEW c \in Attached(t), NEW z \in Zone
    PROVE  LET v == Put([t EXCEPT !.under[UnderOf(t, c)] = @ \ {c}], z, {c})
           IN  GoodCalm(t, IF c \in Member THEN ClearDeparted(v, {c}) ELSE v)
<1> DEFINE s == UnderOf(t, c)
           t1 == [t EXCEPT !.under[s] = @ \ {c}]
           v == Put(t1, z, {c})
           u == IF c \in Member THEN ClearDeparted(v, {c}) ELSE v
           C == IF c \in Member THEN {c} ELSE {}
<1>1. s \in Slot /\ c \in t.under[s]
    BY UnderOfAttached
<1>2. t \in Table /\ c \in Card /\ Once(t, c) /\ Member \subseteq Card /\ Nothing \notin Card
    BY <1>1, CardAssumption DEF Whole, Table, Card
<1> HIDE DEF s
<1>3. t1 = Restage(t, t.area, [t.under EXCEPT ![s] = @ \ {c}]) /\ Whole(t1, {c})
    <2>1. {c} \in SUBSET t.under[s] /\ {} \cup {c} = {c}
        BY <1>1
    <2> QED BY <1>1, <2>1, DetachWhole
<1>4. /\ t1 \in Table /\ t1.area = t.area /\ t1.under = [t.under EXCEPT ![s] = @ \ {c}]
      /\ t1.mods = t.mods /\ t1.object = t.object /\ t1.next = t.next
      /\ t1.events = t.events
    <2>1. /\ [t.under EXCEPT ![s] = @ \ {c}] \in [Slot -> SUBSET Card]
          /\ t.area \in [Slot -> Member \cup {Nothing}]
        BY <1>1, <1>2 DEF Table
    <2> QED BY <1>2, <1>3, <2>1, RestageFields
<1> HIDE DEF t1
<1>5. Whole(v, {}) /\ v \in Table /\ SameStage(t1, v)
    <2>1. {c} \in SUBSET {c} /\ {c} \ {c} = {} /\ {c} \in SUBSET Card
        BY <1>2
    <2>2. Whole(v, {c} \ {c})
        BY <1>3, <2>1, PutWhole
    <2> QED BY <1>4, <2>1, <2>2, PutFields
<1> HIDE DEF v
<1>6. /\ Whole(u, {}) /\ u.area = v.area /\ u.under = v.under
      /\ u.mods = v.mods \ C /\ u.object = Forget(v.object, C)
      /\ u.next = v.next /\ u.events = v.events
    <2>1. CASE c \in Member
        BY <2>1, <1>5, ClearWhole, ClearFields
    <2>2. CASE c \notin Member
        <3>1. v.mods \ {} = v.mods
            OBVIOUS
        <3>2. Forget(v.object, {}) = v.object
            BY <1>5 DEF Forget, Table
        <3> QED BY <2>2, <3>1, <3>2, <1>5
    <2> QED BY <2>1, <2>2
<1> HIDE DEF u
<1>7. \A r \in Slot : /\ u.area[r] = t.area[r]
                      /\ u.under[r] = IF r = s THEN t.under[r] \ {c} ELSE t.under[r]
    <2>1. u.area = t.area /\ u.under = [t.under EXCEPT ![s] = @ \ {c}]
        BY <1>4, <1>5, <1>6 DEF SameStage
    <2>2. t.under \in [Slot -> SUBSET Card]
        BY <1>2 DEF Table
    <2> QED BY <1>1, <2>1, <2>2
<1>8. /\ u \in Table /\ u.mods = t.mods \ C /\ u.object = Forget(t.object, C)
      /\ u.next = t.next /\ u.events = t.events
    BY <1>4, <1>5, <1>6 DEF Whole, SameStage
<1>9. ASSUME NEW d \in Member PROVE d \in C <=> On(t, d) /\ ~On(u, d)
    <2>1. Once(t, d) /\ d # Nothing
        BY <1>2 DEF Whole
    <2> QED BY <2>1, <1>1, <1>7 DEF On, Once
<1>10. ASSUME NEW d \in Member, OnTop(t, d), d \notin C PROVE OnTop(u, d)
    BY <1>7, <1>10 DEF OnTop
<1>11. Keeps(t, u)
    <2> HIDE DEF C
    <2> QED BY <1>2, <1>8, <1>9, <1>10, KeepsIf
<1>12. Sound(u)
    BY <1>7 DEF Sound
<1>13. Stays(t, u)
    BY <1>7 DEF Stays, On
<1> QED BY <1>6, <1>11, <1>12, <1>13 DEF GoodCalm, Good, u, v, t1, s

LEMMA PromoteGood ==
    ASSUME NEW t, Whole(t, {}), Sound(t), NEW c \in Attached(t) \cap Member,
           NEW s \in Slot, t.area[s] = Nothing
    PROVE  GoodCalm(t, [t EXCEPT !.under[UnderOf(t, c)] = @ \ {c}, !.area[s] = c])
<1> DEFINE q == UnderOf(t, c)
           t1 == [t EXCEPT !.under[q] = @ \ {c}]
           u == [t1 EXCEPT !.area[s] = c]
<1>1. q \in Slot /\ c \in t.under[q] /\ q # s
    BY UnderOfAttached DEF Sound
<1>2. t \in Table /\ c \in Card /\ Member \subseteq Card /\ Nothing \notin Card
    BY CardAssumption DEF Whole, Card
<1> HIDE DEF q
<1>3. t1 = Restage(t, t.area, [t.under EXCEPT ![q] = @ \ {c}]) /\ Whole(t1, {c})
    <2>1. {c} \in SUBSET t.under[q] /\ {} \cup {c} = {c}
        BY <1>1
    <2> QED BY <1>1, <2>1, DetachWhole
<1>4. /\ t1 \in Table /\ t1.area = t.area /\ t1.under = [t.under EXCEPT ![q] = @ \ {c}]
      /\ t1.mods = t.mods /\ t1.object = t.object /\ t1.next = t.next
      /\ t1.events = t.events
    <2>1. /\ [t.under EXCEPT ![q] = @ \ {c}] \in [Slot -> SUBSET Card]
          /\ t.area \in [Slot -> Member \cup {Nothing}]
        BY <1>1, <1>2 DEF Table
    <2> QED BY <1>2, <1>3, <2>1, RestageFields
<1> HIDE DEF t1
<1>5. u = Restage(t1, [t1.area EXCEPT ![s] = c], t1.under) /\ Whole(u, {})
    <2>1. c \in {c} \cap Member /\ ({c} \ {c}) \cup ({t1.area[s]} \ {Nothing}) = {}
        BY <1>4
    <2>2. Whole(t1, {c})
        BY <1>3
    <2> QED BY <2>1, <2>2, EnterWhole
<1>6. /\ u.area = [t.area EXCEPT ![s] = c] /\ u.under = t1.under
      /\ u.object = t.object /\ u.next = t.next /\ u.events = t.events
    <2>1. /\ [t1.area EXCEPT ![s] = c] \in [Slot -> Member \cup {Nothing}]
          /\ t1.under \in [Slot -> SUBSET Card]
        BY <1>4 DEF Table
    <2> QED BY <1>4, <1>5, <2>1, RestageFields
<1> HIDE DEF u
<1>7. \A r \in Slot : /\ u.area[r] = IF r = s THEN c ELSE t.area[r]
                      /\ u.under[r] = IF r = q THEN t.under[r] \ {c} ELSE t.under[r]
    <2>1. t.under \in [Slot -> SUBSET Card] /\ t.area \in [Slot -> Member \cup {Nothing}]
        BY <1>2 DEF Table
    <2> QED BY <1>4, <1>6, <2>1
<1>8. u \in Table
    BY <1>5 DEF Whole
<1>9. \A d \in Member : (On(t, d) => On(u, d)) /\ (OnTop(t, d) => OnTop(u, d))
    BY <1>1, <1>2, <1>7 DEF On, OnTop
<1>10. Keeps(t, u)
    BY <1>2, <1>6, <1>8, <1>9, KeepsAll
<1>11. Sound(u)
    BY <1>2, <1>7 DEF Sound
<1>12. u = [t EXCEPT !.under[UnderOf(t, c)] = @ \ {c}, !.area[s] = c]
    BY DEF u, t1, q
<1>13. Stays(t, u)
    BY <1>1, <1>7 DEF Stays, On
<1> QED BY <1>5, <1>10, <1>11, <1>12, <1>13 DEF GoodCalm, Good

LEMMA SwapGood ==
    ASSUME NEW t, Whole(t, {}), Sound(t), NEW s \in Slot, NEW r \in Slot
    PROVE  GoodCalm(t, Swap(t, s, r))
<1> DEFINE u == Swap(t, s, r)
<1>1. t \in Table
    BY DEF Whole
<1>2. /\ Whole(u, {})
      /\ u.area = [t.area EXCEPT ![s] = t.area[r], ![r] = t.area[s]]
      /\ u.under = [t.under EXCEPT ![s] = t.under[r], ![r] = t.under[s]]
      /\ u.object = t.object /\ u.next = t.next /\ u.events = t.events
    <2>1. Whole(u, {})
        BY SwapWhole
    <2>2. /\ u.area = [t.area EXCEPT ![s] = t.area[r], ![r] = t.area[s]]
          /\ u.under = [t.under EXCEPT ![s] = t.under[r], ![r] = t.under[s]]
          /\ u.object = t.object /\ u.next = t.next /\ u.events = t.events
        BY SwapWhole
    <2> QED BY <2>1, <2>2
<1> HIDE DEF u
<1>3. \A q \in Slot :
         /\ u.area[q] = IF q = r THEN t.area[s] ELSE IF q = s THEN t.area[r] ELSE t.area[q]
         /\ u.under[q] = IF q = r THEN t.under[s] ELSE IF q = s THEN t.under[r] ELSE t.under[q]
    BY <1>1, <1>2 DEF Table
<1>4. u \in Table
    BY <1>2 DEF Whole
<1>5. \A d \in Member : (On(t, d) => On(u, d)) /\ (OnTop(t, d) => OnTop(u, d))
    BY <1>3 DEF On, OnTop
<1>6. Keeps(t, u)
    BY <1>1, <1>2, <1>4, <1>5, KeepsAll
<1>7. Sound(u)
    BY <1>3 DEF Sound
<1>8. Stays(t, u)
    BY <1>3 DEF Stays, On
<1> QED BY <1>2, <1>6, <1>7, <1>8 DEF GoodCalm, Good, u

(* A card that is on the stage neither on top nor below is lifted. *)
LEMMA LiftSame ==
    ASSUME NEW t, Whole(t, {}), NEW c \in Card, c \notin Attached(t), c \notin Tops(t)
    PROVE  Whole(Lift(t, c), {c}) /\ SameStage(t, Lift(t, c))
<1>1. t \in Table /\ Nothing \notin Card
    BY CardAssumption DEF Whole
<1>2. {} \cup {c} = {c}
    OBVIOUS
<1>3. \A s \in Slot : t.area[s] # c
    BY <1>1 DEF Tops
<1>4. [s \in Slot |-> IF t.area[s] = c THEN Nothing ELSE t.area[s]] = t.area
    BY <1>1, <1>3 DEF Table
<1>5. /\ Whole(Lift(t, c), {} \cup {c})
      /\ Lift(t, c).area = [s \in Slot |-> IF t.area[s] = c THEN Nothing ELSE t.area[s]]
      /\ Lift(t, c).under = t.under /\ Lift(t, c).mods = t.mods
      /\ Lift(t, c).object = t.object /\ Lift(t, c).next = t.next
      /\ Lift(t, c).events = t.events
    BY LiftWhole
<1> QED BY <1>2, <1>4, <1>5 DEF SameStage

LEMMA LiftPutGood ==
    ASSUME NEW t, Whole(t, {}), Sound(t), NEW c \in Card,
           c \notin Attached(t), c \notin Tops(t), NEW z \in Zone
    PROVE  GoodCalm(t, Put(Lift(t, c), z, {c}))
<1> DEFINE t1 == Lift(t, c)
           u == Put(t1, z, {c})
<1>1. t \in Table /\ Whole(t1, {c}) /\ SameStage(t, t1) /\ t1 \in Table
    BY LiftSame DEF Whole
<1> HIDE DEF t1
<1>2. Whole(u, {}) /\ SameStage(t1, u)
    <2>1. {c} \in SUBSET {c} /\ {c} \ {c} = {} /\ {c} \in SUBSET Card
        OBVIOUS
    <2>2. Whole(u, {c} \ {c})
        BY <1>1, <2>1, PutWhole
    <2> QED BY <1>1, <2>1, <2>2, PutFields
<1>3. SameStage(t, u)
    BY <1>1, <1>2 DEF SameStage
<1> HIDE DEF u
<1>4. GoodCalm(t, u)
    BY <1>1, <1>2, <1>3, SameStageGood
<1> QED BY <1>4 DEF u, t1

(* A top member is moved to a zone by hand. *)
LEMMA LiftTopGood ==
    ASSUME NEW t, Whole(t, {}), Sound(t), NEW c \in Tops(t), NEW z \in Zone
    PROVE  GoodCalm(t, ClearDeparted(
                       Put(Lift(CleanAttachments(t, SlotOf(t, c)), c), z, {c}), {c}))
<1> DEFINE s == SlotOf(t, c)
           t1 == CleanAttachments(t, s)
           t2 == Lift(t1, c)
           t3 == Put(t2, z, {c})
           u == ClearDeparted(t3, {c})
           C == t.under[s] \cup {c}
<1>1. s \in Slot /\ t.area[s] = c /\ c # Nothing
    BY SlotOfTop
<1>2. /\ t \in Table /\ c \in Member /\ c \in Card /\ Once(t, c)
      /\ Member \subseteq Card /\ Nothing \notin Card
    BY <1>1, CardAssumption DEF Whole, Table, Card
<1> HIDE DEF s
<1>3. /\ Whole(t1, {}) /\ t1 \in Table
      /\ t1.area = t.area /\ t1.under = [t.under EXCEPT ![s] = {}]
      /\ t1.mods = t.mods \ t.under[s] /\ t1.object = Forget(t.object, t.under[s])
      /\ t1.next = t.next /\ t1.events = t.events
    BY <1>1, <1>2, CleanWhole, CleanFields
<1> HIDE DEF t1
<1>4. \A r \in Slot : t1.under[r] = IF r = s THEN {} ELSE t.under[r]
    BY <1>2, <1>3 DEF Table
<1>5. c \notin Attached(t1)
    BY <1>1, <1>2, <1>4 DEF Once, Attached
<1>6. /\ Whole(t2, {c})
      /\ t2.area = [r \in Slot |-> IF t.area[r] = c THEN Nothing ELSE t.area[r]]
      /\ t2.under = t1.under /\ t2.mods = t1.mods /\ t2.object = t1.object
      /\ t2.next = t1.next /\ t2.events = t1.events
    <2>1. {} \cup {c} = {c}
        OBVIOUS
    <2>2. Whole(t2, {} \cup {c})
        BY <1>2, <1>3, <1>5, LiftWhole
    <2> QED BY <1>2, <1>3, <1>5, <2>1, <2>2, LiftWhole
<1> HIDE DEF t2
<1>7. Whole(t3, {}) /\ t3 \in Table /\ SameStage(t2, t3)
    <2>1. {c} \in SUBSET {c} /\ {c} \ {c} = {} /\ {c} \in SUBSET Card /\ t2 \in Table
        BY <1>2, <1>6 DEF Whole
    <2>2. Whole(t3, {c} \ {c})
        BY <1>6, <2>1, PutWhole
    <2> QED BY <2>1, <2>2, PutFields
<1> HIDE DEF t3
<1>8. /\ Whole(u, {}) /\ u.area = t3.area /\ u.under = t3.under
      /\ u.mods = t3.mods \ {c} /\ u.object = Forget(t3.object, {c})
      /\ u.next = t3.next /\ u.events = t3.events
    BY <1>7, ClearWhole, ClearFields
<1> HIDE DEF u
<1>9. /\ u.area = [r \in Slot |-> IF t.area[r] = c THEN Nothing ELSE t.area[r]]
      /\ u.under = t1.under /\ u.mods = t1.mods \ {c}
      /\ u.object = Forget(t1.object, {c}) /\ u.next = t.next /\ u.events = t.events
    BY <1>3, <1>6, <1>7, <1>8 DEF SameStage
<1>10. /\ u \in Table /\ u.mods = t.mods \ C /\ u.object = Forget(t.object, C)
    <2>1. Forget(Forget(t.object, t.under[s]), {c}) = Forget(t.object, t.under[s] \cup {c})
        BY DEF Forget
    <2>2. (t.mods \ t.under[s]) \ {c} = t.mods \ (t.under[s] \cup {c})
        OBVIOUS
    <2> QED BY <1>3, <1>8, <1>9, <2>1, <2>2 DEF Whole
<1>11. \A r \in Slot : /\ u.area[r] = IF r = s THEN Nothing ELSE t.area[r]
                       /\ u.under[r] = IF r = s THEN {} ELSE t.under[r]
    BY <1>1, <1>2, <1>4, <1>9 DEF Once
<1>12. ASSUME NEW d \in Member PROVE d \in C <=> On(t, d) /\ ~On(u, d)
    <2>1. Once(t, d) /\ d # Nothing
        BY <1>2 DEF Whole
    <2> QED BY <2>1, <1>1, <1>11 DEF On, Once
<1>13. ASSUME NEW d \in Member, OnTop(t, d), d \notin C PROVE OnTop(u, d)
    BY <1>1, <1>11, <1>13 DEF OnTop
<1>14. Keeps(t, u)
    <2> HIDE DEF C
    <2> QED BY <1>2, <1>9, <1>10, <1>12, <1>13, KeepsIf
<1>15. Sound(u)
    BY <1>11 DEF Sound
<1>16. Stays(t, u)
    BY <1>2, <1>11 DEF Stays, On
<1> QED BY <1>8, <1>14, <1>15, <1>16 DEF GoodCalm, Good, u, t3, t2, t1, s

(* The play of an inspection's answer: two moves out of one zone. *)
LEMMA ResolveGood ==
    ASSUME NEW t, Whole(t, {}), Sound(t), NEW y \in Zone, NEW z \in Zone,
           y # "resolution_area", NEW C, NEW D, C \subseteq D,
           D \subseteq t.zone["resolution_area"]
    PROVE  GoodCalm(t, Move(Move(t, "resolution_area", y, C), "resolution_area", z, D \ C))
<1> DEFINE t1 == Move(t, "resolution_area", y, C)
           u == Move(t1, "resolution_area", z, D \ C)
<1>1. t \in Table /\ "resolution_area" \in Zone /\ C \in SUBSET t.zone["resolution_area"]
    BY DEF Whole, Zone
<1>2. Whole(t1, {}) /\ SameStage(t, t1)
    BY <1>1, MoveWhole
<1>3. t1.zone["resolution_area"] = t.zone["resolution_area"] \ C
    BY <1>1 DEF Move, Put, Take, Table
<1> HIDE DEF t1
<1>4. D \ C \in SUBSET t1.zone["resolution_area"]
    BY <1>3
<1>5. Whole(u, {}) /\ SameStage(t1, u)
    BY <1>1, <1>2, <1>4, MoveWhole
<1> HIDE DEF u
<1>6. Whole(u, {}) /\ SameStage(t, u)
    BY <1>2, <1>5, SameStageTwice
<1>7. GoodCalm(t, u)
    BY <1>1, <1>6, SameStageGood
<1> QED BY <1>7 DEF u, t1

LEMMA SetLiveGood ==
    ASSUME NEW t, Whole(t, {}), Sound(t), NEW C \in SUBSET t.zone["hand"], NEW n,
           NEW u \in Deals(Move(t, "hand", "live_area", C), n, TRUE, "hand")
    PROVE  GoodCalm(t, u)
<1> DEFINE t1 == Move(t, "hand", "live_area", C)
<1>1. t \in Table /\ "hand" \in Zone /\ "live_area" \in Zone
      /\ "hand" \in {"hand", "resolution_area"}
    BY DEF Whole, Zone
<1>2. Whole(t1, {}) /\ SameStage(t, t1)
    BY <1>1, MoveWhole
<1>3. u \in Deals(t1, n, TRUE, "hand")
    OBVIOUS
<1> HIDE DEF t1
<1>4. Whole(u, {}) /\ SameStage(t1, u)
    BY <1>1, <1>2, <1>3, DealsWhole
<1>5. SameStage(t, u)
    BY <1>2, <1>4, SameStageTwice
<1> QED BY <1>1, <1>4, <1>5, SameStageGood

LEMMA YellGood ==
    ASSUME NEW t, Whole(t, {}), Sound(t), NEW n, NEW m,
           NEW t1 \in Deals(t, n, FALSE, "resolution_area"),
           NEW u \in Deals(t1, m, TRUE, "hand")
    PROVE  GoodCalm(t, u)
<1>1. t \in Table /\ "hand" \in {"hand", "resolution_area"}
      /\ "resolution_area" \in {"hand", "resolution_area"}
    BY DEF Whole
<1>2. Whole(t1, {}) /\ SameStage(t, t1)
    BY <1>1, DealsWhole
<1>3. Whole(u, {}) /\ SameStage(t1, u)
    BY <1>1, <1>2, DealsWhole
<1>4. SameStage(t, u)
    BY <1>2, <1>3, SameStageTwice
<1> QED BY <1>1, <1>3, <1>4, SameStageGood

LEMMA ModifierGood ==
    ASSUME NEW t, Whole(t, {}), Sound(t), NEW c \in Member
    PROVE  GoodCalm(t, [t EXCEPT !.mods = @ \cup {c}])
<1> DEFINE u == [t EXCEPT !.mods = @ \cup {c}]
<1>1. t \in Table
    BY DEF Whole
<1>2. /\ u \in Table /\ u.zone = t.zone /\ u.area = t.area /\ u.under = t.under
      /\ u.object = t.object /\ u.next = t.next /\ u.events = t.events
    BY <1>1 DEF Table
<1> HIDE DEF u
<1>3. Whole(u, {})
    BY <1>2 DEF Whole, Once
<1>4. Keeps(t, u)
    BY <1>1, <1>2, KeepsAll DEF On, OnTop
<1>5. GoodCalm(t, u)
    BY <1>2, <1>3, <1>4 DEF GoodCalm, Good, Sound, Stays, On
<1> QED BY <1>5 DEF u

-----------------------------------------------------------------------------
(* The invariant.                                                           *)

LEMMA InitIInv == Init => IInv
<1> SUFFICES ASSUME Init PROVE IInv
    OBVIOUS
<1> USE CardAssumption
<1>1. PICK H \in SUBSET Member :
          /\ table.zone = [z \in Zone |-> CASE z = "hand" -> H
                                            [] z = "main_deck" -> Member \ H
                                            [] z = "energy_deck" -> Energy
                                            [] OTHER -> {}]
          /\ table.area = [s \in Slot |-> Nothing]
          /\ table.under = [s \in Slot |-> {}]
          /\ table.object = [c \in Member |-> NoToken]
          /\ table.events = {}
          /\ table \in Table
    BY DEF Init, Table, Card, NoToken, Zone
<1>2. /\ table.zone["hand"] = H /\ table.zone["main_deck"] = Member \ H
      /\ table.zone["energy_deck"] = Energy
      /\ \A z \in Zone \ {"hand", "main_deck", "energy_deck"} : table.zone[z] = {}
    BY <1>1 DEF Zone
<1>3. ASSUME NEW c \in Card PROVE Once(table, c)
    <2>1. /\ \A s \in Slot : table.area[s] # c /\ c \notin table.under[s]
          /\ "hand" \in Zone /\ "main_deck" \in Zone /\ "energy_deck" \in Zone
        BY <1>1 DEF Zone
    <2>2. CASE c \in H
        BY <2>1, <2>2, <1>2 DEF Once
    <2>3. CASE c \in Member \ H
        BY <2>1, <2>3, <1>2 DEF Once
    <2>4. CASE c \in Energy
        BY <2>1, <2>4, <1>2 DEF Once
    <2> QED BY <2>2, <2>3, <2>4 DEF Card
<1>4. Whole(table, {})
    BY <1>1, <1>3 DEF Whole
<1>5. Sound(table)
    BY <1>1 DEF Sound
<1>6. Objects(table, readied)
    BY <1>1 DEF Objects, Init
<1>7. TypeOK
    BY <1>1 DEF TypeOK, Init, Parts, NoChoice
<1> QED BY <1>4, <1>5, <1>6, <1>7 DEF IInv

(* What a step makes of the table and of the auxiliary variables. *)
Kept ==
    /\ Whole(table, {})
    /\ Sound(table)
    /\ Objects(table, readied)
    /\ arrived \subseteq Member
    /\ readied \subseteq Member

(* A step that ends a stay ends its records. *)
Leaves ==
    \A c \in Staged(table) \ Staged(table') :
        c \notin table'.mods /\ table'.object[c] = NoToken

(* The remaining variables. *)
Rest ==
    /\ entered \subseteq Member
    /\ part \in Parts
    /\ replaced \subseteq Member \X Member
    /\ choice \in [by : {"none", "manual", "effect"}, cards : SUBSET Card]

LEMMA BecomesKept ==
    ASSUME IInv, NEW u, Good(table, u), Becomes(u)
    PROVE  Kept' /\ Leaves
<1>1. table' = u /\ readied' = readied \cap Staged(table')
      /\ arrived' \subseteq Staged(table')
    BY DEF Becomes
<1>2. Whole(table', {}) /\ Sound(table') /\ Keeps(table, table')
    BY <1>1 DEF Good
<1>3. table \in Table /\ table' \in Table
    BY <1>2 DEF IInv, Whole
<1>4. Objects(table', readied')
    BY <1>1, <1>2, <1>3, ObjectsKept DEF IInv
<1>5. Leaves
    BY <1>2 DEF Leaves, Keeps, Staged
<1>6. Staged(table') \subseteq Member
    BY DEF Staged
<1> QED BY <1>1, <1>2, <1>4, <1>5, <1>6 DEF Kept

LEMMA CalmKept ==
    ASSUME IInv, NEW u, GoodCalm(table, u), Becomes(u)
    PROVE  Kept' /\ Leaves /\ Stays(table, table')
BY BecomesKept DEF GoodCalm, Becomes

LEMMA EntryKept ==
    ASSUME IInv, NEW u, NEW c, NEW s, GoodEntry(table, u, c, s), Becomes(u)
    PROVE  Kept' /\ Leaves /\ Comes(table, table', c, s)
BY BecomesKept DEF GoodEntry, Becomes

LEMMA NextTurnKept ==
    ASSUME IInv, StartNextTurn
    PROVE  Kept' /\ Leaves /\ Stays(table, table')
<1>1. /\ table' = [table EXCEPT !.mods = {}, !.object = [c \in Member |-> NoToken],
                                !.next = 0, !.events = {}]
      /\ arrived' = {} /\ readied' = {} /\ table \in Table
    BY DEF StartNextTurn, IInv, Whole
<1>2. /\ table' \in Table /\ table'.zone = table.zone /\ table'.area = table.area
      /\ table'.under = table.under /\ table'.object = [c \in Member |-> NoToken]
      /\ table'.events = {}
    BY <1>1 DEF Table, NoToken
<1>3. Whole(table', {})
    BY <1>2 DEF IInv, Whole, Once
<1>4. Sound(table')
    BY <1>2 DEF IInv, Sound
<1>5. Objects(table', readied')
    BY <1>1, <1>2 DEF Objects
<1>6. Leaves
    BY <1>2 DEF Leaves, Staged, Tops, Attached
<1>7. Stays(table, table')
    BY <1>2 DEF Stays, On
<1> QED BY <1>1, <1>3, <1>4, <1>5, <1>6, <1>7 DEF Kept

LEMMA ReadyKept ==
    ASSUME IInv, NEW c \in Member, ReadyMember(c)
    PROVE  Kept' /\ Leaves /\ Stays(table, table')
<1> DEFINE fresh == table.object[c] = NoToken
           token == IF fresh THEN table.next + 1 ELSE table.object[c]
<1>1. /\ table' = [table EXCEPT !.next = IF fresh THEN @ + 1 ELSE @,
                                !.object[c] = token,
                                !.events = @ \cup {<<c, token>>}]
      /\ readied' = readied \cup {c} /\ arrived' = arrived
      /\ c \in Tops(table) /\ table \in Table
    BY DEF ReadyMember, IInv, Whole
<1>2. /\ table.object[c] \in Nat /\ table.next \in Nat
      /\ ~fresh => <<c, table.object[c]>> \in table.events
    BY <1>1 DEF Table, IInv, Objects
<1>3. token \in Nat /\ 0 < token /\ token <= (IF fresh THEN table.next + 1 ELSE table.next)
    BY <1>2 DEF NoToken, IInv, Objects
<1> HIDE DEF token
<1>4. /\ table' \in Table /\ table'.zone = table.zone /\ table'.area = table.area
      /\ table'.under = table.under
      /\ table'.object = [table.object EXCEPT ![c] = token]
      /\ table'.next = (IF fresh THEN table.next + 1 ELSE table.next)
      /\ table'.events = table.events \cup {<<c, token>>}
    <2> DEFINE m == IF fresh THEN table.next + 1 ELSE table.next
               o == [table.object EXCEPT ![c] = token]
               E == table.events \cup {<<c, token>>}
    <2>1. m \in Nat /\ o \in [Member -> Nat] /\ E \in SUBSET (Member \X Nat)
        BY <1>1, <1>2, <1>3 DEF Table
    <2>2. table' = [table EXCEPT !.next = m, !.object = o, !.events = E]
        BY <1>1 DEF Table
    <2> HIDE DEF m, o, E, fresh
    <2>3. /\ table' \in Table /\ table'.zone = table.zone /\ table'.area = table.area
          /\ table'.under = table.under /\ table'.object = o /\ table'.next = m
          /\ table'.events = E
        BY <1>1, <2>1, <2>2 DEF Table
    <2> QED BY <2>3 DEF m, o, E
<1> HIDE DEF fresh
<1>5. Whole(table', {})
    BY <1>4 DEF IInv, Whole, Once
<1>6. Sound(table')
    BY <1>4 DEF IInv, Sound
<1>7. Objects(table', readied')
    <2>1. readied' \subseteq Tops(table')
        BY <1>1, <1>4 DEF IInv, Objects, Tops
    <2>2. \A d \in Member : table'.object[d] = IF d = c THEN token ELSE table.object[d]
        BY <1>1, <1>4 DEF Table
    <2>3. \A d \in Member : table'.object[d] # NoToken <=> d \in readied'
        BY <2>2, <1>1, <1>3 DEF IInv, Objects, NoToken
    <2>4. \A d \in readied' : <<d, table'.object[d]>> \in table'.events
        BY <2>1, <2>2, <1>1, <1>4 DEF IInv, Objects, Tops, Table
    <2>5. \A d \in Member, k \in Nat :
              <<d, k>> \in table'.events => 0 < k /\ k <= table'.next
        BY <1>2, <1>3, <1>4 DEF IInv, Objects
    <2> QED BY <2>1, <2>3, <2>4, <2>5 DEF Objects
<1>8. Leaves
    BY <1>4 DEF Leaves, Staged, Tops, Attached
<1>9. arrived' \subseteq Member /\ readied' \subseteq Member
    BY <1>1 DEF IInv, TypeOK
<1>10. Stays(table, table')
    BY <1>4 DEF Stays, On
<1> QED BY <1>5, <1>6, <1>7, <1>8, <1>9, <1>10 DEF Kept

LEMMA MulliganKept ==
    ASSUME IInv, NEW C \in SUBSET Card, SubmitMulligan(C)
    PROVE  Kept' /\ Leaves /\ Stays(table, table')
<1>1. Whole(table, {}) /\ Sound(table) /\ table \in Table
    BY DEF IInv, Whole
<1>2. PICK t \in Deals(Take(table, "hand", C), Cardinality(C), TRUE, "hand") : Becomes(Put(t, "main_deck", C))
    BY DEF SubmitMulligan
<1>5. GoodCalm(table, Put(t, "main_deck", C))
    BY <1>1, <1>2, MulliganGood DEF SubmitMulligan
<1> QED BY <1>2, <1>5, CalmKept

LEMMA EnergyKept ==
    ASSUME IInv, NEW C \in SUBSET Card, MoveEnergyToArea(C)
    PROVE  Kept' /\ Leaves /\ Stays(table, table')
<1>1. Whole(table, {}) /\ Sound(table) /\ table \in Table
    BY DEF IInv, Whole
<1>5. GoodCalm(table, Move(table, "energy_deck", "energy_area", C))
    BY <1>1, MoveGood DEF MoveEnergyToArea, Zone
<1> QED BY <1>5, CalmKept DEF MoveEnergyToArea

LEMMA DrawKept ==
    ASSUME IInv, NEW n, Draw(n)
    PROVE  Kept' /\ Leaves /\ Stays(table, table')
<1>1. Whole(table, {}) /\ Sound(table) /\ table \in Table
    BY DEF IInv, Whole
<1>2. PICK t \in Deals(table, n, TRUE, "hand") : Becomes(t)
    BY DEF Draw
<1>5. GoodCalm(table, t)
    BY <1>1, <1>2, DealsGood
<1> QED BY <1>2, <1>5, CalmKept

LEMMA PlayKept ==
    ASSUME IInv, NEW c, NEW s \in Slot, PlayMember(c, s)
    PROVE  Kept' /\ Leaves /\ Comes(table, table', c, s)
<1>1. Whole(table, {}) /\ Sound(table) /\ table \in Table
    BY DEF IInv, Whole
<1>5. GoodEntry(table, Replace(Take(table, "hand", {c}), s, c), c, s)
    BY <1>1, ReplaceGood DEF PlayMember, Zone
<1> QED BY <1>5, EntryKept DEF PlayMember

LEMMA BatonKept ==
    ASSUME IInv, NEW c, NEW s \in Slot, BatonTouch(c, s)
    PROVE  Kept' /\ Leaves /\ Comes(table, table', c, s)
<1>1. Whole(table, {}) /\ Sound(table) /\ table \in Table
    BY DEF IInv, Whole
<1>5. GoodEntry(table, [OffStage(Take(table, "hand", {c}), s) EXCEPT !.area[s] = c], c, s)
    BY <1>1, BatonGood DEF BatonTouch
<1> QED BY <1>5, EntryKept DEF BatonTouch

LEMMA SetLiveKept ==
    ASSUME IInv, NEW C \in SUBSET Card, SetLiveCards(C)
    PROVE  Kept' /\ Leaves /\ Stays(table, table')
<1>1. Whole(table, {}) /\ Sound(table) /\ table \in Table
    BY DEF IInv, Whole
<1>2. PICK t \in Deals(Move(table, "hand", "live_area", C), Cardinality(C), TRUE, "hand") : Becomes(t)
    BY DEF SetLiveCards
<1>5. GoodCalm(table, t)
    BY <1>1, <1>2, SetLiveGood DEF SetLiveCards
<1> QED BY <1>2, <1>5, CalmKept

LEMMA YellKept ==
    ASSUME IInv, NEW n, NEW m, Yell(n, m)
    PROVE  Kept' /\ Leaves /\ Stays(table, table')
<1>1. Whole(table, {}) /\ Sound(table) /\ table \in Table
    BY DEF IInv, Whole
<1>2. PICK t \in Deals(table, n, FALSE, "resolution_area") :
          \E u \in Deals(t, m, TRUE, "hand") : Becomes(u)
    BY DEF Yell
<1>3. PICK u \in Deals(t, m, TRUE, "hand") : Becomes(u)
    BY <1>2
<1>5. GoodCalm(table, u)
    BY <1>1, YellGood
<1> QED BY <1>3, <1>5, CalmKept

LEMMA FinishKept ==
    ASSUME IInv, FinishLiveJudgment
    PROVE  Kept' /\ Leaves /\ Stays(table, table')
<1>1. Whole(table, {}) /\ Sound(table) /\ table \in Table
    BY DEF IInv, Whole
<1>5. GoodCalm(table, [table EXCEPT !.zone["live_area"] = {}, !.zone["resolution_area"] = {},
              !.zone["waiting_room"] = @ \cup (table.zone["live_area"]
                                         \cup table.zone["resolution_area"])])
    BY <1>1, CleanupGood
<1> QED BY <1>5, CalmKept DEF FinishLiveJudgment

LEMMA DiscardKept ==
    ASSUME IInv, NEW c, DiscardCard(c)
    PROVE  Kept' /\ Leaves /\ Stays(table, table')
<1>1. Whole(table, {}) /\ Sound(table) /\ table \in Table
    BY DEF IInv, Whole
<1>5. GoodCalm(table, Move(table, "hand", "waiting_room", {c}))
    BY <1>1, MoveGood DEF DiscardCard, Zone
<1> QED BY <1>5, CalmKept DEF DiscardCard

LEMMA ReturnKept ==
    ASSUME IInv, NEW c, ReturnFromWaitingRoom(c)
    PROVE  Kept' /\ Leaves /\ Stays(table, table')
<1>1. Whole(table, {}) /\ Sound(table) /\ table \in Table
    BY DEF IInv, Whole
<1>5. GoodCalm(table, Move(table, "waiting_room", "hand", {c}))
    BY <1>1, MoveGood DEF ReturnFromWaitingRoom, Zone
<1> QED BY <1>5, CalmKept DEF ReturnFromWaitingRoom

LEMMA MoveToZoneKept ==
    ASSUME IInv, NEW c \in Card, NEW z \in Zone, MoveToZone(c, z)
    PROVE  Kept' /\ Leaves /\ Stays(table, table')
<1>1. Whole(table, {}) /\ Sound(table) /\ table \in Table
    BY DEF IInv, Whole
<1>2. CASE c \in Tops(table)
    <2>1. GoodCalm(table, ClearDeparted(
              Put(Lift(CleanAttachments(table, SlotOf(table, c)), c), z, {c}), {c}))
        BY <1>1, <1>2, LiftTopGood
    <2> QED BY <1>2, <2>1, CalmKept DEF MoveToZone
<1>3. CASE c \notin Tops(table)
    <2>1. GoodCalm(table, Put(Lift(table, c), z, {c}))
        BY <1>1, <1>3, LiftPutGood DEF MoveToZone
    <2> QED BY <1>3, <2>1, CalmKept DEF MoveToZone
<1> QED BY <1>2, <1>3

LEMMA MoveToAreaKept ==
    ASSUME IInv, NEW c \in Card, NEW s \in Slot, MoveToArea(c, s)
    PROVE  /\ Kept' /\ Leaves
           /\ IF c \in Tops(table) THEN Stays(table, table') ELSE Comes(table, table', c, s)
<1>1. Whole(table, {}) /\ Sound(table) /\ table \in Table
    BY DEF IInv, Whole
<1>2. CASE c \in Tops(table)
    <2>1. GoodCalm(table, Swap(table, SlotOf(table, c), s))
        BY <1>1, <1>2, SlotOfTop, SwapGood
    <2> QED BY <1>2, <2>1, CalmKept DEF MoveToArea
<1>3. CASE c \notin Tops(table)
    <2>1. Whole(Lift(table, c), {c}) /\ SameStage(table, Lift(table, c))
        BY <1>1, <1>3, LiftSame DEF MoveToArea
    <2>2. GoodEntry(table, [Lift(table, c) EXCEPT !.area[s] = c], c, s)
        BY <1>1, <2>1, EnterGood DEF MoveToArea
    <2> QED BY <1>3, <2>2, EntryKept DEF MoveToArea
<1> QED BY <1>2, <1>3

LEMMA AttachKept ==
    ASSUME IInv, NEW c, NEW z \in Zone, NEW s \in Slot, AttachUnder(c, z, s)
    PROVE  Kept' /\ Leaves /\ Comes(table, table', c, s)
<1>1. Whole(table, {}) /\ Sound(table) /\ table \in Table
    BY DEF IInv, Whole
<1>5. GoodEntry(table, [Take(table, z, {c}) EXCEPT !.under[s] = @ \cup {c}], c, s)
    BY <1>1, AttachGood DEF AttachUnder
<1> QED BY <1>5, EntryKept DEF AttachUnder

LEMMA DetachKept ==
    ASSUME IInv, NEW c, NEW z \in Zone, DetachCard(c, z)
    PROVE  Kept' /\ Leaves /\ Stays(table, table')
<1>1. Whole(table, {}) /\ Sound(table) /\ table \in Table
    BY DEF IInv, Whole
<1> DEFINE v == Put([table EXCEPT !.under[UnderOf(table, c)] = @ \ {c}], z, {c})
<1>2. c \in Attached(table)
    BY DEF DetachCard
<1>3. Becomes(IF c \in Member THEN ClearDeparted(v, {c}) ELSE v)
    BY DEF DetachCard
<1>5. GoodCalm(table, IF c \in Member THEN ClearDeparted(v, {c}) ELSE v)
    BY <1>1, <1>2, DetachGood
<1> HIDE DEF v
<1> QED BY <1>3, <1>5, CalmKept

LEMMA PromoteKept ==
    ASSUME IInv, NEW c, NEW s \in Slot, PromoteAttached(c, s)
    PROVE  Kept' /\ Leaves /\ Stays(table, table')
<1>1. Whole(table, {}) /\ Sound(table) /\ table \in Table
    BY DEF IInv, Whole
<1>5. GoodCalm(table, [table EXCEPT !.under[UnderOf(table, c)] = @ \ {c}, !.area[s] = c])
    BY <1>1, PromoteGood DEF PromoteAttached
<1> QED BY <1>5, CalmKept DEF PromoteAttached

LEMMA PositionKept ==
    ASSUME IInv, NEW s \in Slot, NEW r \in Slot, PositionChange(s, r)
    PROVE  Kept' /\ Leaves /\ Stays(table, table')
<1>1. Whole(table, {}) /\ Sound(table) /\ table \in Table
    BY DEF IInv, Whole
<1>5. GoodCalm(table, Swap(table, s, r))
    BY <1>1, SwapGood
<1> QED BY <1>5, CalmKept DEF PositionChange

LEMMA InspectKept ==
    ASSUME IInv, NEW n, NEW by, InspectTopCards(n, by)
    PROVE  Kept' /\ Leaves /\ Stays(table, table')
<1>1. Whole(table, {}) /\ Sound(table) /\ table \in Table
    BY DEF IInv, Whole
<1>2. PICK t \in Deals(table, n, FALSE, "resolution_area") : Becomes(t)
    BY DEF InspectTopCards
<1>5. GoodCalm(table, t)
    BY <1>1, <1>2, DealsGood
<1> QED BY <1>2, <1>5, CalmKept

LEMMA ResolveKept ==
    ASSUME IInv, NEW C \in SUBSET choice.cards, NEW y \in {"hand", "waiting_room", "main_deck"},
           NEW z, ResolveInspection(C, y, z)
    PROVE  Kept' /\ Leaves /\ Stays(table, table')
<1>1. Whole(table, {}) /\ Sound(table) /\ table \in Table
    BY DEF IInv, Whole
<1>2. y \in Zone /\ z \in Zone /\ y # "resolution_area"
    BY DEF ResolveInspection, Zone
<1>5. GoodCalm(table, Move(Move(table, "resolution_area", y, C),
                       "resolution_area", z, choice.cards \ C))
    BY <1>1, <1>2, ResolveGood DEF ResolveInspection
<1> QED BY <1>5, CalmKept DEF ResolveInspection

LEMMA SkipInspectionKept ==
    ASSUME IInv, SkipInspection
    PROVE  Kept' /\ Leaves /\ Stays(table, table')
<1>1. Whole(table, {}) /\ Sound(table) /\ table \in Table
    BY DEF IInv, Whole
<1>5. GoodCalm(table, Move(table, "resolution_area", "waiting_room",
                       choice.cards \cap table.zone["resolution_area"]))
    BY <1>1, MoveGood DEF Zone
<1> QED BY <1>5, CalmKept DEF SkipInspection

LEMMA SourceKept ==
    ASSUME IInv, NEW s \in Slot, SourceToWaitingRoom(s)
    PROVE  Kept' /\ Leaves /\ Stays(table, table')
<1>1. Whole(table, {}) /\ Sound(table) /\ table \in Table
    BY DEF IInv, Whole
<1>5. GoodCalm(table, OffStage(table, s))
    BY <1>1, OffStageGood DEF SourceToWaitingRoom
<1> QED BY <1>5, CalmKept DEF SourceToWaitingRoom

LEMMA DeployOverKept ==
    ASSUME IInv, NEW c, NEW z \in Zone, NEW s \in Slot, DeployOver(c, z, s)
    PROVE  Kept' /\ Leaves /\ Comes(table, table', c, s)
<1>1. Whole(table, {}) /\ Sound(table) /\ table \in Table
    BY DEF IInv, Whole
<1>5. GoodEntry(table, Replace(Take(table, z, {c}), s, c), c, s)
    BY <1>1, ReplaceGood DEF DeployOver
<1> QED BY <1>5, EntryKept DEF DeployOver

LEMMA DeployEmptyKept ==
    ASSUME IInv, NEW c, NEW z \in Zone, NEW s \in Slot, DeployToEmpty(c, z, s)
    PROVE  Kept' /\ Leaves /\ Comes(table, table', c, s)
<1>1. Whole(table, {}) /\ Sound(table) /\ table \in Table
    BY DEF IInv, Whole
<1>2. Whole(Take(table, z, {c}), {c}) /\ SameStage(table, Take(table, z, {c}))
    <2>1. {} \cup {c} = {c} /\ {c} \in SUBSET table.zone[z] /\ {c} \in SUBSET Card
        BY <1>1 DEF DeployToEmpty, Table
    <2>2. Whole(Take(table, z, {c}), {} \cup {c})
        BY <1>1, <2>1, TakeWhole
    <2> QED BY <1>1, <2>1, <2>2, TakeFields
<1>5. GoodEntry(table, [Take(table, z, {c}) EXCEPT !.area[s] = c], c, s)
    BY <1>1, <1>2, EnterGood DEF DeployToEmpty
<1> QED BY <1>5, EntryKept DEF DeployToEmpty

LEMMA ReturnBatonKept ==
    ASSUME IInv, NEW e \in replaced, ReturnBatonReplaced(e)
    PROVE  Kept' /\ Leaves /\ Stays(table, table')
<1>1. Whole(table, {}) /\ Sound(table) /\ table \in Table
    BY DEF IInv, Whole
<1>5. GoodCalm(table, Move(table, "waiting_room", "hand", {e[2]}))
    BY <1>1, MoveGood DEF ReturnBatonReplaced, Zone
<1> QED BY <1>5, CalmKept DEF ReturnBatonReplaced

LEMMA AttachBatonKept ==
    ASSUME IInv, NEW e \in replaced, AttachBatonReplaced(e)
    PROVE  Kept' /\ Leaves /\ Comes(table, table', e[2], SlotOf(table, e[1]))
<1>1. Whole(table, {}) /\ Sound(table) /\ table \in Table
    BY DEF IInv, Whole
<1>2. /\ SlotOf(table, e[1]) \in Slot
      /\ table.area[SlotOf(table, e[1])] # Nothing
      /\ "waiting_room" \in Zone /\ e[2] \in table.zone["waiting_room"]
    BY SlotOfTop DEF AttachBatonReplaced, Zone
<1>5. GoodEntry(table, [Take(table, "waiting_room", {e[2]})
                       EXCEPT !.under[SlotOf(table, e[1])] = @ \cup {e[2]}],
                 e[2], SlotOf(table, e[1]))
    BY <1>1, <1>2, AttachGood
<1> QED BY <1>5, EntryKept DEF AttachBatonReplaced

LEMMA SkipEffectKept ==
    ASSUME IInv, NEW e, SkipEffect(e)
    PROVE  Kept' /\ Leaves /\ Stays(table, table')
<1>1. table' = table /\ arrived' = arrived /\ readied' = readied
    BY DEF SkipEffect
<1>2. Kept
    BY DEF Kept, IInv, TypeOK
<1> QED BY <1>1, <1>2 DEF Kept, Leaves, Stays, On

LEMMA ModifierKept ==
    ASSUME IInv, NEW c \in Member, GainModifier(c)
    PROVE  Kept' /\ Leaves /\ Stays(table, table')
<1>1. Whole(table, {}) /\ Sound(table) /\ table \in Table
    BY DEF IInv, Whole
<1>5. GoodCalm(table, [table EXCEPT !.mods = @ \cup {c}])
    BY <1>1, ModifierGood
<1> QED BY <1>5, CalmKept DEF GainModifier

(* The variables the table does not hold. *)
LEMMA RestKept ==
    ASSUME IInv, Next
    PROVE  Rest'
<1> USE DEF Rest
<1>1. /\ table \in Table /\ Member \subseteq Card /\ "resolution_area" \in Zone
      /\ Rest /\ "main" \in Parts /\ "live" \in Parts /\ "complete" \in Parts
    BY DEF IInv, TypeOK, Card, Zone, Parts
<1>2. NoChoice \in [by : {"none", "manual", "effect"}, cards : SUBSET Card]
    BY DEF NoChoice
<1>3. ASSUME NEW C \in SUBSET Card,
             SubmitMulligan(C) \/ MoveEnergyToArea(C) \/ SetLiveCards(C)
      PROVE  Rest'
    BY <1>1, <1>3 DEF SubmitMulligan, MoveEnergyToArea, SetLiveCards
<1>4. ASSUME NEW C, NEW y, NEW z, ResolveInspection(C, y, z) \/ SkipInspection
                                  \/ FinishLiveJudgment
      PROVE  Rest'
    BY <1>1, <1>2, <1>4 DEF ResolveInspection, SkipInspection, FinishLiveJudgment
<1>5. ASSUME StartNextTurn PROVE Rest'
    BY <1>1, <1>2, <1>5 DEF StartNextTurn
<1>6. ASSUME NEW n, NEW m, Draw(n) \/ Yell(n, m) PROVE Rest'
    BY <1>1, <1>6 DEF Draw, Yell
<1>7. ASSUME NEW n, NEW by \in {"manual", "effect"}, InspectTopCards(n, by) PROVE Rest'
    <2>1. PICK t \in Deals(table, n, FALSE, "resolution_area") :
              /\ Becomes(t)
              /\ choice' = [by |-> by, cards |-> t.zone["resolution_area"]
                                                    \ table.zone["resolution_area"]]
        BY <1>7 DEF InspectTopCards
    <2>2. Whole(t, {})
        BY <2>1, DealsWhole DEF IInv
    <2>3. t.zone["resolution_area"] \subseteq Card
        BY <2>2, <1>1 DEF Whole, Table
    <2> QED BY <1>1, <1>7, <2>1, <2>3 DEF InspectTopCards
<1>8. ASSUME NEW s, NEW r, SourceToWaitingRoom(s) \/ PositionChange(s, r) PROVE Rest'
    BY <1>1, <1>8 DEF SourceToWaitingRoom, PositionChange
<1>9. ASSUME NEW c, NEW z, \/ MoveToZone(c, z) \/ DetachCard(c, z)
                           \/ DiscardCard(c) \/ ReturnFromWaitingRoom(c)
      PROVE  Rest'
    BY <1>1, <1>9 DEF MoveToZone, DetachCard, DiscardCard, ReturnFromWaitingRoom
<1>10. ASSUME NEW c, NEW z, NEW s, AttachUnder(c, z, s) PROVE Rest'
    BY <1>1, <1>10 DEF AttachUnder, Enters
<1>11. ASSUME NEW c, GainModifier(c) \/ ReadyMember(c) PROVE Rest'
    BY <1>1, <1>11 DEF GainModifier, ReadyMember
<1>12. ASSUME NEW c \in Member, NEW s, PlayMember(c, s) PROVE Rest'
    BY <1>1, <1>12 DEF PlayMember, Enters
<1>13. ASSUME NEW c \in Member, NEW s \in Slot, BatonTouch(c, s) PROVE Rest'
    <2>1. table.area[s] \in Member
        BY <1>1, <1>13 DEF BatonTouch, Table
    <2> QED BY <1>1, <1>13, <2>1 DEF BatonTouch, Enters
<1>14. ASSUME NEW c \in Member, NEW z, NEW s, \/ MoveToArea(c, s) \/ PromoteAttached(c, s)
                                              \/ DeployOver(c, z, s) \/ DeployToEmpty(c, z, s)
       PROVE  Rest'
    BY <1>1, <1>14 DEF MoveToArea, PromoteAttached, DeployOver, DeployToEmpty, Enters
<1>15. ASSUME NEW e \in replaced, \/ ReturnBatonReplaced(e) \/ AttachBatonReplaced(e)
                                  \/ SkipEffect(e)
       PROVE  Rest'
    BY <1>1, <1>15 DEF ReturnBatonReplaced, AttachBatonReplaced, SkipEffect, Enters
<1> QED
    BY <1>3, <1>4, <1>5, <1>6, <1>7, <1>8, <1>9, <1>10, <1>11, <1>12, <1>13, <1>14, <1>15
    DEF Next

LEMMA NextKept ==
    ASSUME IInv, Next
    PROVE  Kept' /\ Leaves
<1>1. "hand" \in Zone /\ "waiting_room" \in Zone /\ Member \subseteq Card
    BY DEF Zone, Card
<1>2. CASE \E C \in SUBSET Card : SubmitMulligan(C) \/ MoveEnergyToArea(C) \/ SetLiveCards(C)
    BY <1>2, MulliganKept, EnergyKept, SetLiveKept
<1>3. CASE \E C \in SUBSET choice.cards, y, z \in {"hand", "waiting_room", "main_deck"} :
              ResolveInspection(C, y, z)
    BY <1>3, ResolveKept
<1>4. CASE FinishLiveJudgment \/ StartNextTurn \/ SkipInspection
    BY <1>4, FinishKept, NextTurnKept, SkipInspectionKept
<1>5. CASE \E n \in 1 .. MaxDeal : \/ Draw(n)
                                   \/ \E m \in 0 .. n : Yell(n, m)
                                   \/ \E by \in {"manual", "effect"} : InspectTopCards(n, by)
    BY <1>5, DrawKept, YellKept, InspectKept
<1>6. CASE \E s \in Slot : \/ SourceToWaitingRoom(s)
                           \/ \E u \in Slot : PositionChange(s, u)
    BY <1>6, SourceKept, PositionKept
<1>7. CASE \E c \in Card :
              \/ \E z \in Zone : MoveToZone(c, z) \/ DetachCard(c, z)
              \/ DiscardCard(c)
              \/ ReturnFromWaitingRoom(c)
              \/ \E z \in Zone, s \in Slot : AttachUnder(c, z, s)
    BY <1>7, MoveToZoneKept, DetachKept, DiscardKept, ReturnKept, AttachKept
<1>8. CASE \E c \in Member : GainModifier(c) \/ ReadyMember(c)
    BY <1>8, ModifierKept, ReadyKept
<1>9. CASE \E c \in Member, s \in Slot :
              \/ PlayMember(c, s) \/ BatonTouch(c, s) \/ MoveToArea(c, s)
              \/ PromoteAttached(c, s)
    BY <1>1, <1>9, PlayKept, BatonKept, MoveToAreaKept, PromoteKept
<1>10. CASE \E c \in Member, s \in Slot, z \in {"hand", "waiting_room"} :
               DeployOver(c, z, s) \/ DeployToEmpty(c, z, s)
    BY <1>1, <1>10, DeployOverKept, DeployEmptyKept
<1>11. CASE \E e \in replaced :
               ReturnBatonReplaced(e) \/ AttachBatonReplaced(e) \/ SkipEffect(e)
    BY <1>11, ReturnBatonKept, AttachBatonKept, SkipEffectKept
<1> QED
    BY <1>2, <1>3, <1>4, <1>5, <1>6, <1>7, <1>8, <1>9, <1>10, <1>11 DEF Next

LEMMA StepIInv ==
    ASSUME IInv, [Next]_vars
    PROVE  IInv' /\ Leaves
<1>1. CASE Next
    <2>1. Kept' /\ Leaves /\ Rest'
        BY <1>1, NextKept, RestKept
    <2>2. (table \in Table)'
        BY <2>1 DEF Kept, Whole
    <2> QED BY <2>1, <2>2 DEF Kept, Rest, IInv, TypeOK
<1>2. CASE UNCHANGED vars
    BY <1>2 DEF vars, IInv, Leaves, TypeOK, Kept
<1> QED BY <1>1, <1>2

-----------------------------------------------------------------------------
(* The theorems.                                                            *)

LEMMA Invariant == Spec => []IInv
<1>1. Init => IInv
    BY InitIInv
<1>2. IInv /\ [Next]_vars => IInv'
    BY StepIInv
<1> QED BY <1>1, <1>2, PTL DEF Spec

(* The variables keep their types. *)
THEOREM ZonesTypeCorrect == Spec => []TypeOK
<1>1. IInv => TypeOK
    BY DEF IInv
<1> QED BY <1>1, Invariant, PTL

(* Whatever the requests, and whichever cards an effect names late, no card *)
(* of the player is ever lost or in two places.                             *)
THEOREM CardsConserved == Spec => []Conserved
<1>1. IInv => Conserved
    BY DEF IInv, Whole, Conserved
<1> QED BY <1>1, Invariant, PTL

(* No request leaves cards attached where there is no member on top.        *)
THEOREM StageAlwaysSound == Spec => []StageSound
<1>1. IInv => StageSound
    BY DEF IInv, Sound, StageSound
<1> QED BY <1>1, Invariant, PTL

(* The members counted as readied by an effect of the turn are those that   *)
(* were readied since they came to the stage.                               *)
THEOREM ReadiedCountsThisStay == Spec => []ReadiedThisStay
<1>1. IInv => ReadiedThisStay
    <2> SUFFICES ASSUME IInv PROVE EffectReadied(table) = readied
        BY DEF ReadiedThisStay
    <2>1. /\ Objects(table, readied) /\ table \in Table
          /\ Tops(table) \subseteq Member
        BY DEF IInv, Whole, Tops, Table
    <2>2. ASSUME NEW c \in Tops(table)
          PROVE  <<c, table.object[c]>> \in table.events <=> c \in readied
        <3>1. c \in Member /\ table.object[c] \in Nat
            BY <2>1, <2>2 DEF Table
        <3>2. <<c, NoToken>> \notin table.events
            BY <2>1, <3>1 DEF Objects, NoToken
        <3> QED BY <2>1, <3>1, <3>2 DEF Objects
    <2> QED BY <2>1, <2>2 DEF EffectReadied, Objects
<1> QED BY <1>1, Invariant, PTL

(* A member that leaves the stage, by any route, leaves no modifier and no  *)
(* object of its stay behind.                                               *)
THEOREM DeparturesClear == Spec => DepartureClears
<1>1. IInv /\ [Next]_vars =>
          [\A c \in Staged(table) \ Staged(table') :
               c \notin table'.mods /\ table'.object[c] = NoToken]_vars
    BY StepIInv DEF Leaves
<1> QED BY <1>1, Invariant, PTL DEF Spec, DepartureClears
-----------------------------------------------------------------------------
(* The members that came to the stage this turn.                            *)

(* The auxiliary variable grows by the members that come, at most. *)
Grows == arrived' \subseteq arrived \cup (Staged(table') \ Staged(table))

(* Nobody who came this turn is sent off by a member from hand or waiting room. *)
Protected ==
    \A s \in Slot :
        LET c == table'.area[s] IN
        c \in (table.zone["hand"] \cup table.zone["waiting_room"]) =>
            arrived \cap ({table.area[s]} \cup table.under[s]) \subseteq Staged(table')

(* A card in the hand or the waiting room is not on the stage. *)
LEMMA OffStageInZone ==
    ASSUME IInv, NEW c \in table.zone["hand"] \cup table.zone["waiting_room"]
    PROVE  c \in Card /\ c # Nothing /\ ~On(table, c)
<1>1. "hand" \in Zone /\ "waiting_room" \in Zone /\ table \in Table
    BY DEF Zone, IInv, TypeOK
<1>2. c \in Card /\ c # Nothing
    BY <1>1, CardAssumption DEF Table
<1>3. Once(table, c)
    BY <1>2 DEF IInv, Whole
<1> QED BY <1>1, <1>2, <1>3 DEF Once, On

LEMMA CalmProtects ==
    ASSUME IInv, Kept', arrived \subseteq entered, Grows, Stays(table, table'),
           entered \subseteq entered'
    PROVE  arrived' \subseteq entered' /\ Protected
<1>1. table \in Table /\ table' \in Table
    BY DEF IInv, TypeOK, Kept, Whole
<1>2. Staged(table') \subseteq Staged(table)
    <2> SUFFICES ASSUME NEW d \in Staged(table') PROVE d \in Staged(table)
        OBVIOUS
    <2>1. d \in Member
        BY DEF Staged
    <2> QED BY <1>1, <2>1, StagedOn DEF Stays
<1>3. arrived' \subseteq entered'
    BY <1>2 DEF Grows
<1>4. ASSUME NEW s \in Slot,
             table'.area[s] \in table.zone["hand"] \cup table.zone["waiting_room"]
      PROVE  FALSE
    <2>1. table'.area[s] # Nothing /\ ~On(table, table'.area[s])
        BY <1>4, OffStageInZone
    <2>2. table'.area[s] \in Member /\ On(table', table'.area[s])
        BY <1>1, <2>1 DEF Table, On
    <2> QED BY <2>1, <2>2 DEF Stays
<1> QED BY <1>3, <1>4 DEF Protected

LEMMA EntryProtects ==
    ASSUME IInv, Kept', arrived \subseteq entered, Grows,
           NEW c, NEW s, Comes(table, table', c, s),
           entered \subseteq entered', c \in Member => c \in entered',
           \/ table'.area[s] = table.area[s]
           \/ arrived \cap ({table.area[s]} \cup table.under[s]) = {}
    PROVE  arrived' \subseteq entered' /\ Protected
<1>1. table \in Table /\ table' \in Table
    BY DEF IInv, TypeOK, Kept, Whole
<1>2. Staged(table') \subseteq Staged(table) \cup {c}
    <2> SUFFICES ASSUME NEW d \in Staged(table') PROVE d \in Staged(table) \/ d = c
        OBVIOUS
    <2>1. d \in Member
        BY DEF Staged
    <2> QED BY <1>1, <2>1, StagedOn DEF Comes
<1>3. arrived' \subseteq entered'
    <2>1. c \in Staged(table') => c \in entered'
        BY DEF Staged
    <2> QED BY <1>2, <2>1 DEF Grows
<1>4. ASSUME NEW r \in Slot,
             table'.area[r] \in table.zone["hand"] \cup table.zone["waiting_room"]
      PROVE  arrived \cap ({table.area[r]} \cup table.under[r]) = {}
    <2>1. ~On(table, table'.area[r])
        BY <1>4, OffStageInZone
    <2>2. table'.area[r] # table.area[r]
        BY <2>1 DEF On
    <2>3. r = s
        BY <2>2 DEF Comes
    <2> QED BY <2>2, <2>3
<1> QED BY <1>3, <1>4 DEF Protected

(* An area that a member may enter holds nobody who came this turn, for all *)
(* of them are recorded; nor does an empty area.                            *)
LEMMA NotBlocked ==
    ASSUME IInv, arrived \subseteq entered, NEW s \in Slot, ~BlocksEntry(table, entered, s)
    PROVE  arrived \cap ({table.area[s]} \cup table.under[s]) = {}
BY DEF BlocksEntry

LEMMA EmptyArea ==
    ASSUME IInv, NEW s \in Slot, table.area[s] = Nothing
    PROVE  arrived \cap ({table.area[s]} \cup table.under[s]) = {}
<1>1. arrived \subseteq Member /\ Nothing \notin Member /\ table.under[s] = {}
    BY CardAssumption DEF IInv, TypeOK, Sound, Card
<1> QED BY <1>1

LEMMA CardsOfActions ==
    ASSUME IInv
    PROVE  /\ "hand" \in Zone /\ "waiting_room" \in Zone /\ Member \subseteq Card
           /\ \A e \in replaced : e[1] \in Member /\ e[2] \in Member
BY DEF Zone, Card, IInv, TypeOK

(* The steps that bring nobody. *)
LEMMA CalmStep ==
    ASSUME IInv, arrived \subseteq entered,
           Kept' /\ Stays(table, table'), Grows, entered' = entered
    PROVE  arrived' \subseteq entered' /\ Protected
BY CalmProtects

LEMMA PlayProtects ==
    ASSUME IInv, arrived \subseteq entered, NEW c \in Member, NEW s \in Slot,
           PlayMember(c, s) \/ BatonTouch(c, s)
    PROVE  arrived' \subseteq entered' /\ Protected
<1>1. Kept' /\ Comes(table, table', c, s)
    BY PlayKept, BatonKept
<1>2. Grows /\ c \in entered' /\ entered \subseteq entered'
    BY DEF PlayMember, BatonTouch, Becomes, Enters, Grows
<1>3. arrived \cap ({table.area[s]} \cup table.under[s]) = {}
    BY NotBlocked DEF PlayMember, BatonTouch
<1> QED BY <1>1, <1>2, <1>3, EntryProtects

LEMMA DeployProtects ==
    ASSUME IInv, arrived \subseteq entered, NEW c \in Member, NEW s \in Slot,
           NEW z \in {"hand", "waiting_room"}, DeployOver(c, z, s) \/ DeployToEmpty(c, z, s)
    PROVE  arrived' \subseteq entered' /\ Protected
<1>1. Kept' /\ Comes(table, table', c, s)
    BY DeployOverKept, DeployEmptyKept, CardsOfActions
<1>2. Grows /\ c \in entered' /\ entered \subseteq entered'
    BY DEF DeployOver, DeployToEmpty, Becomes, Enters, Grows
<1>3. arrived \cap ({table.area[s]} \cup table.under[s]) = {}
    BY NotBlocked, EmptyArea DEF DeployOver, DeployToEmpty
<1> QED BY <1>1, <1>2, <1>3, EntryProtects

LEMMA MoveToAreaProtects ==
    ASSUME IInv, arrived \subseteq entered, NEW c \in Member, NEW s \in Slot, MoveToArea(c, s)
    PROVE  arrived' \subseteq entered' /\ Protected
<1>1. /\ Kept' /\ c \in Card
      /\ IF c \in Tops(table) THEN Stays(table, table') ELSE Comes(table, table', c, s)
    BY MoveToAreaKept, CardsOfActions
<1>2. Grows
    BY DEF MoveToArea, Becomes, Grows
<1>3. CASE c \in Tops(table)
    <2>1. entered' = entered
        BY <1>3 DEF MoveToArea
    <2> QED BY <1>1, <1>2, <1>3, <2>1, CalmStep
<1>4. CASE c \notin Tops(table)
    <2>1. c \in entered' /\ entered \subseteq entered'
        BY <1>4 DEF MoveToArea, Enters
    <2>2. arrived \cap ({table.area[s]} \cup table.under[s]) = {}
        BY EmptyArea DEF MoveToArea
    <2> QED BY <1>1, <1>2, <1>4, <2>1, <2>2, EntryProtects
<1> QED BY <1>3, <1>4

LEMMA AttachProtects ==
    ASSUME IInv, arrived \subseteq entered, NEW c \in Card, NEW z \in Zone, NEW s \in Slot,
           AttachUnder(c, z, s)
    PROVE  arrived' \subseteq entered' /\ Protected
<1>1. Kept' /\ Comes(table, table', c, s)
    BY AttachKept
<1>2. Grows /\ entered \subseteq entered' /\ (c \in Member => c \in entered')
    BY CardAssumption DEF AttachUnder, Becomes, Enters, Grows
<1>3. table'.area[s] = table.area[s]
    <2>1. table' = [Take(table, z, {c}) EXCEPT !.under[s] = @ \cup {c}] /\ table \in Table
        BY DEF AttachUnder, Becomes, IInv, TypeOK
    <2> QED BY <2>1 DEF Take, Table
<1> QED BY <1>1, <1>2, <1>3, EntryProtects

LEMMA AttachBatonProtects ==
    ASSUME IInv, arrived \subseteq entered, NEW e \in replaced, AttachBatonReplaced(e)
    PROVE  arrived' \subseteq entered' /\ Protected
<1> DEFINE s == SlotOf(table, e[1])
<1>1. Kept' /\ Comes(table, table', e[2], s)
    BY AttachBatonKept
<1>2. Grows /\ entered \subseteq entered' /\ e[2] \in entered'
    BY DEF AttachBatonReplaced, Becomes, Enters, Grows
<1>3. table'.area[s] = table.area[s]
    <2>1. /\ table' = [Take(table, "waiting_room", {e[2]}) EXCEPT !.under[s] = @ \cup {e[2]}]
          /\ table \in Table
        BY DEF AttachBatonReplaced, Becomes, IInv, TypeOK
    <2> HIDE DEF s
    <2> QED BY <2>1 DEF Take, Table
<1> HIDE DEF s
<1> QED BY <1>1, <1>2, <1>3, EntryProtects

LEMMA ArrivalStep ==
    ASSUME IInv, arrived \subseteq entered, Next
    PROVE  arrived' \subseteq entered' /\ Protected
<1>1. ASSUME NEW C \in SUBSET Card,
             SubmitMulligan(C) \/ MoveEnergyToArea(C) \/ SetLiveCards(C)
      PROVE  arrived' \subseteq entered' /\ Protected
    <2>1. Kept' /\ Stays(table, table')
        BY <1>1, MulliganKept, EnergyKept, SetLiveKept
    <2>2. Grows /\ entered' = entered
        BY <1>1 DEF SubmitMulligan, MoveEnergyToArea, SetLiveCards, Becomes, Grows
    <2> QED BY <2>1, <2>2, CalmStep
<1>2. ASSUME NEW C \in SUBSET choice.cards, NEW y \in {"hand", "waiting_room", "main_deck"},
             NEW z, ResolveInspection(C, y, z) \/ SkipInspection \/ FinishLiveJudgment
      PROVE  arrived' \subseteq entered' /\ Protected
    <2>1. Kept' /\ Stays(table, table')
        BY <1>2, ResolveKept, SkipInspectionKept, FinishKept
    <2>2. Grows /\ entered' = entered
        BY <1>2 DEF ResolveInspection, SkipInspection, FinishLiveJudgment, Becomes, Grows
    <2> QED BY <2>1, <2>2, CalmStep
<1>3. CASE StartNextTurn
    <2>1. arrived' = {} /\ Kept' /\ Stays(table, table')
        BY <1>3, NextTurnKept DEF StartNextTurn
    <2>2. ASSUME NEW s \in Slot,
                 table'.area[s] \in table.zone["hand"] \cup table.zone["waiting_room"]
          PROVE  FALSE
        <3>1. table'.area[s] = table.area[s]
            BY <1>3 DEF StartNextTurn, IInv, TypeOK, Table
        <3> QED BY <2>2, <3>1, OffStageInZone DEF On
    <2> QED BY <2>1, <2>2 DEF Protected
<1>4. ASSUME NEW n, NEW m, NEW by, Draw(n) \/ Yell(n, m) \/ InspectTopCards(n, by)
      PROVE  arrived' \subseteq entered' /\ Protected
    <2>1. Kept' /\ Stays(table, table')
        BY <1>4, DrawKept, YellKept, InspectKept
    <2>2. Grows /\ entered' = entered
        BY <1>4 DEF Draw, Yell, InspectTopCards, Becomes, Grows
    <2> QED BY <2>1, <2>2, CalmStep
<1>5. ASSUME NEW s \in Slot, NEW r \in Slot, SourceToWaitingRoom(s) \/ PositionChange(s, r)
      PROVE  arrived' \subseteq entered' /\ Protected
    <2>1. Kept' /\ Stays(table, table')
        BY <1>5, SourceKept, PositionKept
    <2>2. Grows /\ entered' = entered
        BY <1>5 DEF SourceToWaitingRoom, PositionChange, Becomes, Grows
    <2> QED BY <2>1, <2>2, CalmStep
<1>6. ASSUME NEW c \in Card, NEW z \in Zone, \/ MoveToZone(c, z) \/ DetachCard(c, z)
                                             \/ DiscardCard(c) \/ ReturnFromWaitingRoom(c)
      PROVE  arrived' \subseteq entered' /\ Protected
    <2>1. Kept' /\ Stays(table, table')
        BY <1>6, MoveToZoneKept, DetachKept, DiscardKept, ReturnKept
    <2>2. Grows /\ entered' = entered
        BY <1>6 DEF MoveToZone, DetachCard, DiscardCard, ReturnFromWaitingRoom, Becomes, Grows
    <2> QED BY <2>1, <2>2, CalmStep
<1>7. ASSUME NEW c \in Member, \/ GainModifier(c) \/ ReadyMember(c)
                                \/ \E s \in Slot : PromoteAttached(c, s)
      PROVE  arrived' \subseteq entered' /\ Protected
    <2>1. Kept' /\ Stays(table, table')
        BY <1>7, ModifierKept, ReadyKept, PromoteKept
    <2>2. Grows /\ entered' = entered
        BY <1>7 DEF GainModifier, ReadyMember, PromoteAttached, Becomes, Grows
    <2> QED BY <2>1, <2>2, CalmStep
<1>8. ASSUME NEW e \in replaced, ReturnBatonReplaced(e) \/ SkipEffect(e)
      PROVE  arrived' \subseteq entered' /\ Protected
    <2>1. Kept' /\ Stays(table, table')
        BY <1>8, ReturnBatonKept, SkipEffectKept
    <2>2. Grows /\ entered' = entered
        BY <1>8 DEF ReturnBatonReplaced, SkipEffect, Becomes, Grows
    <2> QED BY <2>1, <2>2, CalmStep
<1>9. CASE \E C \in SUBSET Card : SubmitMulligan(C) \/ MoveEnergyToArea(C) \/ SetLiveCards(C)
    BY <1>1, <1>9
<1>10. CASE \E C \in SUBSET choice.cards, y, z \in {"hand", "waiting_room", "main_deck"} :
                ResolveInspection(C, y, z)
    BY <1>2, <1>10
<1>11. CASE FinishLiveJudgment \/ SkipInspection
    <2>1. {} \in SUBSET choice.cards /\ "hand" \in {"hand", "waiting_room", "main_deck"}
        OBVIOUS
    <2> QED BY <1>2, <1>11, <2>1
<1>12. CASE \E n \in 1 .. MaxDeal : \/ Draw(n)
                                    \/ \E m \in 0 .. n : Yell(n, m)
                                    \/ \E by \in {"manual", "effect"} : InspectTopCards(n, by)
    BY <1>4, <1>12
<1>13. CASE \E s \in Slot : \/ SourceToWaitingRoom(s)
                            \/ \E u \in Slot : PositionChange(s, u)
    BY <1>5, <1>13
<1>14. CASE \E c \in Card :
               \/ \E z \in Zone : MoveToZone(c, z) \/ DetachCard(c, z)
               \/ DiscardCard(c)
               \/ ReturnFromWaitingRoom(c)
               \/ \E z \in Zone, s \in Slot : AttachUnder(c, z, s)
    BY <1>6, <1>14, AttachProtects, CardsOfActions
<1>15. CASE \E c \in Member : GainModifier(c) \/ ReadyMember(c)
    BY <1>7, <1>15
<1>16. CASE \E c \in Member, s \in Slot :
               \/ PlayMember(c, s) \/ BatonTouch(c, s) \/ MoveToArea(c, s)
               \/ PromoteAttached(c, s)
    BY <1>7, <1>16, PlayProtects, MoveToAreaProtects
<1>17. CASE \E c \in Member, s \in Slot, z \in {"hand", "waiting_room"} :
                DeployOver(c, z, s) \/ DeployToEmpty(c, z, s)
    BY <1>17, DeployProtects
<1>18. CASE \E e \in replaced :
                ReturnBatonReplaced(e) \/ AttachBatonReplaced(e) \/ SkipEffect(e)
    BY <1>8, <1>18, AttachBatonProtects
<1> QED
    BY <1>3, <1>9, <1>10, <1>11, <1>12, <1>13, <1>14, <1>15, <1>16, <1>17, <1>18 DEF Next

(* A member that came to the stage this turn, on top or attached, is never  *)
(* sent off by a play or a deployment over its area: the record of entries  *)
(* that guards them holds every member that came, on whatever route.        *)
THEOREM ArrivalsKept == Spec => KeepsArrivals
<1>1. Init => arrived \subseteq entered
    BY DEF Init
<1>2. IInv /\ arrived \subseteq entered /\ [Next]_vars => (arrived \subseteq entered)'
    BY ArrivalStep DEF vars
<1>3. IInv /\ arrived \subseteq entered /\ [Next]_vars =>
          [\A s \in Slot :
              LET c == table'.area[s] IN
              c \in (table.zone["hand"] \cup table.zone["waiting_room"]) =>
                  arrived \cap ({table.area[s]} \cup table.under[s]) \subseteq Staged(table')]_vars
    BY ArrivalStep DEF Protected
<1> QED BY <1>1, <1>2, <1>3, Invariant, PTL DEF Spec, KeepsArrivals

-----------------------------------------------------------------------------
(* Dealing n cards at once is dealing them one at a time.                   *)

(* Induction over the numbers, for a set of them.                           *)
LEMMA NatSetInduction ==
  ASSUME NEW T \in SUBSET Nat, 0 \in T, \A n \in T : n + 1 \in T
  PROVE  T = Nat
<1>1. SUFFICES ASSUME Nat \ T # {} PROVE FALSE
  OBVIOUS
<1> DEFINE R == OpToRel(<, Nat)
<1>2. IsWellFoundedOn(R, Nat)
  BY NatLessThanWellFounded
<1>3. PICK x \in Nat \ T : \A y \in Nat \ T : ~(<<y, x>> \in R)
  <2>1. Nat \ T \subseteq Nat
    OBVIOUS
  <2> HIDE DEF R
  <2> QED
    BY <1>1, <1>2, <2>1, WFMin
<1>4. \A y \in Nat \ T : ~ (y < x)
  BY <1>3 DEF OpToRel
<1>5. x # 0 /\ x - 1 \in Nat /\ x - 1 < x /\ (x - 1) + 1 = x
  OBVIOUS
<1>6. x - 1 \in T
  BY <1>4, <1>5
<1> QED
  BY <1>5, <1>6

(* What n cards dealt leave behind, while the deck lasts and after it was   *)
(* refreshed.                                                               *)
FromDeck(D, W, T) == [taken |-> T, deck |-> D \ T, waiting |-> W]
FromBoth(D, W, T) == [taken |-> D \cup T, deck |-> W \ T, waiting |-> {}]

LEMMA SubsetSizes ==
    ASSUME NEW S, IsFiniteSet(S), NEW T \in SUBSET S
    PROVE  /\ Cardinality(T) \in Nat /\ Cardinality(S) \in Nat /\ Cardinality(T) <= Cardinality(S)
           /\ Cardinality(T) = Cardinality(S) <=> T = S
           /\ Cardinality(T) = 0 <=> T = {}
           /\ \A c \in S \ T : Cardinality(T \cup {c}) = Cardinality(T) + 1
           /\ \A c \in T : Cardinality(T \ {c}) = Cardinality(T) - 1
<1>1. /\ IsFiniteSet(T) /\ Cardinality(T) <= Cardinality(S)
      /\ Cardinality(S) = Cardinality(T) => S = T
    BY FS_Subset
<1>2. Cardinality(T) \in Nat /\ Cardinality(S) \in Nat
    BY <1>1, FS_CardinalityType
<1>3. Cardinality(T) = 0 <=> T = {}
    BY <1>1, FS_EmptySet
<1>4. \A c \in S \ T : Cardinality(T \cup {c}) = Cardinality(T) + 1
    BY <1>1, FS_AddElement
<1>5. \A c \in T : Cardinality(T \ {c}) = Cardinality(T) - 1
    BY <1>1, FS_RemoveElement
<1> QED BY <1>1, <1>2, <1>3, <1>4, <1>5

LEMMA RefreshedParts ==
    ASSUME NEW D, NEW W, NEW T
    PROVE  /\ T \in SUBSET D /\ T # D => Refreshed(FromDeck(D, W, T)) = FromDeck(D, W, T)
           /\ Refreshed(FromDeck(D, W, D)) = FromBoth(D, W, {})
           /\ Refreshed(FromBoth(D, W, T)) = FromBoth(D, W, T)
    BY DEF Refreshed, FromDeck, FromBoth

LEMMA TakeOneParts ==
    ASSUME NEW D, NEW W, NEW T
    PROVE  /\ T \in SUBSET D /\ T # D =>
                 TakeOne(FromDeck(D, W, T)) = {FromDeck(D, W, T \cup {c}) : c \in D \ T}
           /\ TakeOne(FromDeck(D, W, D)) = TakeOne(FromBoth(D, W, {}))
           /\ T \in SUBSET W /\ T # W =>
                 TakeOne(FromBoth(D, W, T)) = {FromBoth(D, W, T \cup {c}) : c \in W \ T}
           /\ TakeOne(FromBoth(D, W, W)) = {FromBoth(D, W, W)}
<1>1. ASSUME T \in SUBSET D, T # D
      PROVE  TakeOne(FromDeck(D, W, T)) = {FromDeck(D, W, T \cup {c}) : c \in D \ T}
    <2> DEFINE p == FromDeck(D, W, T)
    <2>0. D \ T # {}
        BY <1>1
    <2>1. p.deck = D \ T
        BY DEF FromDeck
    <2>5. Refreshed(p) = p
        <3>1. p.deck # {}
            BY <2>0, <2>1
        <3> HIDE DEF p
        <3> QED BY <3>1 DEF Refreshed
    <2>2. TakeOne(p) = {[taken |-> p.taken \cup {c}, deck |-> p.deck \ {c}, waiting |-> p.waiting] :
                            c \in D \ T}
        <3> HIDE DEF p
        <3> QED BY <2>0, <2>1, <2>5 DEF TakeOne
    <2>6. p.taken = T /\ p.waiting = W
        BY DEF FromDeck
    <2>3. ASSUME NEW c
          PROVE  [taken |-> p.taken \cup {c}, deck |-> p.deck \ {c}, waiting |-> p.waiting]
                    = FromDeck(D, W, T \cup {c})
        <3>1. p.deck \ {c} = D \ (T \cup {c})
            BY <2>1
        <3>2. p.taken \cup {c} = T \cup {c}
            BY <2>6
        <3> QED BY <2>6, <3>1, <3>2 DEF FromDeck
    <2> HIDE DEF p
    <2>4. TakeOne(p) = {FromDeck(D, W, T \cup {c}) : c \in D \ T}
        BY <2>2, <2>3
    <2> QED BY <2>4 DEF p
<1>2. TakeOne(FromDeck(D, W, D)) = TakeOne(FromBoth(D, W, {}))
    BY RefreshedParts DEF TakeOne
<1>3. ASSUME T \in SUBSET W, T # W
      PROVE  TakeOne(FromBoth(D, W, T)) = {FromBoth(D, W, T \cup {c}) : c \in W \ T}
    <2> DEFINE p == FromBoth(D, W, T)
    <2>0. W \ T # {}
        BY <1>3
    <2>1. p.deck = W \ T
        BY DEF FromBoth
    <2>5. Refreshed(p) = p
        <3>1. p.deck # {}
            BY <2>0, <2>1
        <3> HIDE DEF p
        <3> QED BY <3>1 DEF Refreshed
    <2>2. TakeOne(p) = {[taken |-> p.taken \cup {c}, deck |-> p.deck \ {c}, waiting |-> p.waiting] :
                            c \in W \ T}
        <3> HIDE DEF p
        <3> QED BY <2>0, <2>1, <2>5 DEF TakeOne
    <2>6. p.taken = D \cup T /\ p.waiting = {}
        BY DEF FromBoth
    <2>3. ASSUME NEW c
          PROVE  [taken |-> p.taken \cup {c}, deck |-> p.deck \ {c}, waiting |-> p.waiting]
                    = FromBoth(D, W, T \cup {c})
        <3>1. p.deck \ {c} = W \ (T \cup {c})
            BY <2>1
        <3>2. p.taken \cup {c} = D \cup (T \cup {c})
            BY <2>6
        <3> QED BY <2>6, <3>1, <3>2 DEF FromBoth
    <2> HIDE DEF p
    <2>4. TakeOne(p) = {FromBoth(D, W, T \cup {c}) : c \in W \ T}
        BY <2>2, <2>3
    <2> QED BY <2>4 DEF p
<1>4. TakeOne(FromBoth(D, W, W)) = {FromBoth(D, W, W)}
    <2>1. Refreshed(FromBoth(D, W, W)) = FromBoth(D, W, W) /\ FromBoth(D, W, W).deck = {}
        <3>1. W \ W = {}
            OBVIOUS
        <3> QED BY <3>1, RefreshedParts DEF FromBoth
    <2> QED BY <2>1 DEF TakeOne
<1> QED BY <1>1, <1>2, <1>3, <1>4

(* The outcomes of a deal that the deck was enough for, or was not.         *)
DeckOnly(D, W, n) == {FromDeck(D, W, T) : T \in {X \in SUBSET D : Cardinality(X) = n}}
DeckAndMore(D, W, m) == {FromBoth(D, W, T) : T \in {X \in SUBSET W : Cardinality(X) = m}}

LEMMA DealtForm ==
    ASSUME NEW D, IsFiniteSet(D), NEW W, IsFiniteSet(W), NEW n \in Nat, NEW eager \in BOOLEAN
    PROVE  Dealt(D, W, n, eager) =
              IF n = 0 \/ n < Cardinality(D) \/ (n = Cardinality(D) /\ ~eager)
              THEN DeckOnly(D, W, n)
              ELSE DeckAndMore(D, W, IF n - Cardinality(D) < Cardinality(W)
                                     THEN n - Cardinality(D) ELSE Cardinality(W))
    BY DEF Dealt, DeckOnly, DeckAndMore, FromDeck, FromBoth

(* One more card taken from such outcomes.                                  *)
LEMMA NextFromDeck ==
    ASSUME NEW D, IsFiniteSet(D), NEW W, NEW n \in Nat, n < Cardinality(D)
    PROVE  UNION {TakeOne(o) : o \in DeckOnly(D, W, n)} = DeckOnly(D, W, n + 1)
<1> DEFINE X == UNION {TakeOne(o) : o \in DeckOnly(D, W, n)}
<1>1. ASSUME NEW q \in X PROVE q \in DeckOnly(D, W, n + 1)
    <2>1. PICK o \in DeckOnly(D, W, n) : q \in TakeOne(o)
        OBVIOUS
    <2>2. PICK T \in SUBSET D : Cardinality(T) = n /\ o = FromDeck(D, W, T)
        BY DEF DeckOnly
    <2>3. T # D
        BY <2>2, SubsetSizes
    <2>4. PICK c \in D \ T : q = FromDeck(D, W, T \cup {c})
        BY <2>1, <2>2, <2>3, TakeOneParts
    <2>5. T \cup {c} \in SUBSET D /\ Cardinality(T \cup {c}) = n + 1
        BY <2>2, SubsetSizes
    <2> QED BY <2>4, <2>5 DEF DeckOnly
<1>2. ASSUME NEW q \in DeckOnly(D, W, n + 1) PROVE q \in X
    <2>1. PICK U \in SUBSET D : Cardinality(U) = n + 1 /\ q = FromDeck(D, W, U)
        BY DEF DeckOnly
    <2>2. PICK c \in U : TRUE
        BY <2>1, SubsetSizes
    <2>3. /\ U \ {c} \in SUBSET D /\ Cardinality(U \ {c}) = n
          /\ c \in D \ (U \ {c}) /\ (U \ {c}) \cup {c} = U
        BY <2>1, <2>2, FS_Subset, SubsetSizes
    <2>4. U \ {c} # D
        BY <2>3
    <2>7. PICK T \in SUBSET D : T = U \ {c}
        BY <2>3
    <2>8. TakeOne(FromDeck(D, W, T)) = {FromDeck(D, W, T \cup {d}) : d \in D \ T}
        <3>1. T \in SUBSET D /\ T # D
            BY <2>4, <2>7
        <3>2. T \in SUBSET D /\ T # D =>
                 TakeOne(FromDeck(D, W, T)) = {FromDeck(D, W, T \cup {d}) : d \in D \ T}
            BY TakeOneParts
        <3> QED BY <3>1, <3>2
    <2>5. q \in TakeOne(FromDeck(D, W, T))
        BY <2>1, <2>3, <2>7, <2>8
    <2>6. FromDeck(D, W, T) \in DeckOnly(D, W, n)
        BY <2>3, <2>7 DEF DeckOnly
    <2> QED BY <2>5, <2>6
<1> QED BY <1>1, <1>2

LEMMA NextFromBoth ==
    ASSUME NEW D, NEW W, IsFiniteSet(W), NEW m \in Nat, m < Cardinality(W)
    PROVE  UNION {TakeOne(o) : o \in DeckAndMore(D, W, m)} = DeckAndMore(D, W, m + 1)
<1> DEFINE X == UNION {TakeOne(o) : o \in DeckAndMore(D, W, m)}
<1>1. ASSUME NEW q \in X PROVE q \in DeckAndMore(D, W, m + 1)
    <2>1. PICK o \in DeckAndMore(D, W, m) : q \in TakeOne(o)
        OBVIOUS
    <2>2. PICK T \in SUBSET W : Cardinality(T) = m /\ o = FromBoth(D, W, T)
        BY DEF DeckAndMore
    <2>3. T # W
        BY <2>2, SubsetSizes
    <2>4. PICK c \in W \ T : q = FromBoth(D, W, T \cup {c})
        BY <2>1, <2>2, <2>3, TakeOneParts
    <2>5. T \cup {c} \in SUBSET W /\ Cardinality(T \cup {c}) = m + 1
        BY <2>2, SubsetSizes
    <2> QED BY <2>4, <2>5 DEF DeckAndMore
<1>2. ASSUME NEW q \in DeckAndMore(D, W, m + 1) PROVE q \in X
    <2>1. PICK U \in SUBSET W : Cardinality(U) = m + 1 /\ q = FromBoth(D, W, U)
        BY DEF DeckAndMore
    <2>2. PICK c \in U : TRUE
        BY <2>1, SubsetSizes
    <2>3. /\ U \ {c} \in SUBSET W /\ Cardinality(U \ {c}) = m
          /\ c \in W \ (U \ {c}) /\ (U \ {c}) \cup {c} = U
        BY <2>1, <2>2, FS_Subset, SubsetSizes
    <2>4. U \ {c} # W
        BY <2>3
    <2>7. PICK T \in SUBSET W : T = U \ {c}
        BY <2>3
    <2>8. TakeOne(FromBoth(D, W, T)) = {FromBoth(D, W, T \cup {d}) : d \in W \ T}
        <3>1. T \in SUBSET W /\ T # W
            BY <2>4, <2>7
        <3>2. T \in SUBSET W /\ T # W =>
                 TakeOne(FromBoth(D, W, T)) = {FromBoth(D, W, T \cup {d}) : d \in W \ T}
            BY TakeOneParts
        <3> QED BY <3>1, <3>2
    <2>5. q \in TakeOne(FromBoth(D, W, T))
        BY <2>1, <2>3, <2>7, <2>8
    <2>6. FromBoth(D, W, T) \in DeckAndMore(D, W, m)
        BY <2>3, <2>7 DEF DeckAndMore
    <2> QED BY <2>5, <2>6
<1> QED BY <1>1, <1>2

LEMMA WholeDeals ==
    ASSUME NEW D, IsFiniteSet(D), NEW W, IsFiniteSet(W)
    PROVE  /\ DeckOnly(D, W, 0) = {FromDeck(D, W, {})}
           /\ DeckOnly(D, W, Cardinality(D)) = {FromDeck(D, W, D)}
           /\ DeckAndMore(D, W, 0) = {FromBoth(D, W, {})}
           /\ DeckAndMore(D, W, Cardinality(W)) = {FromBoth(D, W, W)}
<1>1. {X \in SUBSET D : Cardinality(X) = 0} = {{}}
    BY {} \in SUBSET D, SubsetSizes
<1>2. {X \in SUBSET W : Cardinality(X) = 0} = {{}}
    BY {} \in SUBSET W, SubsetSizes
<1>3. {X \in SUBSET D : Cardinality(X) = Cardinality(D)} = {D}
    BY D \in SUBSET D, SubsetSizes
<1>4. {X \in SUBSET W : Cardinality(X) = Cardinality(W)} = {W}
    BY W \in SUBSET W, SubsetSizes
<1>5. DeckOnly(D, W, 0) = {FromDeck(D, W, {})}
    BY <1>1 DEF DeckOnly
<1>6. DeckOnly(D, W, Cardinality(D)) = {FromDeck(D, W, D)}
    BY <1>3 DEF DeckOnly
<1>7. DeckAndMore(D, W, 0) = {FromBoth(D, W, {})}
    BY <1>2 DEF DeckAndMore
<1>8. DeckAndMore(D, W, Cardinality(W)) = {FromBoth(D, W, W)}
    BY <1>4 DEF DeckAndMore
<1> QED BY <1>5, <1>6, <1>7, <1>8

(* The refresh right after a draw changes only a deck that was just used up.*)
LEMMA RefreshAll ==
    ASSUME NEW D, IsFiniteSet(D), NEW W, IsFiniteSet(W), NEW n \in Nat
    PROVE  /\ n < Cardinality(D) =>
                 {Refreshed(p) : p \in DeckOnly(D, W, n)} = DeckOnly(D, W, n)
           /\ {Refreshed(p) : p \in DeckOnly(D, W, Cardinality(D))} = DeckAndMore(D, W, 0)
           /\ {Refreshed(p) : p \in DeckAndMore(D, W, n)} = DeckAndMore(D, W, n)
<1>1. ASSUME n < Cardinality(D)
      PROVE  {Refreshed(p) : p \in DeckOnly(D, W, n)} = DeckOnly(D, W, n)
    <2>1. \A p \in DeckOnly(D, W, n) : Refreshed(p) = p
        <3>1. SUFFICES ASSUME NEW p \in DeckOnly(D, W, n) PROVE Refreshed(p) = p
            OBVIOUS
        <3>2. PICK T \in SUBSET D : Cardinality(T) = n /\ p = FromDeck(D, W, T)
            BY DEF DeckOnly
        <3>3. T # D
            BY <1>1, <3>2, SubsetSizes
        <3> QED BY <3>2, <3>3, RefreshedParts
    <2> QED BY <2>1
<1>2. {Refreshed(p) : p \in DeckOnly(D, W, Cardinality(D))} = DeckAndMore(D, W, 0)
    BY WholeDeals, RefreshedParts
<1>3. {Refreshed(p) : p \in DeckAndMore(D, W, n)} = DeckAndMore(D, W, n)
    <2>1. \A p \in DeckAndMore(D, W, n) : Refreshed(p) = p
        BY RefreshedParts DEF DeckAndMore
    <2> QED BY <2>1
<1> QED BY <1>1, <1>2, <1>3

Least(a, b) == IF a < b THEN a ELSE b

LEMMA NextAndMore ==
    ASSUME NEW D, NEW W, IsFiniteSet(W), NEW m \in Nat
    PROVE  UNION {TakeOne(o) : o \in DeckAndMore(D, W, Least(m, Cardinality(W)))}
              = DeckAndMore(D, W, Least(m + 1, Cardinality(W)))
<1>0. Cardinality(W) \in Nat
    BY FS_CardinalityType
<1>1. CASE m < Cardinality(W)
    <2>1. Least(m, Cardinality(W)) = m /\ Least(m + 1, Cardinality(W)) = m + 1
        BY <1>0, <1>1 DEF Least
    <2> QED BY <1>1, <2>1, NextFromBoth
<1>2. CASE ~(m < Cardinality(W))
    <2>1. /\ Least(m, Cardinality(W)) = Cardinality(W)
          /\ Least(m + 1, Cardinality(W)) = Cardinality(W)
        BY <1>0, <1>2 DEF Least
    <2>2. {X \in SUBSET W : Cardinality(X) = Cardinality(W)} = {W}
        BY W \in SUBSET W, SubsetSizes
    <2>3. DeckAndMore(D, W, Cardinality(W)) = {FromBoth(D, W, W)}
        BY <2>2 DEF DeckAndMore
    <2>4. TakeOne(FromBoth(D, W, W)) = {FromBoth(D, W, W)}
        BY TakeOneParts
    <2>5. UNION {TakeOne(o) : o \in {FromBoth(D, W, W)}} = {FromBoth(D, W, W)}
        BY <2>4
    <2> QED BY <2>1, <2>3, <2>5
<1> QED BY <1>1, <1>2

(* Taking the next card, with or without the refresh after it.              *)
LEMMA NextEager ==
    ASSUME NEW S
    PROVE  /\ UNION {TakeNext(o, TRUE) : o \in S}
                 = {Refreshed(p) : p \in UNION {TakeOne(o) : o \in S}}
           /\ UNION {TakeNext(o, FALSE) : o \in S} = UNION {TakeOne(o) : o \in S}
    BY DEF TakeNext

LEMMA DealtStep ==
    ASSUME NEW D, IsFiniteSet(D), NEW W, IsFiniteSet(W), NEW n \in Nat, NEW eager \in BOOLEAN
    PROVE  UNION {TakeNext(o, eager) : o \in Dealt(D, W, n, eager)} = Dealt(D, W, n + 1, eager)
<1> DEFINE k == Cardinality(D)
           w == Cardinality(W)
<1>0. k \in Nat /\ w \in Nat /\ n + 1 \in Nat
    BY FS_CardinalityType
<1>1. /\ n = 0 \/ n < k \/ (n = k /\ ~eager) => Dealt(D, W, n, eager) = DeckOnly(D, W, n)
      /\ ~(n = 0 \/ n < k \/ (n = k /\ ~eager)) =>
            Dealt(D, W, n, eager) = DeckAndMore(D, W, Least(n - k, w))
    BY DealtForm DEF Least
<1>2. /\ n + 1 < k \/ (n + 1 = k /\ ~eager) => Dealt(D, W, n + 1, eager) = DeckOnly(D, W, n + 1)
      /\ ~(n + 1 < k \/ (n + 1 = k /\ ~eager)) =>
            Dealt(D, W, n + 1, eager) = DeckAndMore(D, W, Least(n + 1 - k, w))
    BY <1>0, DealtForm DEF Least
<1>3. /\ n + 1 < k => {Refreshed(p) : p \in DeckOnly(D, W, n + 1)} = DeckOnly(D, W, n + 1)
      /\ {Refreshed(p) : p \in DeckOnly(D, W, k)} = DeckAndMore(D, W, 0)
    BY <1>0, RefreshAll
<1>4. \A m \in Nat : {Refreshed(p) : p \in DeckAndMore(D, W, m)} = DeckAndMore(D, W, m)
    BY RefreshAll
<1>5. \A m \in Nat : Least(m, w) \in Nat
    BY <1>0 DEF Least
<1>6. Least(0, w) = 0
    BY <1>0 DEF Least
<1>7. CASE n < k
    <2>1. UNION {TakeOne(o) : o \in Dealt(D, W, n, eager)} = DeckOnly(D, W, n + 1)
        BY <1>1, <1>7, NextFromDeck
    <2>2. CASE ~eager
        <3>1. UNION {TakeNext(o, eager) : o \in Dealt(D, W, n, eager)} = DeckOnly(D, W, n + 1)
            BY <2>1, <2>2, NextEager
        <3>2. n + 1 < k \/ n + 1 = k
            BY <1>0, <1>7
        <3> QED BY <1>2, <2>2, <3>1, <3>2
    <2>3. CASE eager
        <3>1. UNION {TakeNext(o, eager) : o \in Dealt(D, W, n, eager)}
                 = {Refreshed(p) : p \in DeckOnly(D, W, n + 1)}
            <4>1. eager = TRUE
                BY <2>3
            <4>2. PICK S : S = Dealt(D, W, n, eager)
                OBVIOUS
            <4> DEFINE Y == DeckOnly(D, W, n + 1)
            <4>3. Y = DeckOnly(D, W, n + 1)
                OBVIOUS
            <4> HIDE DEF k, w, Y
            <4>4. UNION {TakeOne(o) : o \in S} = Y
                BY <2>1, <4>2, <4>3
            <4>5. UNION {TakeNext(o, TRUE) : o \in S}
                     = {Refreshed(p) : p \in UNION {TakeOne(o) : o \in S}}
                BY NextEager
            <4>6. UNION {TakeNext(o, TRUE) : o \in S} = {Refreshed(p) : p \in Y}
                BY <4>4, <4>5
            <4>7. UNION {TakeNext(o, eager) : o \in S} = {Refreshed(p) : p \in Y}
                BY <4>1, <4>6
            <4> QED BY <4>2, <4>3, <4>7
        <3>2. CASE n + 1 < k
            <4>1. Dealt(D, W, n + 1, eager) = DeckOnly(D, W, n + 1)
                BY <1>2, <3>2
            <4>2. {Refreshed(p) : p \in DeckOnly(D, W, n + 1)} = DeckOnly(D, W, n + 1)
                BY <1>3, <3>2
            <4>3. PICK S : S = DeckOnly(D, W, n + 1)
                OBVIOUS
            <4>4. UNION {TakeNext(o, eager) : o \in Dealt(D, W, n, eager)} = S
                <5>1. {Refreshed(p) : p \in S} = S
                    BY <4>2, <4>3
                <5> HIDE DEF k, w
                <5> QED BY <3>1, <4>3, <5>1
            <4> QED BY <4>1, <4>3, <4>4
        <3>3. CASE n + 1 = k
            <4>1. Dealt(D, W, n + 1, eager) = DeckAndMore(D, W, Least(n + 1 - k, w))
                <5>1. ~(n + 1 < k \/ (n + 1 = k /\ ~eager))
                    BY <1>0, <2>3, <3>3
                <5> QED BY <1>2, <5>1
            <4>2. n + 1 - k = 0
                BY <1>0, <3>3
            <4> QED BY <1>3, <1>6, <3>1, <3>3, <4>1, <4>2
        <3> QED BY <1>0, <1>7, <3>2, <3>3
    <2> QED BY <2>2, <2>3
<1>8. CASE ~(n < k)
    <2>1. PICK m \in Nat : m = n - k
        BY <1>0, <1>8
    <2>2. m + 1 = n + 1 - k /\ ~(n + 1 < k) /\ n + 1 # k
        BY <1>0, <1>8, <2>1
    <2>3. UNION {TakeOne(o) : o \in Dealt(D, W, n, eager)} = DeckAndMore(D, W, Least(m + 1, w))
        <3>1. UNION {TakeOne(o) : o \in DeckAndMore(D, W, Least(m, w))}
                 = DeckAndMore(D, W, Least(m + 1, w))
            BY NextAndMore
        <3>2. CASE n = k /\ (n = 0 \/ ~eager)
            <4>1. Dealt(D, W, n, eager) = {FromDeck(D, W, D)}
                BY <1>1, <3>2, WholeDeals
            <4>2. DeckAndMore(D, W, Least(m, w)) = {FromBoth(D, W, {})}
                <5>1. m = 0
                    BY <1>0, <2>1, <3>2
                <5> QED BY <1>6, <5>1, WholeDeals
            <4>3. TakeOne(FromDeck(D, W, D)) = TakeOne(FromBoth(D, W, {}))
                BY TakeOneParts
            <4> HIDE DEF k, w
            <4> QED BY <3>1, <4>1, <4>2, <4>3
        <3>3. CASE ~(n = k /\ (n = 0 \/ ~eager))
            <4>1. ~(n = 0 \/ n < k \/ (n = k /\ ~eager))
                BY <1>0, <1>8, <3>3
            <4>2. Dealt(D, W, n, eager) = DeckAndMore(D, W, Least(m, w))
                BY <1>1, <2>1, <4>1
            <4> QED BY <3>1, <4>2
        <3> QED BY <3>2, <3>3
    <2>4. Dealt(D, W, n + 1, eager) = DeckAndMore(D, W, Least(m + 1, w))
        BY <1>2, <2>2
    <2>5. UNION {TakeNext(o, eager) : o \in Dealt(D, W, n, eager)}
             = DeckAndMore(D, W, Least(m + 1, w))
        <3>1. {Refreshed(p) : p \in DeckAndMore(D, W, Least(m + 1, w))}
                 = DeckAndMore(D, W, Least(m + 1, w))
            BY <1>4, <1>5
        <3>2. PICK S : S = Dealt(D, W, n, eager)
            OBVIOUS
        <3>3. /\ UNION {TakeNext(o, TRUE) : o \in S}
                    = {Refreshed(p) : p \in UNION {TakeOne(o) : o \in S}}
              /\ UNION {TakeNext(o, FALSE) : o \in S} = UNION {TakeOne(o) : o \in S}
            BY NextEager
        <3> DEFINE Y == DeckAndMore(D, W, Least(m + 1, w))
        <3>4. Y = DeckAndMore(D, W, Least(m + 1, w))
            OBVIOUS
        <3> HIDE DEF k, w, Y
        <3>5. UNION {TakeOne(o) : o \in S} = Y /\ {Refreshed(p) : p \in Y} = Y
            BY <2>3, <3>1, <3>2, <3>4
        <3>6. UNION {TakeNext(o, TRUE) : o \in S} = Y
            BY <3>3, <3>5
        <3>7. UNION {TakeNext(o, FALSE) : o \in S} = Y
            BY <3>3, <3>5
        <3>8. eager = TRUE \/ eager = FALSE
            OBVIOUS
        <3>9. UNION {TakeNext(o, eager) : o \in S} = Y
            BY <3>6, <3>7, <3>8
        <3> QED BY <3>2, <3>4, <3>9
    <2> QED BY <2>4, <2>5
<1> QED BY <1>7, <1>8

LEMMA DealtNone ==
    ASSUME NEW D, IsFiniteSet(D), NEW W, IsFiniteSet(W), NEW eager \in BOOLEAN
    PROVE  Dealt(D, W, 0, eager) = {[taken |-> {}, deck |-> D, waiting |-> W]}
<1>1. Dealt(D, W, 0, eager) = DeckOnly(D, W, 0)
    BY DealtForm
<1>2. FromDeck(D, W, {}) = [taken |-> {}, deck |-> D, waiting |-> W]
    <2>1. D \ {} = D
        OBVIOUS
    <2> QED BY <2>1 DEF FromDeck
<1>3. DeckOnly(D, W, 0) = {FromDeck(D, W, {})}
    BY WholeDeals
<1> QED BY <1>1, <1>2, <1>3

(* The loop that deals one card at a time ends with the outcomes of dealing *)
(* them all at once: what was dealt after each step is a solution of the    *)
(* loop's recursion, and there is no other.                                 *)
LEMMA LoopDeals ==
    ASSUME NEW D, IsFiniteSet(D), NEW W, IsFiniteSet(W), NEW n \in Nat, NEW eager \in BOOLEAN
    PROVE  Dealt(D, W, n, eager) = OneByOne(D, W, n, eager)
<1> DEFINE IsLoop(f) ==
        f = [i \in 0 .. n |->
                IF i = 0 THEN {[taken |-> {}, deck |-> D, waiting |-> W]}
                ELSE UNION {TakeNext(o, eager) : o \in f[i - 1]}]
<1> DEFINE g == [i \in 0 .. n |-> Dealt(D, W, i, eager)]
<1>1. IsLoop(g)
    <2>1. ASSUME NEW i \in 0 .. n
          PROVE  g[i] = IF i = 0 THEN {[taken |-> {}, deck |-> D, waiting |-> W]}
                        ELSE UNION {TakeNext(o, eager) : o \in g[i - 1]}
        <3>1. CASE i = 0
            BY <3>1, DealtNone
        <3>2. CASE i # 0
            <4>1. i - 1 \in Nat /\ i - 1 \in 0 .. n /\ (i - 1) + 1 = i
                BY <3>2
            <4>2. g[i - 1] = Dealt(D, W, i - 1, eager) /\ g[i] = Dealt(D, W, i, eager)
                BY <4>1
            <4>3. UNION {TakeNext(o, eager) : o \in Dealt(D, W, i - 1, eager)}
                     = Dealt(D, W, i, eager)
                <5>1. PICK m \in Nat : m = i - 1 /\ m + 1 = i
                    BY <4>1
                <5>2. UNION {TakeNext(o, eager) : o \in Dealt(D, W, m, eager)}
                         = Dealt(D, W, m + 1, eager)
                    BY DealtStep
                <5> QED BY <5>1, <5>2
            <4> HIDE DEF g
            <4> QED BY <3>2, <4>2, <4>3
        <3> QED BY <3>1, <3>2
    <2>2. g = [i \in 0 .. n |-> g[i]]
        OBVIOUS
    <2> HIDE DEF g
    <2> QED BY <2>1, <2>2
<1>2. PICK f : IsLoop(f) /\ OneByOne(D, W, n, eager) = f[n]
    <2>1. \E f : IsLoop(f) /\ OneByOne(D, W, n, eager) = f[n]
        <3> HIDE DEF g
        <3> QED BY <1>1, Zenon DEF OneByOne
    <2> QED BY <2>1
<1> DEFINE N == {i \in Nat : i \in 0 .. n => f[i] = g[i]}
<1>3. 0 \in N
    <2>1. 0 \in 0 .. n
        OBVIOUS
    <2> HIDE DEF g
    <2>2. f[0] = {[taken |-> {}, deck |-> D, waiting |-> W]}
        BY <1>2, <2>1
    <2>3. g[0] = {[taken |-> {}, deck |-> D, waiting |-> W]}
        BY <1>1, <2>1
    <2> QED BY <2>2, <2>3
<1>4. ASSUME NEW i \in Nat, i \in N
      PROVE  i + 1 \in N
    <2>1. SUFFICES ASSUME i + 1 \in 0 .. n
                   PROVE  f[i + 1] = g[i + 1]
        OBVIOUS
    <2>2. i \in 0 .. n /\ i + 1 # 0 /\ (i + 1) - 1 = i
        BY <2>1
    <2>3. f[i] = g[i]
        BY <1>4, <2>2
    <2> HIDE DEF g
    <2>4. f[i + 1] = UNION {TakeNext(o, eager) : o \in f[i]}
        BY <1>2, <2>1, <2>2
    <2>5. g[i + 1] = UNION {TakeNext(o, eager) : o \in g[i]}
        BY <1>1, <2>1, <2>2
    <2> QED BY <2>3, <2>4, <2>5
<1>5. N \in SUBSET Nat
    OBVIOUS
<1>6. N = Nat
    <2> HIDE DEF N
    <2>1. \A i \in N : i \in Nat /\ i + 1 \in N
        BY <1>4, <1>5
    <2> QED BY <1>3, <1>5, <2>1, NatSetInduction
<1>7. n \in 0 .. n
    OBVIOUS
<1>8. n \in N => f[n] = g[n]
    <2> HIDE DEF g
    <2> QED BY <1>7
<1>9. f[n] = g[n]
    <2> HIDE DEF N, g
    <2> QED BY <1>6, <1>8
<1>10. g[n] = Dealt(D, W, n, eager)
    BY <1>7
<1> HIDE DEF g
<1> QED BY <1>2, <1>9, <1>10

(* Dealing n cards at once, as the steps of the table do, is dealing them   *)
(* one at a time with the refresh of the deck between any two of them, for  *)
(* every deck and waiting room a match can come to.                         *)
THEOREM DealsOneByOne == Spec => []DealtOneByOne
<1>1. IInv => DealtOneByOne
    <2>1. SUFFICES ASSUME IInv, NEW n \in 0 .. MaxDeal, NEW eager \in BOOLEAN
                   PROVE  Dealt(table.zone["main_deck"], table.zone["waiting_room"], n, eager)
                          = OneByOne(table.zone["main_deck"], table.zone["waiting_room"], n, eager)
        BY DEF DealtOneByOne
    <2>2. n \in Nat
        BY BoundAssumption
    <2>3. /\ table.zone["main_deck"] \in SUBSET Card
          /\ table.zone["waiting_room"] \in SUBSET Card
        BY <2>1 DEF IInv, TypeOK, Table, Zone
    <2>4. PICK D \in SUBSET Card : D = table.zone["main_deck"]
        BY <2>3
    <2>5. PICK W \in SUBSET Card : W = table.zone["waiting_room"]
        BY <2>3
    <2>6. IsFiniteSet(D) /\ IsFiniteSet(W)
        BY CardAssumption, FS_Subset
    <2>7. Dealt(D, W, n, eager) = OneByOne(D, W, n, eager)
        BY <2>2, <2>6, LoopDeals
    <2> QED BY <2>4, <2>5, <2>7
<1> QED BY <1>1, Invariant, PTL
=============================================================================

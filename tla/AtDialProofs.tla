---------------------------- MODULE AtDialProofs ----------------------------
(***************************************************************************)
(* Proofs about the AT dialogue, for any number of settings, attempts,     *)
(* calls and lost lines: how far the answers can fall behind the commands, *)
(* and what is in force when the code believes it is connected.            *)
(***************************************************************************)
EXTENDS AtDial, TLAPS, FiniteSetTheorems

(* The commands of the present attempt have been sent and read, or are     *)
(* being.                                                                  *)
Talking == pc \in {"send", "read", "connected"}

(* The command sent last.                                                  *)
Sent == IF pc = "send" THEN k - 1 ELSE k

Bound == IF late THEN 1 ELSE 0

(* Commands that were sent and of which it is not settled that the modem   *)
(* accepted them: their answer is still to come, or it was lost.           *)
Unset == {c \in Settings : c <= Sent /\ c \notin set}
Unsettled == Waiting \cup Unset

(* The attempts left, and what is on the way before the first command.     *)
Phase ==
  /\ pc # "gaveUp" => tries = 0 <=> ~boot
  /\ pc = "probe" => todo = <<>>
  /\ pc = "flush" => todo = <<>> \/ todo = <<Probe>>
  /\ Talking => k \in Settings \cup {Dial}
  /\ pc = "connected" => k = Dial /\ todo = <<>>

(* The modem answers in order: todo ends with the command sent last and    *)
(* has no gap; what is on the line is before it, in order.                 *)
InOrder ==
  /\ Len(todo) <= Sent + 1
  /\ \A i \in DOMAIN todo : todo[i] + Len(todo) = Sent + i
  /\ \A i \in DOMAIN line : line[i].of # Nobody => line[i].of + Len(todo) <= Sent
  /\ \A i, j \in DOMAIN line :
       i < j /\ Nobody \notin {line[i].of, line[j].of} => line[i].of < line[j].of

(* An answer on the line is true.                                          *)
True(l) ==
  /\ l.of = Nobody => l.res = "RING"
  /\ l.of = Dial => l.res \in {"CONNECT", "NO CARRIER"}
  /\ l.res = "CONNECT" => l.of = Dial /\ online
  /\ l.res = "OK" /\ l.of \in Settings => l.of \in set

(* How much can be unsettled, and when nothing can be lost.                *)
Settled ==
  /\ Cardinality(Unsettled) <= IF pc = "read" THEN Bound + 1 ELSE Bound
  /\ steals = MaxSteals /\ ~boot => Unset \subseteq Waiting
  /\ pc = "connected" => online /\ Waiting = {}

Dialogue == InOrder /\ (\A i \in DOMAIN line : True(line[i])) /\ Settled

(* The inductive invariant.                                                *)
IInv == TypeOK /\ Phase /\ (Talking => Dialogue)

-----------------------------------------------------------------------------
(* Sets of commands are finite, so that they can be counted.               *)

LEMMA Counting ==
  /\ \A S \in SUBSET Commands : IsFiniteSet(S) /\ Cardinality(S) \in Nat
  /\ \A S, T \in SUBSET Commands : S \subseteq T => Cardinality(S) <= Cardinality(T)
  /\ \A S, T \in SUBSET Commands, c \in Commands :
       S \subseteq T \cup {c} => Cardinality(S) <= Cardinality(T) + 1
  /\ \A S, T \in SUBSET Commands, c \in Commands :
       c \in T /\ S \subseteq T \ {c} => Cardinality(S) <= Cardinality(T) - 1
<1>1. IsFiniteSet(Commands)
  <2>1. Probe \in Int /\ Dial \in Int
    BY DialAssumption DEF Probe, Dial
  <2> QED
    BY <2>1, FS_Interval DEF Commands
<1>2. ASSUME NEW S \in SUBSET Commands
      PROVE  IsFiniteSet(S) /\ Cardinality(S) \in Nat
  <2>1. IsFiniteSet(S)
    BY <1>1, FS_Subset
  <2> QED
    BY <2>1, FS_CardinalityType
<1>3. ASSUME NEW S \in SUBSET Commands, NEW T \in SUBSET Commands, S \subseteq T
      PROVE  Cardinality(S) <= Cardinality(T)
  BY <1>2, <1>3, FS_Subset
<1>4. ASSUME NEW S \in SUBSET Commands, NEW T \in SUBSET Commands, NEW c \in Commands,
             S \subseteq T \cup {c}
      PROVE  Cardinality(S) <= Cardinality(T) + 1
  <2>1. T \cup {c} \in SUBSET Commands
    OBVIOUS
  <2>2. Cardinality(S) <= Cardinality(T \cup {c})
    BY <1>3, <1>4, <2>1
  <2>3. Cardinality(T \cup {c}) <= Cardinality(T) + 1
    BY <1>2, FS_AddElement
  <2> QED
    BY <1>2, <2>1, <2>2, <2>3
<1>5. ASSUME NEW S \in SUBSET Commands, NEW T \in SUBSET Commands, NEW c \in Commands,
             c \in T, S \subseteq T \ {c}
      PROVE  Cardinality(S) <= Cardinality(T) - 1
  <2>1. T \ {c} \in SUBSET Commands
    OBVIOUS
  <2>2. Cardinality(S) <= Cardinality(T \ {c})
    BY <1>3, <1>5, <2>1
  <2>3. Cardinality(T \ {c}) = Cardinality(T) - 1
    BY <1>2, <1>5, FS_RemoveElement
  <2> QED
    BY <2>2, <2>3
<1> QED
  BY <1>2, <1>3, <1>4, <1>5

(* The commands are 0, 1, ... and Nobody is none of them.                  *)
LEMMA Numbers ==
  /\ Last \in Nat \ {0} /\ Probe = 0 /\ Dial = Last + 1 /\ Nobody = Last + 2
  /\ Commands = 0..(Last + 1) /\ Settings = 1..Last /\ Settings \subseteq Commands
  /\ Nobody \notin Commands /\ Dial \notin Settings /\ Dial \in Commands
  /\ Waiting \in SUBSET Commands /\ Unset \in SUBSET Commands
  /\ Unsettled \in SUBSET Commands
<1>1. /\ Last \in Nat \ {0} /\ Probe = 0 /\ Dial = Last + 1 /\ Nobody = Last + 2
      /\ Commands = 0..(Last + 1) /\ Settings = 1..Last
  BY DialAssumption DEF Probe, Dial, Nobody, Commands, Settings
<1>2. /\ Settings \subseteq Commands
      /\ Nobody \notin Commands /\ Dial \notin Settings /\ Dial \in Commands
  BY <1>1
<1>3. /\ Waiting \in SUBSET Commands /\ Unset \in SUBSET Commands
      /\ Unsettled \in SUBSET Commands
  BY <1>2 DEF Waiting, Unset, Unsettled
<1> QED
  BY <1>1, <1>2, <1>3

(* The first element and the rest.                                         *)
LEMMA HeadTail ==
  ASSUME NEW S, NEW s \in Seq(S), s # <<>>
  PROVE  /\ Head(s) = s[1] /\ s[1] \in S /\ 1 \in DOMAIN s
         /\ Tail(s) \in Seq(S) /\ Len(s) \in Nat \ {0} /\ Len(Tail(s)) = Len(s) - 1
         /\ DOMAIN s = 1..Len(s) /\ DOMAIN Tail(s) = 1..(Len(s) - 1)
         /\ \A i \in DOMAIN Tail(s) : i + 1 \in DOMAIN s /\ Tail(s)[i] = s[i + 1]
  OBVIOUS

LEMMA Appended ==
  ASSUME NEW S, NEW s \in Seq(S), NEW e \in S
  PROVE  /\ Append(s, e) \in Seq(S) /\ Len(s) \in Nat /\ Len(Append(s, e)) = Len(s) + 1
         /\ DOMAIN s = 1..Len(s) /\ DOMAIN Append(s, e) = 1..(Len(s) + 1)
         /\ \A i \in DOMAIN s : Append(s, e)[i] = s[i]
         /\ Append(s, e)[Len(s) + 1] = e
  OBVIOUS

-----------------------------------------------------------------------------
(* The lines and the modem's answers.                                      *)

(* The modem answers the oldest command it has not answered: what is       *)
(* waited for stays the same, and order is kept.                           *)
LEMMA Answered ==
  ASSUME IInv, NEW c, todo # <<>>, c = Head(todo), NEW r, [of |-> c, res |-> r] \in Line,
         line' = Append(line, [of |-> c, res |-> r]), todo' = Tail(todo),
         UNCHANGED <<env, pc, k, tries, rings, steals>>,
         set' \subseteq Settings, online' \in BOOLEAN,
         Talking => /\ \A l \in {line[i] : i \in DOMAIN line} : True(l)'
                    /\ True([of |-> c, res |-> r])'
                    /\ Unset' \subseteq Unsettled
  PROVE  IInv'
<1> DEFINE l == [of |-> c, res |-> r]
<1>1. line \in Seq(Line) /\ todo \in Seq(Commands) /\ l \in Line /\ c \in Commands
  BY HeadTail DEF IInv, TypeOK
<1>2. l.of = c /\ l.res = r
  OBVIOUS
<1> HIDE DEF l
<1>3. /\ line' \in Seq(Line) /\ Len(line) \in Nat /\ Len(line') = Len(line) + 1
      /\ DOMAIN line = 1..Len(line) /\ DOMAIN line' = 1..(Len(line) + 1)
      /\ \A i \in DOMAIN line : line'[i] = line[i]
      /\ line'[Len(line) + 1] = l
  <2>1. line' = Append(line, l)
    BY DEF l
  <2> QED
    BY <1>1, <2>1, Appended
<1>4. /\ todo' \in Seq(Commands) /\ todo[1] = c /\ Len(todo) \in Nat \ {0}
      /\ Len(todo') = Len(todo) - 1
      /\ DOMAIN todo = 1..Len(todo) /\ DOMAIN todo' = 1..(Len(todo) - 1)
      /\ \A i \in DOMAIN todo' : i + 1 \in DOMAIN todo /\ todo'[i] = todo[i + 1]
      /\ 1 \in DOMAIN todo
  BY <1>1, HeadTail
<1>5. TypeOK'
  BY <1>3, <1>4 DEF IInv, TypeOK, env
<1>6. Phase' /\ pc # "connected"
  <2>1. pc = "flush" => todo' = <<>>
    <3>1. pc = "flush" => todo = <<Probe>>
      BY DEF IInv, Phase
    <3>2. Tail(<<Probe>>) = <<>>
      OBVIOUS
    <3> QED
      BY <3>1, <3>2
  <2> QED
    BY <2>1 DEF IInv, Phase, Talking, env
<1>7. ASSUME Talking
      PROVE  Dialogue'
  <2>1. InOrder /\ Settled /\ Sent \in Nat /\ Sent' = Sent /\ Bound' = Bound
    <3>1. k \in Nat \ {0}
      BY <1>7, Numbers DEF IInv, Phase
    <3> QED
      BY <1>7, <3>1 DEF IInv, Dialogue, Sent, Bound, env
  <2>2. /\ \A i \in DOMAIN line : line[i].of \in Commands \cup {Nobody}
        /\ \A i \in DOMAIN todo : todo[i] \in Nat
        /\ Commands \cup {Nobody} \subseteq Nat
    <3>1. Commands \cup {Nobody} \subseteq Nat
      BY Numbers
    <3>2. \A i \in DOMAIN line : line[i] \in Line
      BY <1>1
    <3>3. \A m \in Line : m.of \in Commands \cup {Nobody}
      BY DEF Line
    <3>4. \A i \in DOMAIN todo : todo[i] \in Commands
      BY <1>1
    <3> QED
      BY <3>1, <3>2, <3>3, <3>4
  <2>3. c + Len(todo) = Sent + 1 /\ c \in Nat /\ c # Nobody
    BY <1>1, <1>4, <2>1, <2>2, Numbers DEF InOrder
  <2>4. InOrder'
    <3>1. Len(todo') <= Sent' + 1
      BY <1>4, <2>1 DEF InOrder
    <3>2. \A i \in DOMAIN todo' : todo'[i] + Len(todo') = Sent' + i
      <4> SUFFICES ASSUME NEW i \in DOMAIN todo'
                   PROVE  todo'[i] + Len(todo') = Sent' + i
        OBVIOUS
      <4>1. i + 1 \in DOMAIN todo /\ todo'[i] = todo[i + 1] /\ todo[i + 1] \in Nat
        BY <1>4, <2>2
      <4>2. todo[i + 1] + Len(todo) = Sent + (i + 1)
        BY <2>1, <4>1 DEF InOrder
      <4> QED
        BY <1>4, <2>1, <4>1, <4>2
    <3>3. ASSUME NEW i \in DOMAIN line', line'[i].of # Nobody
          PROVE  line'[i].of + Len(todo') <= Sent'
      <4>1. CASE i \in DOMAIN line
        <5>1. line[i].of + Len(todo) <= Sent /\ line[i].of \in Nat
          BY <1>3, <2>1, <2>2, <3>3, <4>1 DEF InOrder
        <5> QED
          BY <1>3, <1>4, <2>1, <4>1, <5>1
      <4>2. CASE i = Len(line) + 1
        BY <1>2, <1>3, <1>4, <2>1, <2>3, <4>2
      <4> QED
        BY <1>3, <4>1, <4>2
    <3>4. ASSUME NEW i \in DOMAIN line', NEW j \in DOMAIN line', i < j,
                 Nobody \notin {line'[i].of, line'[j].of}
          PROVE  line'[i].of < line'[j].of
      <4>1. i \in DOMAIN line /\ line'[i] = line[i]
        BY <1>3, <3>4
      <4>2. CASE j \in DOMAIN line
        BY <1>3, <2>1, <3>4, <4>1, <4>2 DEF InOrder
      <4>3. CASE j = Len(line) + 1
        <5>1. line[i].of + Len(todo) <= Sent /\ line[i].of \in Nat
          BY <2>1, <2>2, <3>4, <4>1 DEF InOrder
        <5> QED
          BY <1>2, <1>3, <1>4, <2>1, <2>3, <4>1, <4>3, <5>1
      <4> QED
        BY <1>3, <4>2, <4>3
    <3> QED
      BY <3>1, <3>2, <3>3, <3>4 DEF InOrder
  <2>5. (\A i \in DOMAIN line : True(line[i]))'
    <3> SUFFICES ASSUME NEW i \in DOMAIN line' PROVE True(line[i])'
      OBVIOUS
    <3>1. CASE i \in DOMAIN line
      BY <1>3, <1>7, <3>1 DEF True
    <3>2. CASE i = Len(line) + 1
      BY <1>3, <1>7, <3>2 DEF True, l
    <3> QED
      BY <1>3, <3>1, <3>2
  <2>6. Waiting' = Waiting
    <3>1. ASSUME NEW d \in Waiting PROVE d \in Waiting'
      <4>1. CASE d = c
        <5>1. Len(line) + 1 \in DOMAIN line' /\ line'[Len(line) + 1].of = d
          BY <1>2, <1>3, <4>1
        <5> QED
          BY <1>1, <4>1, <5>1 DEF Waiting
      <4>2. ASSUME NEW i \in DOMAIN todo, todo[i] = d, d # c PROVE d \in Waiting'
        <5>1. i # 1 /\ (i - 1) \in DOMAIN todo' /\ todo'[i - 1] = todo[(i - 1) + 1]
          BY <1>4, <4>2
        <5>2. todo'[i - 1] = d
          BY <1>4, <4>2, <5>1
        <5> QED
          BY <5>1, <5>2 DEF Waiting
      <4>3. ASSUME NEW i \in DOMAIN line, line[i].of = d PROVE d \in Waiting'
        <5>1. i \in DOMAIN line' /\ line'[i].of = d
          BY <1>3, <4>3
        <5> QED
          BY <5>1 DEF Waiting
      <4> QED
        BY <4>1, <4>2, <4>3 DEF Waiting
    <3>2. ASSUME NEW d \in Waiting' PROVE d \in Waiting
      <4>0. d \in Commands
        BY DEF Waiting
      <4>1. ASSUME NEW i \in DOMAIN todo', todo'[i] = d PROVE d \in Waiting
        BY <1>4, <4>0, <4>1 DEF Waiting
      <4>2. ASSUME NEW i \in DOMAIN line', line'[i].of = d PROVE d \in Waiting
        <5>1. CASE i \in DOMAIN line
          BY <1>3, <4>0, <4>2, <5>1 DEF Waiting
        <5>2. CASE i = Len(line) + 1
          BY <1>2, <1>3, <1>4, <4>0, <4>2, <5>2, SMTT(30) DEF Waiting
        <5> QED
          BY <1>3, <5>1, <5>2
      <4> QED
        BY <4>1, <4>2 DEF Waiting
    <3> QED
      BY <3>1, <3>2
  <2>7. Settled'
    <3>1. Unsettled' \subseteq Unsettled /\ Unsettled' \in SUBSET Commands
      BY <1>7, <2>6, Numbers DEF Unsettled, Unset
    <3>2. Cardinality(Unsettled') <= Cardinality(Unsettled)
      BY <3>1, Counting, Numbers
    <3>3. /\ Cardinality(Unsettled) \in Nat /\ Cardinality(Unsettled') \in Nat
          /\ Bound \in Nat
      BY <3>1, Counting, Numbers DEF Bound
    <3>4. Cardinality(Unsettled') <= IF pc' = "read" THEN Bound' + 1 ELSE Bound'
      BY <2>1, <3>2, <3>3 DEF Settled
    <3>5. steals' = MaxSteals /\ ~boot' => Unset' \subseteq Waiting'
      BY <1>7, <2>1, <2>6 DEF Settled, Unsettled, env
    <3> QED
      BY <1>6, <3>4, <3>5 DEF Settled
  <2> QED
    BY <2>4, <2>5, <2>7 DEF Dialogue
<1> QED
  <2>1. Talking' => Talking
    BY DEF Talking
  <2> QED
    BY <1>5, <1>6, <1>7, <2>1 DEF IInv

LEMMA AcceptIInv ==
  ASSUME IInv, Accept
  PROVE  IInv'
<1>0. PICK c : c = Head(todo)
  OBVIOUS
<1>1. /\ todo # <<>> /\ c # Dial
      /\ line' = Append(line, [of |-> c, res |-> "OK"]) /\ todo' = Tail(todo)
      /\ set' = IF c = Probe THEN set ELSE IF c = 1 THEN {1} ELSE set \cup {c}
      /\ UNCHANGED <<env, pc, k, tries, online, rings, steals>>
  BY <1>0 DEF Accept, Says
<1>2. /\ c \in Commands /\ todo[1] = c /\ Len(todo) \in Nat \ {0} /\ 1 \in DOMAIN todo
      /\ todo \in Seq(Commands) /\ DOMAIN todo = 1..Len(todo) /\ set \subseteq Settings
  BY <1>0, <1>1, HeadTail DEF IInv, TypeOK
<1>3. /\ set' \subseteq Settings /\ online' \in BOOLEAN
      /\ [of |-> c, res |-> "OK"] \in Line
  <2>1. set' \subseteq Settings
    BY <1>1, <1>2, Numbers
  <2> QED
    BY <1>1, <1>2, <2>1 DEF IInv, TypeOK, Line
<1>4. ASSUME Talking
      PROVE  /\ \A l \in {line[i] : i \in DOMAIN line} : True(l)'
             /\ True([of |-> c, res |-> "OK"])'
             /\ Unset' \subseteq Unsettled
  <2>1. InOrder /\ (\A i \in DOMAIN line : True(line[i])) /\ Sent' = Sent /\ Sent \in Nat
    <3>1. k \in Nat \ {0}
      BY <1>4, Numbers DEF IInv, Phase
    <3> QED
      BY <1>1, <1>4, <3>1 DEF IInv, Dialogue, Sent, env
  <2>2. True([of |-> c, res |-> "OK"])'
    <3>1. c \in Settings => c \in set'
      BY <1>1, Numbers
    <3> QED
      BY <1>1, <1>2, <3>1, Numbers DEF True
  <2>3. CASE c # 1
    <3>1. set \subseteq set'
      BY <1>1, <2>3
    <3>2. \A l \in {line[i] : i \in DOMAIN line} : True(l)'
      BY <1>1, <2>1, <3>1 DEF True
    <3>3. Unset' \subseteq Unset
      BY <2>1, <3>1 DEF Unset
    <3> QED
      BY <2>2, <3>2, <3>3 DEF Unsettled
  (* The first setting: it brings the default of the others, none of which *)
  (* the modem has looked at.                                              *)
  <2>4. CASE c = 1
    <3>1. Len(todo) = Sent /\ set' = {1}
      <4>1. todo[1] + Len(todo) = Sent + 1
        BY <1>2, <2>1 DEF InOrder
      <4>2. Len(todo) = Sent
        <5>1. todo[1] = 1
          BY <1>2, <2>4
        <5>2. Len(todo) \in Nat /\ Sent \in Nat
          BY <1>2, <2>1
        <5> QED
          BY <4>1, <5>1, <5>2
      <4>3. c # Probe
        BY <2>4, Numbers
      <4> QED
        BY <1>1, <2>4, <4>2, <4>3
    <3>2. ASSUME NEW i \in DOMAIN line, line[i].of # Nobody
          PROVE  line[i].of = 0
      <4>1. line[i].of + Len(todo) <= Sent
        BY <2>1, <3>2 DEF InOrder
      <4>2. line[i].of \in Nat
        <5>1. line \in Seq(Line)
          BY DEF IInv, TypeOK
        <5>2. line[i] \in Line
          BY <5>1
        <5>3. line[i].of \in Commands \cup {Nobody}
          BY <5>2 DEF Line
        <5>4. Commands \subseteq Nat
          BY Numbers
        <5> QED
          BY <3>2, <5>3, <5>4
      <4> QED
        BY <2>1, <3>1, <4>1, <4>2
    <3>3. ASSUME NEW i \in DOMAIN line PROVE True(line[i]) /\ line[i].of \notin Settings
      BY <2>1, <3>2, Numbers
    <3>4. \A l \in {line[i] : i \in DOMAIN line} : True(l)'
      BY <1>1, <3>3 DEF True
    <3>5. ASSUME NEW d \in Unset'
          PROVE  d \in Waiting
      <4>1. d \in 1..Sent /\ d \in Settings
        BY <2>1, Numbers DEF Unset
      <4>2. d \in DOMAIN todo /\ todo[d] + Len(todo) = Sent + d /\ todo[d] \in Nat
        <5>1. d \in DOMAIN todo
          BY <1>2, <3>1, <4>1
        <5>2. todo[d] \in Commands
          BY <1>2, <5>1
        <5> QED
          BY <2>1, <5>1, <5>2, Numbers DEF InOrder
      <4>3. todo[d] = d
        BY <2>1, <3>1, <4>1, <4>2
      <4> QED
        BY <4>1, <4>2, <4>3, Numbers DEF Waiting
    <3> QED
      BY <2>2, <3>4, <3>5 DEF Unsettled
  <2> QED
    BY <2>3, <2>4
<1> QED
  BY <1>0, <1>1, <1>3, <1>4, Answered

LEMMA ConnectIInv ==
  ASSUME IInv, Connect
  PROVE  IInv'
<1>1. /\ todo # <<>> /\ Head(todo) = Dial
      /\ line' = Append(line, [of |-> Dial, res |-> "CONNECT"]) /\ todo' = Tail(todo)
      /\ online' = TRUE
      /\ UNCHANGED <<env, pc, k, tries, set, rings, steals>>
  BY DEF Connect, Says
<1>2. /\ set' \subseteq Settings /\ online' \in BOOLEAN
      /\ [of |-> Dial, res |-> "CONNECT"] \in Line
  BY <1>1, Numbers DEF IInv, TypeOK, Line
<1>3. ASSUME Talking
      PROVE  /\ \A l \in {line[i] : i \in DOMAIN line} : True(l)'
             /\ True([of |-> Dial, res |-> "CONNECT"])'
             /\ Unset' \subseteq Unsettled
  <2>1. \A l \in {line[i] : i \in DOMAIN line} : True(l)
    BY <1>3 DEF IInv, Dialogue
  <2>2. \A l \in {line[i] : i \in DOMAIN line} : True(l)'
    BY <1>1, <2>1 DEF True
  <2>3. True([of |-> Dial, res |-> "CONNECT"])'
    BY <1>1, Numbers DEF True
  <2> QED
    BY <1>1, <2>2, <2>3 DEF Unset, Unsettled, Sent
<1> QED
  BY <1>1, <1>2, <1>3, Answered

LEMMA RefuseIInv ==
  ASSUME IInv, Refuse
  PROVE  IInv'
<1>0. PICK c : c = Head(todo)
  OBVIOUS
<1>3. PICK r \in {"NO CARRIER", "ERROR"} :
        r = IF c = Dial THEN "NO CARRIER" ELSE "ERROR"
  OBVIOUS
<1>1. /\ todo # <<>>
      /\ line' = Append(line, [of |-> c, res |-> r]) /\ todo' = Tail(todo)
      /\ UNCHANGED <<env, pc, k, tries, set, online, rings, steals>>
  BY <1>0, <1>3 DEF Refuse, Says
<1>2. c \in Commands
  <2>1. todo \in Seq(Commands) /\ todo # <<>>
    BY <1>1 DEF IInv, TypeOK
  <2> QED
    BY <1>0, <2>1, HeadTail, ZenonT(60)
<1>4. /\ set' \subseteq Settings /\ online' \in BOOLEAN
      /\ [of |-> c, res |-> r] \in Line
  BY <1>1, <1>2, <1>3 DEF IInv, TypeOK, Line
<1>5. ASSUME Talking
      PROVE  /\ \A l \in {line[i] : i \in DOMAIN line} : True(l)'
             /\ True([of |-> c, res |-> r])'
             /\ Unset' \subseteq Unsettled
  <2>1. \A l \in {line[i] : i \in DOMAIN line} : True(l)
    BY <1>5 DEF IInv, Dialogue
  <2>2. \A l \in {line[i] : i \in DOMAIN line} : True(l)'
    BY <1>1, <2>1 DEF True
  <2>3. True([of |-> c, res |-> r])'
    <3>1. r \notin {"OK", "RING", "CONNECT"} /\ (c = Dial => r = "NO CARRIER")
      BY <1>3
    <3> QED
      BY <1>2, <3>1, Numbers DEF True
  <2> QED
    BY <1>1, <2>2, <2>3 DEF Unset, Unsettled, Sent
<1> QED
  BY <1>0, <1>1, <1>4, <1>5, Answered

(* A line that nobody asked for is waited for by nobody.                   *)
LEMMA RingIInv ==
  ASSUME IInv, Ring
  PROVE  IInv'
<1> DEFINE l == [of |-> Nobody, res |-> "RING"]
<1>1. /\ rings > 0 /\ pc \notin {"connected", "gaveUp"} /\ rings' = rings - 1
      /\ line' = Append(line, l)
      /\ UNCHANGED <<env, pc, k, tries, modem, steals>>
  BY DEF Ring, Says
<1>2. l \in Line /\ line \in Seq(Line) /\ l.of = Nobody /\ l.res = "RING"
  BY DEF Line, IInv, TypeOK
<1> HIDE DEF l
<1>3. /\ line' \in Seq(Line) /\ Len(line) \in Nat /\ Len(line') = Len(line) + 1
      /\ DOMAIN line = 1..Len(line) /\ DOMAIN line' = 1..(Len(line) + 1)
      /\ \A i \in DOMAIN line : line'[i] = line[i]
      /\ line'[Len(line) + 1] = l
  BY <1>1, <1>2, Appended
<1>4. TypeOK'
  <2>1. rings' \in 0..MaxRings
    BY <1>1, DialAssumption DEF IInv, TypeOK
  <2> QED
    BY <1>1, <1>3, <2>1 DEF IInv, TypeOK, env, modem
<1>5. Phase'
  BY <1>1 DEF IInv, Phase, Talking, env, modem
<1>6. ASSUME Talking
      PROVE  Dialogue'
  <2>1. Sent' = Sent /\ Bound' = Bound
    BY <1>1 DEF Sent, Bound, env
  <2>2. InOrder'
    <3>1. \A i \in DOMAIN line' : line'[i].of # Nobody => i \in DOMAIN line
      BY <1>2, <1>3
    <3> QED
      BY <1>1, <1>3, <1>6, <2>1, <3>1 DEF IInv, Dialogue, InOrder, modem
  <2>3. (\A i \in DOMAIN line : True(line[i]))'
    <3> SUFFICES ASSUME NEW i \in DOMAIN line' PROVE True(line[i])'
      OBVIOUS
    <3>1. CASE i \in DOMAIN line
      BY <1>1, <1>3, <1>6, <3>1 DEF IInv, Dialogue, True, modem
    <3>2. CASE i = Len(line) + 1
      BY <1>2, <1>3, <3>2, Numbers DEF True
    <3> QED
      BY <1>3, <3>1, <3>2
  <2>4. Waiting' = Waiting
    <3>1. ASSUME NEW d \in Commands
          PROVE  (\E i \in DOMAIN line' : line'[i].of = d)
                   <=> (\E i \in DOMAIN line : line[i].of = d)
      BY <1>2, <1>3, Numbers
    <3> QED
      BY <1>1, <3>1 DEF Waiting, modem
  <2>5. Unset' = Unset /\ Unsettled' = Unsettled
    BY <1>1, <2>1, <2>4 DEF Unset, Unsettled, modem
  <2>6. Settled'
    BY <1>1, <1>6, <2>1, <2>4, <2>5 DEF IInv, Dialogue, Settled, env, modem
  <2> QED
    BY <2>2, <2>3, <2>6 DEF Dialogue
<1> QED
  <2>1. Talking' => Talking
    BY <1>1 DEF Talking
  <2> QED
    BY <1>4, <1>5, <1>6, <2>1 DEF IInv

-----------------------------------------------------------------------------
(* Lines that are taken.                                                   *)

(* The first line goes: the rest is in order, and the command it answered  *)
(* is waited for no more.                                                  *)
LEMMA LineTaken ==
  ASSUME IInv, Talking, line # <<>>, line' = Tail(line), Sent' = Sent, UNCHANGED modem
  PROVE  /\ InOrder' /\ (\A i \in DOMAIN line : True(line[i]))'
         /\ Waiting' \subseteq Waiting /\ Unset' = Unset /\ Unsettled' \subseteq Unsettled
         /\ line[1].of \notin Waiting'
         /\ line[1] \in Line /\ True(line[1])
         /\ line[1].of # Nobody => line[1].of \in Waiting /\ line[1].of + Len(todo) <= Sent
<1>1. /\ line \in Seq(Line) /\ line' \in Seq(Line) /\ 1 \in DOMAIN line /\ line[1] \in Line
      /\ DOMAIN line = 1..Len(line) /\ DOMAIN line' = 1..(Len(line) - 1)
      /\ Len(line) \in Nat \ {0}
      /\ \A i \in DOMAIN line' : i + 1 \in DOMAIN line /\ line'[i] = line[i + 1]
  BY HeadTail DEF IInv, TypeOK
<1>2. InOrder /\ (\A i \in DOMAIN line : True(line[i])) /\ Sent \in Nat
  <2>1. k \in Nat \ {0}
    BY Numbers DEF IInv, Phase
  <2> QED
    BY <2>1 DEF IInv, Dialogue, Sent
<1>3. \A i \in DOMAIN line : line[i].of \in Nat /\ line[i].of \in Commands \cup {Nobody}
  <2>1. \A m \in Line : m.of \in Commands \cup {Nobody}
    BY DEF Line
  <2>2. Commands \cup {Nobody} \subseteq Nat
    BY Numbers
  <2>3. \A i \in DOMAIN line : line[i] \in Line
    BY <1>1
  <2> QED
    BY <2>1, <2>2, <2>3
<1>4. InOrder'
  <2>1. \A i \in DOMAIN line' : line'[i].of # Nobody => line'[i].of + Len(todo) <= Sent
    BY <1>1, <1>2 DEF InOrder
  <2>2. ASSUME NEW i \in DOMAIN line', NEW j \in DOMAIN line', i < j,
               Nobody \notin {line'[i].of, line'[j].of}
        PROVE  line'[i].of < line'[j].of
    <3>1. PICK a \in DOMAIN line : a = i + 1 /\ line'[i] = line[a]
      BY <1>1
    <3>2. PICK b \in DOMAIN line : b = j + 1 /\ line'[j] = line[b]
      BY <1>1
    <3>3. a < b
      BY <1>1, <2>2, <3>1, <3>2
    <3> QED
      BY <1>2, <2>2, <3>1, <3>2, <3>3 DEF InOrder
  <2> QED
    BY <1>2, <2>1, <2>2 DEF InOrder, modem
<1>5. (\A i \in DOMAIN line : True(line[i]))'
  <2> SUFFICES ASSUME NEW i \in DOMAIN line' PROVE True(line[i])'
    OBVIOUS
  <2>1. PICK a \in DOMAIN line : line'[i] = line[a]
    BY <1>1
  <2>2. True(line[a])
    BY <1>2
  <2> QED
    BY <2>1, <2>2 DEF True, modem
<1>6. Waiting' \subseteq Waiting
  <2> SUFFICES ASSUME NEW d \in Waiting' PROVE d \in Waiting
    OBVIOUS
  <2>1. d \in Commands
    BY DEF Waiting
  <2>2. ASSUME NEW i \in DOMAIN line', line'[i].of = d PROVE d \in Waiting
    BY <1>1, <2>1, <2>2 DEF Waiting
  <2> QED
    BY <2>1, <2>2 DEF Waiting, modem
<1>7. Unset' = Unset /\ Unsettled' \subseteq Unsettled
  BY <1>6 DEF Unset, Unsettled, modem
<1>8. ASSUME line[1].of # Nobody
      PROVE  line[1].of \in Waiting /\ line[1].of + Len(todo) <= Sent
  BY <1>1, <1>2, <1>3, <1>8 DEF Waiting, InOrder
<1>9. line[1].of \notin Waiting'
  <2> SUFFICES ASSUME line[1].of \in Waiting' PROVE FALSE
    OBVIOUS
  <2>1. line[1].of # Nobody /\ line[1].of + Len(todo) <= Sent
    BY <1>8, Numbers DEF Waiting
  <2>2. ASSUME NEW i \in DOMAIN todo, todo[i] = line[1].of PROVE FALSE
    <3>1. i \in 1..Len(todo) /\ Len(todo) \in Nat
      BY DEF IInv, TypeOK
    <3>2. todo[i] + Len(todo) = Sent + i
      BY <1>2 DEF InOrder
    <3> QED
      BY <1>1, <1>2, <1>3, <2>1, <2>2, <3>1, <3>2
  <2>3. ASSUME NEW i \in DOMAIN line', line'[i].of = line[1].of PROVE FALSE
    <3>1. PICK a \in DOMAIN line : a = i + 1 /\ line'[i] = line[a]
      BY <1>1
    <3>2. 1 < a /\ 1 \in DOMAIN line
      BY <1>1, <3>1
    <3>3. line[1].of < line[a].of
      BY <1>2, <2>1, <2>3, <3>1, <3>2 DEF InOrder
    <3> QED
      BY <1>3, <2>3, <3>1, <3>2, <3>3
  <2> QED
    BY <2>2, <2>3 DEF Waiting, modem
<1> QED
  BY <1>1, <1>2, <1>4, <1>5, <1>6, <1>7, <1>8, <1>9

LEMMA StealIInv ==
  ASSUME IInv, Steal
  PROVE  IInv'
<1>1. /\ steals > 0 /\ line # <<>> /\ steals' = steals - 1 /\ line' = Tail(line)
      /\ UNCHANGED <<env, pc, k, tries, modem, rings>>
  BY DEF Steal
<1>2. TypeOK'
  <2>1. line' \in Seq(Line)
    BY <1>1, HeadTail DEF IInv, TypeOK
  <2>2. steals' \in 0..MaxSteals
    BY <1>1, DialAssumption DEF IInv, TypeOK
  <2> QED
    BY <1>1, <2>1, <2>2 DEF IInv, TypeOK, env, modem
<1>3. Phase'
  BY <1>1 DEF IInv, Phase, Talking, env, modem
<1>4. ASSUME Talking
      PROVE  Dialogue'
  <2>1. Sent' = Sent /\ Bound' = Bound
    BY <1>1 DEF Sent, Bound, env
  <2>2. /\ InOrder' /\ (\A i \in DOMAIN line : True(line[i]))'
        /\ Waiting' \subseteq Waiting /\ Unsettled' \subseteq Unsettled
    BY <1>1, <1>4, <2>1, LineTaken
  <2>3. /\ Cardinality(Unsettled') <= Cardinality(Unsettled)
        /\ Cardinality(Unsettled') \in Nat /\ Cardinality(Unsettled) \in Nat
        /\ Bound \in Nat
    <3>1. Unsettled \in SUBSET Commands
      BY Numbers
    <3>2. Unsettled' \in SUBSET Commands
      BY <2>2, <3>1
    <3> QED
      BY <2>2, <3>1, <3>2, Counting DEF Bound
  <2>4. steals' # MaxSteals
    BY <1>1, DialAssumption DEF IInv, TypeOK
  <2>5. Cardinality(Unsettled') <= IF pc' = "read" THEN Bound' + 1 ELSE Bound'
    BY <1>1, <1>4, <2>1, <2>3 DEF IInv, Dialogue, Settled
  <2>6. Settled'
    BY <1>1, <1>4, <2>2, <2>4, <2>5 DEF IInv, Dialogue, Settled, modem
  <2> QED
    BY <2>2, <2>6 DEF Dialogue
<1> QED
  <2>1. Talking' => Talking
    BY <1>1 DEF Talking
  <2> QED
    BY <1>2, <1>3, <1>4, <2>1 DEF IInv

-----------------------------------------------------------------------------
(* The dialling thread.                                                    *)

(* A failed attempt starts another or ends the dialling.                   *)
LEMMA AgainIInv ==
  ASSUME IInv, pc = "read", Again, line' \in Seq(Line),
         UNCHANGED <<env, modem, rings, steals>>
  PROVE  IInv'
<1>1. tries' \in 0..Tries /\ pc' \in {"reset", "gaveUp"}
      /\ (pc' = "reset" => (tries' = 0 <=> ~boot))
  <2>1. /\ boot \in BOOLEAN /\ tries \in 0..Tries /\ (tries = 0 <=> ~boot) /\ Tries \in Nat
    BY DialAssumption DEF IInv, TypeOK, Phase
  <2>2. CASE boot
    BY <2>1, <2>2 DEF Again
  <2>3. CASE ~boot
    BY <2>1, <2>3 DEF Again
  <2> QED
    BY <2>1, <2>2, <2>3
<1>2. k' = k
  BY DEF Again
<1>3. TypeOK'
  BY <1>1, <1>2 DEF IInv, TypeOK, env, modem
<1>4. ~Talking'
  BY <1>1 DEF Talking
<1>5. Phase'
  BY <1>1, <1>4 DEF Phase, env
<1> QED
  BY <1>3, <1>4, <1>5 DEF IInv

LEMMA ResetIInv ==
  ASSUME IInv, Reset
  PROVE  IInv'
<1>1. /\ pc = "reset" /\ pc' = "probe" /\ todo' = <<>> /\ set' = {} /\ online' = FALSE
      /\ UNCHANGED <<env, k, tries, line, rings, steals>>
  BY DEF Reset
<1>2. TypeOK'
  <2>1. online' \in BOOLEAN
    BY <1>1
  <2>2. <<>> \in Seq(Commands)
    OBVIOUS
  <2> QED
    BY <1>1, <2>1, <2>2 DEF IInv, TypeOK, env
<1>3. Phase' /\ ~Talking'
  BY <1>1 DEF IInv, Phase, Talking, env
<1> QED
  BY <1>2, <1>3 DEF IInv

LEMMA SendProbeIInv ==
  ASSUME IInv, SendProbe
  PROVE  IInv'
<1>1. /\ pc = "probe" /\ pc' = "flush" /\ todo' = Append(todo, Probe) /\ todo = <<>>
      /\ UNCHANGED <<env, k, tries, line, set, online, rings, steals>>
  BY DEF SendProbe, IInv, Phase
<1>2. todo' = <<Probe>>
  BY <1>1
<1>3. TypeOK'
  <2>1. todo' \in Seq(Commands)
    BY <1>2, Numbers
  <2> QED
    BY <1>1, <2>1 DEF IInv, TypeOK, env
<1>4. Phase' /\ ~Talking'
  BY <1>1, <1>2 DEF IInv, Phase, Talking, env
<1> QED
  BY <1>3, <1>4 DEF IInv

(* After the flush nothing is waited for but a late answer to the probe.   *)
LEMMA FlushIInv ==
  ASSUME IInv, Flush
  PROVE  IInv'
<1>1. /\ pc = "flush" /\ Waited /\ line' = <<>> /\ k' = 1 /\ pc' = "send"
      /\ UNCHANGED <<env, tries, modem, rings, steals>>
  BY DEF Flush
<1>2. /\ todo = <<>> \/ (todo = <<Probe>> /\ late)
      /\ todo' = todo /\ Sent' = 0 /\ Bound' = Bound /\ late \in BOOLEAN
  BY <1>1 DEF IInv, TypeOK, Phase, Waited, Sent, Bound, env, modem
<1>3. TypeOK'
  <2>1. line' \in Seq(Line) /\ k' \in Commands
    BY <1>1, Numbers
  <2> QED
    BY <1>1, <2>1 DEF IInv, TypeOK, env, modem
<1>4. Phase'
  BY <1>1, Numbers DEF IInv, Phase, Talking, env, modem
<1>5. InOrder'
  <2>1. DOMAIN line' = {}
    BY <1>1
  <2>2. Len(todo) <= 1 /\ \A i \in DOMAIN todo : todo[i] + Len(todo) = i
    <3>1. CASE todo = <<>>
      BY <3>1
    <3>2. CASE todo = <<Probe>>
      BY <3>2, Numbers
    <3> QED
      BY <1>2, <3>1, <3>2
  <2>3. \A i \in DOMAIN todo : i \in Nat
    BY DEF IInv, TypeOK
  <2> QED
    BY <1>2, <2>1, <2>2, <2>3 DEF InOrder
<1>6. Unset' = {} /\ Waiting' \in SUBSET Commands
  <2>1. Unset' = {}
    BY <1>2, Numbers DEF Unset
  <2> QED
    BY <2>1 DEF Waiting
<1>7. Waiting' \subseteq (IF late THEN {Probe} ELSE {})
  <2>1. DOMAIN line' = {}
    BY <1>1
  <2>2. \A i \in DOMAIN todo : todo[i] = Probe
    BY <1>2
  <2>3. ~late => DOMAIN todo = {}
    BY <1>2
  <2> QED
    BY <1>2, <2>1, <2>2, <2>3 DEF Waiting
<1>8. Settled'
  <2>1. Unsettled' = Waiting'
    BY <1>6 DEF Unsettled
  <2>2. Cardinality(Waiting') <= Bound
    <3>1. Probe \in Commands /\ {} \in SUBSET Commands /\ Cardinality({}) = 0
      BY Numbers, FS_EmptySet
    <3>2. CASE late
      <4>1. Waiting' \subseteq {} \cup {Probe}
        BY <1>7, <3>2
      <4>2. Cardinality(Waiting') <= Cardinality({}) + 1
        BY <1>6, <3>1, <4>1, Counting
      <4> QED
        BY <3>1, <3>2, <4>2 DEF Bound
    <3>3. CASE ~late
      <4>1. Waiting' = {}
        BY <1>7, <3>3
      <4> QED
        BY <3>1, <3>3, <4>1 DEF Bound
    <3> QED
      BY <3>2, <3>3
  <2> QED
    BY <1>1, <1>2, <1>6, <2>1, <2>2 DEF Settled
<1>9. (\A i \in DOMAIN line : True(line[i]))'
  <2>1. DOMAIN line' = {}
    BY <1>1
  <2> QED
    BY <2>1
<1> QED
  BY <1>3, <1>4, <1>5, <1>8, <1>9 DEF IInv, Dialogue

(* A command more that is not settled.                                     *)
LEMMA SendIInv ==
  ASSUME IInv, Send
  PROVE  IInv'
<1>1. /\ pc = "send" /\ pc' = "read" /\ todo' = Append(todo, k)
      /\ line' = IF boot /\ k = Dial THEN <<>> ELSE line
      /\ UNCHANGED <<env, k, tries, set, online, rings, steals>>
  BY DEF Send
<1>2. /\ Dialogue /\ k \in Nat \ {0} /\ k \in Commands /\ Sent = k - 1 /\ Sent' = k
      /\ Bound' = Bound /\ Bound \in Nat
  BY <1>1, Numbers DEF IInv, TypeOK, Phase, Talking, Sent, Bound, env
<1>3. /\ todo' \in Seq(Commands) /\ Len(todo) \in Nat /\ Len(todo') = Len(todo) + 1
      /\ DOMAIN todo = 1..Len(todo) /\ DOMAIN todo' = 1..(Len(todo) + 1)
      /\ \A i \in DOMAIN todo : todo'[i] = todo[i] /\ todo[i] \in Nat
      /\ todo'[Len(todo) + 1] = k
  <2>1. todo \in Seq(Commands)
    BY DEF IInv, TypeOK
  <2>2. \A i \in DOMAIN todo : todo[i] \in Nat
    <3>1. \A i \in DOMAIN todo : todo[i] \in Commands
      BY <2>1
    <3> QED
      BY <3>1, Numbers
  <2> QED
    BY <1>1, <1>2, <2>1, <2>2, Appended
<1>4. line' = <<>> \/ line' = line
  BY <1>1
<1>5. \A i \in DOMAIN line : line[i].of \in Nat
  <2>1. \A m \in Line : m.of \in Commands \cup {Nobody}
    BY DEF Line
  <2>2. Commands \cup {Nobody} \subseteq Nat
    BY Numbers
  <2>3. \A i \in DOMAIN line : line[i] \in Line
    BY DEF IInv, TypeOK
  <2> QED
    BY <2>1, <2>2, <2>3
<1>6. TypeOK' /\ Phase'
  <2>1. line' \in Seq(Line)
    <3>1. <<>> \in Seq(Line) /\ line \in Seq(Line)
      BY DEF IInv, TypeOK
    <3> QED
      BY <1>4, <3>1
  <2>2. TypeOK'
    BY <1>1, <1>3, <2>1 DEF IInv, TypeOK, env
  <2> QED
    BY <1>1, <2>2 DEF IInv, Phase, Talking, env
<1>7. InOrder'
  <2>1. Len(todo') <= Sent' + 1
    BY <1>2, <1>3 DEF Dialogue, InOrder
  <2>2. ASSUME NEW i \in DOMAIN todo'
        PROVE  todo'[i] + Len(todo') = Sent' + i
    <3>1. CASE i \in DOMAIN todo
      <4>1. todo[i] + Len(todo) = Sent + i /\ todo[i] \in Nat
        BY <1>2, <1>3, <3>1 DEF Dialogue, InOrder
      <4>2. todo'[i] = todo[i] /\ Len(todo') = Len(todo) + 1 /\ Len(todo) \in Nat /\ i \in Nat
        BY <1>3, <3>1
      <4>3. Sent' = Sent + 1 /\ Sent \in Nat
        BY <1>2
      <4> QED
        BY <4>1, <4>2, <4>3
    <3>2. CASE i = Len(todo) + 1
      <4>1. todo'[i] = k /\ Len(todo') = i /\ i \in Nat
        BY <1>3, <3>2
      <4>2. Sent' = k
        BY <1>2
      <4> QED
        BY <4>1, <4>2
    <3> QED
      BY <1>3, <3>1, <3>2
  <2>3. CASE line' = <<>>
    <3>1. DOMAIN line' = {}
      BY <2>3
    <3> QED
      BY <2>1, <2>2, <3>1 DEF InOrder
  <2>4. CASE line' = line
    <3>1. \A i \in DOMAIN line : line[i].of # Nobody => line[i].of + Len(todo') <= Sent'
      BY <1>2, <1>3, <1>5 DEF Dialogue, InOrder
    <3> QED
      BY <1>2, <2>1, <2>2, <2>4, <3>1 DEF Dialogue, InOrder
  <2> QED
    BY <1>4, <2>3, <2>4
<1>8. (\A i \in DOMAIN line : True(line[i]))'
  <2>1. CASE line' = <<>>
    <3>1. DOMAIN line' = {}
      BY <2>1
    <3> QED
      BY <3>1
  <2>2. CASE line' = line
    BY <1>1, <1>2, <2>2 DEF Dialogue, True
  <2> QED
    BY <1>4, <2>1, <2>2
<1>9. /\ Waiting' \subseteq Waiting \cup {k} /\ Unset' \subseteq Unset \cup {k}
      /\ line' = line => Waiting \cup {k} \subseteq Waiting'
  <2>1. ASSUME NEW d \in Waiting', d # k
        PROVE  d \in Waiting
    <3>1. d \in Commands
      BY DEF Waiting
    <3>2. ASSUME NEW i \in DOMAIN todo', todo'[i] = d PROVE d \in Waiting
      <4>1. i \in DOMAIN todo /\ todo[i] = d
        BY <1>3, <2>1, <3>2
      <4> QED
        BY <3>1, <4>1 DEF Waiting
    <3>3. ASSUME NEW i \in DOMAIN line', line'[i].of = d PROVE d \in Waiting
      <4>1. line' = line
        <5>1. DOMAIN <<>> = {}
          OBVIOUS
        <5> QED
          BY <1>4, <3>3, <5>1
      <4> QED
        BY <3>1, <3>3, <4>1 DEF Waiting
    <3> QED
      BY <3>2, <3>3 DEF Waiting
  <2>2. Unset' \subseteq Unset \cup {k}
    <3>1. \A d \in Settings : d \in Nat
      BY Numbers
    <3> QED
      BY <1>1, <1>2, <3>1 DEF Unset
  <2>3. ASSUME line' = line, NEW d \in Waiting \cup {k}
        PROVE  d \in Waiting'
    <3>1. CASE d = k
      <4>1. Len(todo) + 1 \in DOMAIN todo' /\ todo'[Len(todo) + 1] = d
        BY <1>3, <3>1
      <4> QED
        BY <1>2, <3>1, <4>1 DEF Waiting
    <3>2. CASE d \in Waiting
      <4>1. \A i \in DOMAIN todo : i \in DOMAIN todo' /\ todo'[i] = todo[i]
        BY <1>3
      <4> QED
        BY <2>3, <3>2, <4>1 DEF Waiting
    <3> QED
      BY <3>1, <3>2
  <2> QED
    BY <2>1, <2>2, <2>3
<1>10. Settled'
  <2>1. Unsettled \in SUBSET Commands /\ Unsettled' \in SUBSET Commands
    BY <1>2, <1>9, Numbers DEF Unsettled
  <2>2. Unsettled' \subseteq Unsettled \cup {k}
    BY <1>9 DEF Unsettled
  <2>3. Cardinality(Unsettled') <= Cardinality(Unsettled) + 1
    BY <1>2, <2>1, <2>2, Counting
  <2>4. Cardinality(Unsettled') \in Nat /\ Cardinality(Unsettled) \in Nat
    BY <2>1, Counting
  <2>5. Cardinality(Unsettled) <= Bound
    BY <1>1, <1>2 DEF Dialogue, Settled
  <2>6. steals' = MaxSteals /\ ~boot' => Unset' \subseteq Waiting'
    <3> SUFFICES ASSUME steals = MaxSteals, ~boot PROVE Unset' \subseteq Waiting'
      BY <1>1 DEF env
    <3>1. line' = line
      BY <1>1
    <3>2. Unset \subseteq Waiting
      BY <1>2 DEF Dialogue, Settled
    <3> QED
      BY <1>9, <3>1, <3>2
  <2> QED
    BY <1>1, <1>2, <2>3, <2>4, <2>5, <2>6 DEF Settled
<1> QED
  BY <1>6, <1>7, <1>8, <1>10 DEF IInv, Dialogue

(* The first line is read.  If it is the expected result it settles the    *)
(* command it answers, whichever that is; a CONNECT is the last answer     *)
(* there can be.                                                           *)
LEMMA ReadIInv ==
  ASSUME IInv, Read
  PROVE  IInv'
<1>1. /\ pc = "read" /\ line # <<>> /\ line' = Tail(line)
      /\ UNCHANGED <<env, modem, rings, steals>>
      /\ line' \in Seq(Line) /\ Head(line) = line[1]
  BY HeadTail DEF Read, IInv, TypeOK
<1>2. CASE ~Expected(line[1].res)
  <2>1. Again
    BY <1>1, <1>2 DEF Read
  <2> QED
    BY <1>1, <2>1, AgainIInv
<1>3. CASE Expected(line[1].res)
  <2>1. /\ tries' = tries
        /\ IF k = Dial THEN pc' = "connected" /\ k' = k ELSE pc' = "send" /\ k' = k + 1
    BY <1>1, <1>3 DEF Read
  <2>2. /\ Dialogue /\ k \in Nat \ {0} /\ k \in Commands /\ Sent = k /\ Sent' = Sent
        /\ k \in Settings \cup {Dial} /\ Bound' = Bound /\ Bound \in Nat /\ Talking
    <3>1. Dialogue /\ k \in Settings \cup {Dial} /\ Talking
      BY <1>1 DEF IInv, Phase, Talking
    <3>2. k \in Nat \ {0} /\ k \in Commands
      BY <3>1, Numbers
    <3>3. Sent = k /\ Sent' = k
      BY <1>1, <2>1, <3>2 DEF Sent
    <3> QED
      BY <1>1, <3>1, <3>2, <3>3 DEF Bound, env
  <2>3. /\ InOrder' /\ (\A i \in DOMAIN line : True(line[i]))'
        /\ Waiting' \subseteq Waiting /\ Unset' = Unset /\ Unsettled' \subseteq Unsettled
        /\ line[1].of \notin Waiting'
        /\ line[1] \in Line /\ True(line[1])
        /\ line[1].of # Nobody => line[1].of \in Waiting /\ line[1].of + Len(todo) <= Sent
    BY <1>1, <2>2, LineTaken
  <2>4. /\ k = Dial => line[1].res = "CONNECT" /\ line[1].of = Dial
        /\ k # Dial => line[1].res = "OK" /\ line[1].of \notin {Dial, Nobody}
    BY <1>3, <2>3 DEF Expected, True
  <2>5. /\ line[1].of # Nobody /\ line[1].of \in Commands
        /\ line[1].of \in Unsettled /\ line[1].of \notin Unset
    <3>1. line[1].of # Nobody
      BY <2>4, Numbers
    <3>2. line[1].of \in Waiting /\ line[1].of \in Commands
      BY <2>3, <3>1 DEF Waiting
    <3>3. line[1].of \in Settings => line[1].of \in set
      BY <2>3, <2>4, Numbers DEF True
    <3> QED
      BY <3>1, <3>2, <3>3 DEF Unsettled, Unset
  <2>6. Cardinality(Unsettled') <= Bound'
    <3>1. Unsettled' \subseteq Unsettled \ {line[1].of}
      BY <2>3, <2>5 DEF Unsettled
    <3>2. Unsettled \in SUBSET Commands
      BY Numbers
    <3>3. Unsettled' \in SUBSET Commands
      BY <3>1, <3>2
    <3>4. Cardinality(Unsettled') <= Cardinality(Unsettled) - 1
      BY <2>5, <3>1, <3>2, <3>3, Counting
    <3>5. Cardinality(Unsettled) \in Nat /\ Cardinality(Unsettled') \in Nat
      BY <3>2, <3>3, Counting
    <3>6. Cardinality(Unsettled) <= Bound + 1
      BY <1>1, <2>2 DEF Dialogue, Settled
    <3> QED
      BY <2>2, <3>4, <3>5, <3>6
  <2>7. steals' = MaxSteals /\ ~boot' => Unset' \subseteq Waiting'
    <3> SUFFICES ASSUME steals = MaxSteals, ~boot, NEW d \in Unset PROVE d \in Waiting'
      BY <1>1, <2>3 DEF env
    <3>1. d \in Waiting /\ d # line[1].of /\ d \in Commands
      BY <2>2, <2>5 DEF Dialogue, Settled, Waiting
    <3>2. ASSUME NEW i \in DOMAIN line, line[i].of = d PROVE d \in Waiting'
      <4>1. i # 1 /\ i \in 1..Len(line) /\ line \in Seq(Line) /\ Len(line) \in Nat
        BY <3>1, <3>2 DEF IInv, TypeOK
      <4>2. (i - 1) \in DOMAIN line' /\ line'[i - 1] = line[(i - 1) + 1]
        BY <1>1, <4>1, HeadTail
      <4>3. line'[i - 1].of = d
        BY <3>2, <4>1, <4>2
      <4> QED
        BY <3>1, <4>2, <4>3 DEF Waiting
    <3> QED
      BY <1>1, <3>1, <3>2 DEF Waiting, modem
  <2>8. CASE k # Dial
    <3>1. k' \in Settings \cup {Dial} /\ k' \in Commands /\ pc' = "send"
      BY <2>1, <2>2, <2>8, Numbers
    <3>2. TypeOK' /\ Phase'
      BY <1>1, <2>1, <3>1 DEF IInv, TypeOK, Phase, env, modem
    <3>3. Settled'
      BY <2>6, <2>7, <3>1 DEF Settled
    <3> QED
      BY <2>3, <3>2, <3>3 DEF IInv, Dialogue
  <2>9. CASE k = Dial
    <3>1. pc' = "connected" /\ k' = Dial
      BY <2>1, <2>9
    <3>2. todo = <<>> /\ todo' = <<>>
      <4>1. line[1].of + Len(todo) <= k /\ line[1].of = k
        BY <2>2, <2>3, <2>4, <2>5, <2>9
      <4>2. todo \in Seq(Commands) /\ Len(todo) \in Nat
        BY DEF IInv, TypeOK
      <4>3. Len(todo) = 0
        BY <2>2, <4>1, <4>2
      <4> QED
        BY <1>1, <4>2, <4>3 DEF modem
    <3>3. TypeOK' /\ Phase'
      BY <1>1, <2>1, <2>2, <3>1, <3>2 DEF IInv, TypeOK, Phase, env, modem
    <3>4. Waiting' = {}
      <4> SUFFICES ASSUME NEW d \in Waiting' PROVE FALSE
        OBVIOUS
      <4>1. d \in Commands /\ d # Dial /\ d # Nobody
        BY <2>3, <2>4, <2>9, Numbers DEF Waiting
      <4>2. DOMAIN todo' = {}
        BY <3>2
      <4>3. PICK i \in DOMAIN line' : line'[i].of = d
        BY <4>2 DEF Waiting
      <4>4. PICK j \in DOMAIN line : 1 < j /\ line[j].of = d /\ 1 \in DOMAIN line
        <5>1. line \in Seq(Line) /\ line # <<>>
          BY <1>1 DEF IInv, TypeOK
        <5>2. i + 1 \in DOMAIN line /\ line'[i] = line[i + 1] /\ 1 < i + 1 /\ 1 \in DOMAIN line
          BY <1>1, <5>1, HeadTail
        <5> QED
          BY <4>3, <5>2
      <4>5. line[1].of < d
        BY <2>2, <2>5, <4>1, <4>4 DEF Dialogue, InOrder
      <4> QED
        BY <2>4, <2>9, <4>1, <4>5, Numbers
    <3>5. online'
      BY <1>1, <2>3, <2>4, <2>9 DEF True, modem
    <3>6. Settled'
      BY <2>6, <2>7, <3>1, <3>4, <3>5 DEF Settled
    <3> QED
      BY <2>3, <3>3, <3>6 DEF IInv, Dialogue
  <2> QED
    BY <2>8, <2>9
<1> QED
  BY <1>2, <1>3

LEMMA ReadTimeoutIInv ==
  ASSUME IInv, ReadTimeout
  PROVE  IInv'
<1>1. pc = "read" /\ Again /\ line' \in Seq(Line) /\ UNCHANGED <<env, modem, rings, steals>>
  BY DEF ReadTimeout, IInv, TypeOK
<1> QED
  BY <1>1, AgainIInv

-----------------------------------------------------------------------------
(* The invariant and what follows from it.                                 *)

LEMMA InitIInv == Init => IInv
<1> SUFFICES ASSUME Init PROVE IInv
  OBVIOUS
<1>1. TypeOK
  <2>1. line \in Seq(Line) /\ todo \in Seq(Commands) /\ k \in Commands
    BY Numbers DEF Init
  <2> QED
    BY <2>1, DialAssumption DEF Init, TypeOK
<1>2. Phase /\ ~Talking
  BY DialAssumption DEF Init, Phase, Talking
<1> QED
  BY <1>1, <1>2 DEF IInv

LEMMA StutterIInv == IInv /\ UNCHANGED vars => IInv'
<1> SUFFICES ASSUME IInv, UNCHANGED vars PROVE IInv'
  OBVIOUS
<1>1. TypeOK' /\ Phase' /\ Talking' = Talking
  BY DEF IInv, TypeOK, Phase, Talking, vars, env, modem
<1>2. Dialogue' = Dialogue
  BY DEF Dialogue, InOrder, True, Settled, Unsettled, Unset, Waiting, Sent, Bound,
     vars, env, modem
<1> QED
  BY <1>1, <1>2 DEF IInv

LEMMA Invariance == Spec => []IInv
<1>1. IInv /\ [Next]_vars => IInv'
  <2> SUFFICES ASSUME IInv, [Next]_vars PROVE IInv'
    OBVIOUS
  <2>1. CASE Modem
    BY <2>1, AcceptIInv, ConnectIInv, RefuseIInv DEF Modem
  <2>2. CASE Ring \/ Steal
    BY <2>2, RingIInv, StealIInv
  <2>3. CASE Host
    BY <2>3, ResetIInv, SendProbeIInv, FlushIInv, SendIInv, ReadIInv, ReadTimeoutIInv
       DEF Host
  <2>4. CASE UNCHANGED vars
    BY <2>4, StutterIInv
  <2> QED
    BY <2>1, <2>2, <2>3, <2>4 DEF Next
<1> QED
  BY InitIInv, <1>1, PTL DEF Spec

(* The types, for any number of settings and attempts.                     *)
THEOREM DialTypeCorrect == Spec => []TypeOK
<1>1. IInv => TypeOK
  BY DEF IInv
<1> QED
  BY <1>1, Invariance, PTL

(* No command is sent while more than one answer is outstanding, and none  *)
(* at all with a modem that answers in time, whatever calls come in and    *)
(* however many lines another thread takes.                                *)
THEOREM InStepHolds == Spec => []InStep
<1>1. ASSUME IInv PROVE InStep
  <2> SUFFICES ASSUME pc = "send" PROVE Cardinality(Waiting) <= Bound
    BY DEF InStep, Behind, Bound
  <2>1. Cardinality(Unsettled) <= Bound
    BY <1>1 DEF IInv, Talking, Dialogue, Settled
  <2>2. Waiting \subseteq Unsettled /\ Waiting \in SUBSET Commands /\ Unsettled \in SUBSET Commands
    BY Numbers DEF Unsettled
  <2>3. Cardinality(Waiting) <= Cardinality(Unsettled)
    BY <2>2, Counting
  <2>4. Cardinality(Waiting) \in Nat /\ Cardinality(Unsettled) \in Nat /\ Bound \in Nat
    BY <2>2, Counting DEF Bound
  <2> QED
    BY <2>1, <2>3, <2>4
<1> QED
  BY <1>1, Invariance, PTL

(* modem_ppp_link_reconnect goes on to PPP only with a modem that is       *)
(* connected and has accepted every setting, but for one that a late modem *)
(* refused and whose refusal was flushed or read by another thread.        *)
THEOREM ConnectedIsSetHolds == Spec => []ConnectedIsSet
<1>1. ASSUME IInv PROVE ConnectedIsSet
  <2> SUFFICES ASSUME pc = "connected"
               PROVE  /\ online
                      /\ Cardinality(Settings \ set)
                           <= (IF late /\ (boot \/ steals < MaxSteals) THEN 1 ELSE 0)
    BY DEF ConnectedIsSet
  <2>1. Settled /\ k = Dial
    BY <1>1 DEF IInv, Talking, Dialogue, Phase
  <2>2. Settings \ set = Unset
    BY <2>1, Numbers DEF Unset, Sent
  <2>3. online /\ Unsettled = Unset
    BY <2>1 DEF Settled, Unsettled
  <2>4. Cardinality(Unset) <= Bound
    BY <2>1, <2>3 DEF Settled
  <2>5. CASE late /\ (boot \/ steals < MaxSteals)
    BY <2>2, <2>3, <2>4, <2>5 DEF Bound
  <2>6. CASE ~late
    BY <2>2, <2>3, <2>4, <2>6 DEF Bound
  <2>7. CASE ~boot /\ ~(steals < MaxSteals)
    <3>1. steals = MaxSteals
      BY <1>1, <2>7, DialAssumption DEF IInv, TypeOK
    <3>2. Unset = {}
      BY <2>1, <2>7, <3>1 DEF Settled
    <3> QED
      BY <2>2, <2>3, <2>7, <3>2, FS_EmptySet
  <2> QED
    BY <2>5, <2>6, <2>7
<1> QED
  BY <1>1, Invariance, PTL
=============================================================================

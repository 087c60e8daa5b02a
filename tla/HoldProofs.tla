----------------------------- MODULE HoldProofs -----------------------------
(***************************************************************************)
(* A call that has the bot for itself is silent exactly while its caller   *)
(* holds it.                                                               *)
(*                                                                         *)
(* Its re-INVITEs arrive in the order of its flow (Ordered), so the last   *)
(* one that set the flag is the last one answered; a caller that accepts   *)
(* an answer awaits that of its last re-INVITE, and by then none is on its *)
(* way to the bot (Through).  Nobody else sets the flag (HasSlot).         *)
(***************************************************************************)
EXTENDS Hold, SequenceTheorems, TLAPS

OnlyBye(s) == \A i \in 1 .. Len(s) : s[i] = Bye

\* The entries of a channel come in the order of the flow.
Ascending(s) ==
  \A i, j \in 1 .. Len(s) : i < j /\ s[i] # Bye /\ s[j] # Bye => s[i] < s[j]

Contains(s, k) == \E i \in 1 .. Len(s) : s[i] = k

\* Nothing of a call's flow happens before its 200 OK.
Begun(c) ==
  /\ pc[c] \in {"none", "ringing"} => line[c] = "off"
  /\ line[c] = "off" => /\ pc[c] \in {"none", "ringing", "over"}
                        /\ toBot[c] = <<>> /\ toCaller[c] = <<>>
                        /\ pending[c] = 0 /\ sure[c] /\ ~mute[c]

\* A call's re-INVITEs come in the order of its flow.
Ordered(c) == Ascending(toBot[c])

\* The answer that a caller awaits is under way.
Answering(c) == pending[c] # 0 /\ Contains(toCaller[c], pending[c])

\* Once the last re-INVITE is answered, none is under way.
Through(c) ==
  /\ sure[c] => pending[c] = 0
  /\ sure[c] \/ Answering(c) => OnlyBye(toBot[c])

\* The sessions of a call by the stage of its task.
Stage(c) ==
  /\ pc[c] \in {"ringing", "announce"} => gates[c] = {<<c, 1>>}
  /\ pc[c] \in {"none", "over"} => gates[c] = {}

\* A call that has the bot for itself and was not jumped
Alone(c) == c \notin disturbed /\ pc[c] \in Active /\ ~Jumped(c)

\* ... has the slot ...
HasSlot(c) == Alone(c) => gates[c] = {slot}

\* ... and its session does what the last answer says or will say.
Flagged(c) ==
  Alone(c) =>
    /\ sure[c] => (slot \in silent <=> mute[c])
    /\ Answering(c) => (slot \in silent <=> Holds(c, pending[c]))

CallOK(c) ==
  /\ Begun(c) /\ Ordered(c) /\ Through(c) /\ Stage(c) /\ HasSlot(c) /\ Flagged(c)

IInv == TypeOK /\ \A c \in Calls : CallOK(c)

-----------------------------------------------------------------------------
\* Channels.

LEMMA AppendContains ==
  ASSUME NEW s \in Seq(Nat), NEW k \in Nat
  PROVE  /\ Append(s, k) \in Seq(Nat) /\ Append(s, k) # <<>>
         /\ \A m : Contains(Append(s, k), m) <=> Contains(s, m) \/ m = k
         /\ OnlyBye(Append(s, k)) <=> OnlyBye(s) /\ k = Bye
<1>1. /\ Append(s, k) \in Seq(Nat) /\ Len(s) \in Nat
      /\ Len(Append(s, k)) = Len(s) + 1
      /\ \A i \in 1 .. Len(s) : Append(s, k)[i] = s[i]
      /\ Append(s, k)[Len(s) + 1] = k
  BY AppendProperties, LenProperties
<1>2. Append(s, k) # <<>>
  BY <1>1, EmptySeq
<1>3. \A i : i \in 1 .. Len(s) + 1 <=> i \in 1 .. Len(s) \/ i = Len(s) + 1
  BY <1>1
<1>4. ASSUME NEW m
      PROVE  Contains(Append(s, k), m) <=> Contains(s, m) \/ m = k
  BY <1>1, <1>3 DEF Contains
<1>5. OnlyBye(Append(s, k)) <=> OnlyBye(s) /\ k = Bye
  BY <1>1, <1>3 DEF OnlyBye
<1> QED BY <1>1, <1>2, <1>4, <1>5

LEMMA TailContains ==
  ASSUME NEW s \in Seq(Nat), s # <<>>
  PROVE  /\ Tail(s) \in Seq(Nat) /\ Head(s) \in Nat
         /\ \A m : Contains(Tail(s), m) => Contains(s, m)
         /\ Contains(s, Head(s))
         /\ OnlyBye(s) => OnlyBye(Tail(s)) /\ Head(s) = Bye
<1>1. /\ Tail(s) \in Seq(Nat) /\ Head(s) \in Nat /\ Len(s) \in Nat \ {0}
      /\ Len(Tail(s)) = Len(s) - 1 /\ Head(s) = s[1]
      /\ \A i \in 1 .. Len(Tail(s)) : Tail(s)[i] = s[i + 1] /\ i + 1 \in 1 .. Len(s)
  BY HeadTailProperties, EmptySeq, LenProperties
<1> QED BY <1>1 DEF Contains, OnlyBye

LEMMA AscendingAppend ==
  ASSUME NEW n \in Nat, NEW s \in Seq(0 .. n), Ascending(s),
         NEW k \in Nat, k = Bye \/ n < k
  PROVE  Ascending(Append(s, k))
<1> DEFINE t == Append(s, k)
<1>1. /\ Len(s) \in Nat /\ Len(t) = Len(s) + 1
      /\ \A i \in 1 .. Len(s) : t[i] = s[i] /\ s[i] \in 0 .. n
      /\ t[Len(s) + 1] = k
  <2>1. s \in Seq(Nat)
    BY SeqMonotonic, 0 .. n \subseteq Nat
  <2> QED BY <2>1, AppendProperties, LenProperties, ElementOfSeq
<1> SUFFICES ASSUME NEW i \in 1 .. Len(t), NEW j \in 1 .. Len(t),
                    i < j, t[i] # Bye, t[j] # Bye
             PROVE  t[i] < t[j]
  BY DEF Ascending
<1>2. i \in 1 .. Len(s)
  BY <1>1
<1>3. CASE j \in 1 .. Len(s)
  BY <1>1, <1>2, <1>3 DEF Ascending
<1>4. CASE j = Len(s) + 1
  <2>1. t[j] = k /\ t[i] \in 0 .. n
    BY <1>1, <1>2, <1>4
  <2> QED BY <2>1
<1> QED BY <1>1, <1>3, <1>4

LEMMA AscendingTail ==
  ASSUME NEW n \in Nat, NEW s \in Seq(0 .. n), s # <<>>, Ascending(s)
  PROVE  /\ Ascending(Tail(s))
         /\ Head(s) = n /\ n # Bye => OnlyBye(Tail(s))
<1>1. /\ Len(s) \in Nat /\ Head(s) = s[1] /\ 1 \in 1 .. Len(s)
      /\ Len(Tail(s)) = Len(s) - 1
      /\ \A i \in 1 .. Len(Tail(s)) :
           /\ Tail(s)[i] = s[i + 1]
           /\ i + 1 \in 1 .. Len(s) /\ s[i + 1] \in 0 .. n
  BY HeadTailProperties, EmptySeq, LenProperties, ElementOfSeq
<1>2. Ascending(Tail(s))
  <2> SUFFICES ASSUME NEW i \in 1 .. Len(Tail(s)), NEW j \in 1 .. Len(Tail(s)), i < j,
                      Tail(s)[i] # Bye, Tail(s)[j] # Bye
               PROVE  Tail(s)[i] < Tail(s)[j]
    BY DEF Ascending
  <2>1. i + 1 < j + 1
    BY <1>1
  <2> QED BY <1>1, <2>1 DEF Ascending
<1>3. ASSUME Head(s) = n, n # Bye, NEW i \in 1 .. Len(Tail(s)), Tail(s)[i] # Bye
      PROVE  FALSE
  <2>1. 1 < i + 1 /\ s[i + 1] # Bye /\ s[1] # Bye
    BY <1>1, <1>3
  <2>2. s[1] < s[i + 1]
    BY <1>1, <2>1 DEF Ascending
  <2> QED BY <1>1, <1>3, <2>2
<1> QED BY <1>2, <1>3 DEF OnlyBye

LEMMA AppendBound ==
  ASSUME NEW n \in Nat, NEW m \in Nat, n <= m, NEW s \in Seq(0 .. n), NEW k \in 0 .. m
  PROVE  s \in Seq(0 .. m) /\ Append(s, k) \in Seq(0 .. m)
<1>1. 0 .. n \subseteq 0 .. m
  OBVIOUS
<1>2. s \in Seq(0 .. m)
  BY <1>1, SeqMonotonic
<1> QED BY <1>2, AppendProperties

LEMMA TailBound ==
  ASSUME NEW n \in Nat, NEW s \in Seq(0 .. n), s # <<>>
  PROVE  Tail(s) \in Seq(0 .. n) /\ Head(s) \in 0 .. n
BY HeadTailProperties

-----------------------------------------------------------------------------
\* Steps of other calls.

SameCall(d) ==
  /\ pc'[d] = pc[d] /\ gates'[d] = gates[d] /\ line'[d] = line[d]
  /\ pending'[d] = pending[d] /\ sure'[d] = sure[d] /\ mute'[d] = mute[d]
  /\ toBot'[d] = toBot[d] /\ toCaller'[d] = toCaller[d]

\* Call c changes nothing that the others share with it, or is seen to.
Noted(c) == Disturb(c) \/ UNCHANGED <<slot, silent, disturbed>>

LEMMA OthersKept ==
  ASSUME NEW c \in Calls, NEW d \in Calls, d # c, SameCall(d), Noted(c), CallOK(d)
  PROVE  CallOK(d)'
<1>1. Begun(d)' /\ Ordered(d)' /\ Through(d)' /\ Stage(d)'
  BY DEF CallOK, SameCall, Begun, Ordered, Through, Answering, Stage
<1>2. CASE UNCHANGED <<slot, silent, disturbed>>
  BY <1>1, <1>2 DEF CallOK, SameCall, HasSlot, Flagged, Alone, Jumped, Answering
<1>3. CASE Disturb(c)
  <2>1. pc[d] \in Active => d \in disturbed'
    BY <1>3 DEF Disturb
  <2>2. ~Alone(d)'
    BY <2>1 DEF Alone, SameCall
  <2> QED BY <1>1, <2>2 DEF CallOK, HasSlot, Flagged
<1> QED BY <1>2, <1>3 DEF Noted

\* What a step of call c is to keep.
StepOK(c) == /\ TypeOK' /\ CallOK(c)' /\ Noted(c)
             /\ \A d \in Calls \ {c} : SameCall(d)

-----------------------------------------------------------------------------
\* The bot.

LEMMA RingOK ==
  ASSUME NEW c \in Calls, TypeOK, CallOK(c), Ring(c)
  PROVE  StepOK(c)
<1> DEFINE s == <<c, 1>>
<1>1. /\ pc[c] = "none" /\ pc' = [pc EXCEPT ![c] = "ringing"]
      /\ gates' = [gates EXCEPT ![c] = {s}] /\ slot' = s /\ silent' = silent \ {s}
      /\ Disturb(c) /\ UNCHANGED <<callers, toBot, toCaller>>
  BY DEF Ring, Goto, Make
<1>2. s \in Sessions
  BY DEF Sessions
<1>3. TypeOK'
  BY <1>1, <1>2 DEF TypeOK, Active, Disturb, callers
<1>4. line[c] = "off" /\ toBot[c] = <<>> /\ pending[c] = 0 /\ sure[c] /\ ~mute[c]
  BY <1>1 DEF CallOK, Begun
<1>5. pc'[c] = "ringing" /\ gates'[c] = {s} /\ pending'[c] = 0
  BY <1>1, <1>4 DEF TypeOK, callers
<1>6. Begun(c)' /\ Ordered(c)' /\ Through(c)'
  BY <1>1, <1>4, <1>5 DEF CallOK, Begun, Ordered, Through, Answering, callers
<1>7. Stage(c)' /\ HasSlot(c)'
  BY <1>1, <1>5 DEF Stage, HasSlot
<1>8. Flagged(c)'
  BY <1>1, <1>4, <1>5 DEF Flagged, Answering, callers
<1>9. \A d \in Calls \ {c} : SameCall(d)
  BY <1>1 DEF SameCall, TypeOK, callers
<1> QED BY <1>1, <1>3, <1>6, <1>7, <1>8, <1>9 DEF StepOK, CallOK, Noted

LEMMA AnswerOK ==
  ASSUME NEW c \in Calls, TypeOK, CallOK(c), Answer(c)
  PROVE  StepOK(c)
<1> DEFINE s == <<c, 2>>
           stage == IF Jump[c] = "announce" THEN "announce" ELSE "up"
<1>1. /\ pc[c] = "ringing" /\ pc' = [pc EXCEPT ![c] = stage]
      /\ line' = [line EXCEPT ![c] = "up"]
      /\ UNCHANGED <<entry, pending, sure, mute, toBot, toCaller>>
  BY DEF Answer, Goto
<1>2. \/ UNCHANGED <<gates, slot, silent, disturbed>>
      \/ /\ Jump[c] = "answer"
         /\ gates' = [gates EXCEPT ![c] = {s}] /\ slot' = s /\ silent' = silent \ {s}
         /\ Disturb(c)
  BY DEF Answer, Make
<1>3. s \in Sessions /\ stage \in {"announce", "up"}
  BY DEF Sessions
<1>4. TypeOK'
  <2>1. pc' \in [Calls -> {"none", "over"} \union Active]
    BY <1>1, <1>3 DEF TypeOK, Active
  <2>2. gates' \in [Calls -> SUBSET Sessions]
    <3>1. gates \in [Calls -> SUBSET Sessions] /\ {s} \in SUBSET Sessions
      BY <1>3 DEF TypeOK
    <3>2. gates' = gates \/ gates' = [gates EXCEPT ![c] = {s}]
      BY <1>2
    <3> QED BY <3>1, <3>2
  <2>3. slot' \in {NoSession} \union Sessions /\ silent' \subseteq Sessions
    BY <1>2, <1>3 DEF TypeOK
  <2>4. disturbed' \subseteq Calls
    BY <1>2 DEF TypeOK, Disturb
  <2>5. line' \in [Calls -> {"off", "up", "over"}]
    BY <1>1 DEF TypeOK
  <2> QED BY <1>1, <2>1, <2>2, <2>3, <2>4, <2>5 DEF TypeOK
<1>5. /\ line[c] = "off" /\ toBot[c] = <<>> /\ toCaller[c] = <<>> /\ pending[c] = 0
      /\ sure[c] /\ ~mute[c] /\ gates[c] = {<<c, 1>>}
  BY <1>1 DEF CallOK, Begun, Stage
<1>6. pc'[c] = stage /\ line'[c] = "up" /\ pending'[c] = 0
  BY <1>1, <1>5 DEF TypeOK
<1>7. Begun(c)' /\ Ordered(c)' /\ Through(c)'
  BY <1>1, <1>3, <1>5, <1>6 DEF CallOK, Begun, Ordered, Through, Answering
<1>8. Stage(c)' /\ HasSlot(c)' /\ Flagged(c)'
  <2>1. CASE UNCHANGED <<gates, slot, silent, disturbed>>
    <3>1. ~Jumped(c) /\ (Alone(c)' => Alone(c))
      BY <1>1, <1>5, <2>1 DEF Jumped, Alone, Active
    <3> QED BY <1>1, <1>3, <1>5, <1>6, <2>1, <3>1
            DEF CallOK, Stage, HasSlot, Flagged, Answering
  <2>2. CASE /\ Jump[c] = "answer" /\ gates' = [gates EXCEPT ![c] = {s}]
             /\ slot' = s /\ silent' = silent \ {s}
    <3>1. gates'[c] = {s} /\ stage = "up"
      BY <2>2 DEF TypeOK
    <3> QED BY <1>1, <1>5, <1>6, <2>2, <3>1 DEF Stage, HasSlot, Flagged, Answering
  <2> QED BY <1>2, <2>1, <2>2
<1>9. \A d \in Calls \ {c} : SameCall(d)
  BY <1>1, <1>2 DEF SameCall, TypeOK
<1> QED BY <1>2, <1>4, <1>7, <1>8, <1>9 DEF StepOK, CallOK, Noted

LEMMA AnnouncedOK ==
  ASSUME NEW c \in Calls, TypeOK, CallOK(c), Announced(c)
  PROVE  StepOK(c)
<1> DEFINE s == <<c, 2>>
<1>1. /\ pc[c] = "announce" /\ pc' = [pc EXCEPT ![c] = "up"]
      /\ UNCHANGED <<callers, toBot, toCaller>>
  BY DEF Announced, Goto
<1>2. \/ UNCHANGED <<gates, slot, silent, disturbed>>
      \/ /\ gates' = [gates EXCEPT ![c] = gates[c] \union {s}]
         /\ slot' = s /\ silent' = silent \ {s} /\ Disturb(c)
  BY DEF Announced, Make
<1>3. s \in Sessions /\ gates[c] \subseteq Sessions
  BY DEF Sessions, TypeOK
<1>4. TypeOK'
  <2>1. pc' \in [Calls -> {"none", "over"} \union Active]
    BY <1>1 DEF TypeOK, Active
  <2>2. gates' \in [Calls -> SUBSET Sessions]
    <3>1. gates \in [Calls -> SUBSET Sessions] /\ (gates[c] \union {s}) \in SUBSET Sessions
      BY <1>3 DEF TypeOK
    <3>2. gates' = gates \/ gates' = [gates EXCEPT ![c] = (gates[c] \union {s})]
      BY <1>2
    <3> QED BY <3>1, <3>2
  <2>3. slot' \in {NoSession} \union Sessions /\ silent' \subseteq Sessions
    BY <1>2, <1>3 DEF TypeOK
  <2>4. disturbed' \subseteq Calls
    BY <1>2 DEF TypeOK, Disturb
  <2> QED BY <1>1, <2>1, <2>2, <2>3, <2>4 DEF TypeOK, callers
<1>5. gates[c] = {<<c, 1>>} /\ line[c] # "off" /\ pc'[c] = "up"
  BY <1>1 DEF CallOK, Stage, Begun, TypeOK
<1>6. Begun(c)' /\ Ordered(c)' /\ Through(c)' /\ Stage(c)'
  BY <1>1, <1>5 DEF CallOK, Begun, Ordered, Through, Answering, Stage, callers
<1>7. HasSlot(c)' /\ Flagged(c)'
  <2>1. CASE UNCHANGED <<gates, slot, silent, disturbed>>
    <3>1. Alone(c)' => Alone(c)
      BY <1>1, <2>1 DEF Jumped, Alone, Active
    <3> QED BY <1>1, <2>1, <3>1 DEF CallOK, HasSlot, Flagged, Answering, callers
  <2>2. CASE gates' = [gates EXCEPT ![c] = gates[c] \union {s}]
    <3>1. Jumped(c)'
      BY <1>5, <2>2 DEF Jumped, TypeOK
    <3> QED BY <3>1 DEF HasSlot, Flagged, Alone
  <2> QED BY <1>2, <2>1, <2>2
<1>8. \A d \in Calls \ {c} : SameCall(d)
  BY <1>1, <1>2 DEF SameCall, TypeOK, callers
<1> QED BY <1>2, <1>4, <1>6, <1>7, <1>8 DEF StepOK, CallOK, Noted

LEMMA HandleReinviteOK ==
  ASSUME NEW c \in Calls, TypeOK, CallOK(c), HandleReinvite(c)
  PROVE  StepOK(c)
<1> DEFINE k == Head(toBot[c])
<1>1. PICK agreed \in BOOLEAN :
        /\ toBot[c] # <<>> /\ k # Bye
        /\ silent' = Silenced(Holds(c, k), agreed)
        /\ toCaller' = [toCaller EXCEPT ![c] = Append(@, k)]
        /\ toBot' = [toBot EXCEPT ![c] = Tail(@)]
        /\ Disturb(c) /\ UNCHANGED <<pc, gates, slot, callers>>
  BY DEF HandleReinvite
<1>2. /\ toBot[c] \in Seq(Nat) /\ toCaller[c] \in Seq(Nat) /\ entry[c] \in Nat
      /\ toBot[c] \in Seq(0 .. entry[c]) /\ toCaller[c] \in Seq(0 .. entry[c])
  BY DEF TypeOK
<1>3. k \in 0 .. entry[c] /\ Tail(toBot[c]) \in Seq(0 .. entry[c])
  BY <1>1, <1>2, TailBound
<1>4. Append(toCaller[c], k) \in Seq(0 .. entry[c])
  BY <1>2, <1>3, AppendBound
<1>5. /\ Tail(toBot[c]) \in Seq(Nat)
      /\ Append(toCaller[c], k) \in Seq(Nat)
      /\ \A m : Contains(Append(toCaller[c], k), m) <=> Contains(toCaller[c], m) \/ m = k
  BY <1>1, <1>2, <1>3, TailContains, AppendContains
<1>6. toBot'[c] = Tail(toBot[c]) /\ toCaller'[c] = Append(toCaller[c], k)
  BY <1>1 DEF TypeOK
<1>7. TypeOK'
  <2>1. silent' \subseteq Sessions
    BY <1>1 DEF Silenced, TypeOK
  <2>2. toBot' \in [Calls -> Seq(Nat)] /\ toCaller' \in [Calls -> Seq(Nat)]
    BY <1>1, <1>5 DEF TypeOK
  <2>3. \A d \in Calls : toBot'[d] \in Seq(0 .. entry[d]) /\ toCaller'[d] \in Seq(0 .. entry[d])
    BY <1>1, <1>3, <1>4, <1>6 DEF TypeOK
  <2> QED BY <1>1, <2>1, <2>2, <2>3 DEF TypeOK, callers, Disturb
<1>8. /\ Ascending(Tail(toBot[c]))
      /\ k = entry[c] => OnlyBye(Tail(toBot[c]))
  BY <1>1, <1>2, AscendingTail DEF CallOK, Ordered
<1>9. ~OnlyBye(toBot[c])
  BY <1>1, <1>2, TailContains
<1>10. Ordered(c)'
  BY <1>6, <1>8 DEF Ordered
<1>11. ~sure[c] /\ ~Answering(c)
  BY <1>9 DEF CallOK, Through
<1>13. ASSUME Answering(c)'
       PROVE  pending[c] = k /\ OnlyBye(Tail(toBot[c]))
  <2>1. pending[c] # 0 /\ Contains(toCaller'[c], pending[c])
    BY <1>1, <1>13 DEF Answering, callers
  <2>2. pending[c] = k
    BY <1>5, <1>6, <1>11, <2>1 DEF Answering
  <2>3. k = entry[c]
    BY <2>1, <2>2 DEF TypeOK
  <2> QED BY <1>8, <2>2, <2>3
<1>14. Through(c)'
  BY <1>1, <1>6, <1>11, <1>13 DEF Through, callers
<1>15. line[c] # "off"
  BY <1>1 DEF CallOK, Begun
<1>16. Begun(c)' /\ Stage(c)'
  BY <1>1, <1>15 DEF CallOK, Begun, Stage, callers
<1>17. HasSlot(c)' /\ (Alone(c)' => Alone(c))
  BY <1>1 DEF CallOK, HasSlot, Alone, Jumped, Disturb
<1>18. Flagged(c)'
  <2>1. SUFFICES ASSUME Alone(c)', Answering(c)'
                 PROVE  slot \in silent' <=> Holds(c, k)
    BY <1>1, <1>11, <1>13 DEF Flagged, callers
  <2>2. gates[c] = {slot} /\ gates[c] \subseteq Sessions
    BY <1>17, <2>1 DEF CallOK, HasSlot, TypeOK
  <2>3. slot # NoSession
    BY <2>2 DEF Sessions, NoSession
  <2> QED BY <1>1, <2>3 DEF Silenced
<1>19. \A d \in Calls \ {c} : SameCall(d)
  BY <1>1 DEF SameCall, TypeOK, callers
<1> QED BY <1>1, <1>7, <1>10, <1>14, <1>16, <1>17, <1>18, <1>19 DEF StepOK, CallOK, Noted

\* The end of the bot's task.
LEMMA OverOK ==
  ASSUME NEW c \in Calls, TypeOK, CallOK(c), Over(c), line[c] # "off" \/ pc[c] = "ringing",
         UNCHANGED <<slot, silent, callers, disturbed>>
  PROVE  /\ pc' \in [Calls -> {"none", "over"} \union Active]
         /\ gates' \in [Calls -> SUBSET Sessions]
         /\ Stage(c)' /\ HasSlot(c)' /\ Flagged(c)' /\ pc'[c] = "over"
         /\ \A d \in Calls \ {c} : pc'[d] = pc[d] /\ gates'[d] = gates[d]
<1>1. pc' = [pc EXCEPT ![c] = "over"] /\ gates' = [gates EXCEPT ![c] = {}]
  BY DEF Over, Goto
<1>2. pc'[c] = "over" /\ gates'[c] = {}
  BY <1>1 DEF TypeOK
<1>3. ~Alone(c)'
  BY <1>2 DEF Alone, Active
<1> QED BY <1>1, <1>2, <1>3 DEF TypeOK, Stage, HasSlot, Flagged

LEMMA HandleByeOK ==
  ASSUME NEW c \in Calls, TypeOK, CallOK(c), HandleBye(c)
  PROVE  StepOK(c)
<1>1. /\ toBot[c] # <<>> /\ toBot' = [toBot EXCEPT ![c] = Tail(@)]
      /\ UNCHANGED <<slot, silent, callers, toCaller, disturbed>>
      /\ UNCHANGED <<pc, gates>> \/ Over(c)
  BY DEF HandleBye
<1>2. line[c] # "off" /\ line' = line
  BY <1>1 DEF CallOK, Begun, callers
<1>3. toBot[c] \in Seq(Nat) /\ toBot[c] \in Seq(0 .. entry[c]) /\ entry[c] \in Nat
  BY DEF TypeOK
<1>4. /\ Tail(toBot[c]) \in Seq(Nat) /\ Tail(toBot[c]) \in Seq(0 .. entry[c])
      /\ OnlyBye(toBot[c]) => OnlyBye(Tail(toBot[c]))
  BY <1>1, <1>3, TailBound, TailContains
<1>5. toBot'[c] = Tail(toBot[c])
  BY <1>1 DEF TypeOK
<1>6. /\ pc' \in [Calls -> {"none", "over"} \union Active]
      /\ gates' \in [Calls -> SUBSET Sessions]
      /\ Stage(c)' /\ HasSlot(c)' /\ Flagged(c)'
      /\ pc'[c] = pc[c] \/ pc'[c] = "over"
      /\ \A d \in Calls \ {c} : pc'[d] = pc[d] /\ gates'[d] = gates[d]
  <2>1. CASE UNCHANGED <<pc, gates>>
    BY <1>1, <2>1 DEF TypeOK, CallOK, Stage, HasSlot, Flagged, Alone, Jumped, Answering, callers
  <2>2. CASE Over(c)
    BY <1>1, <1>2, <2>2, OverOK
  <2> QED BY <1>1, <2>1, <2>2
<1>7. TypeOK'
  <2>1. toBot' \in [Calls -> Seq(Nat)]
    BY <1>1, <1>4 DEF TypeOK
  <2>2. \A d \in Calls : toBot'[d] \in Seq(0 .. entry[d])
    BY <1>1, <1>4, <1>5 DEF TypeOK
  <2> QED BY <1>1, <1>6, <2>1, <2>2 DEF TypeOK, callers
<1>8. Begun(c)'
  BY <1>1, <1>2, <1>6 DEF CallOK, Begun
<1>9. Ordered(c)'
  BY <1>1, <1>3, <1>5, AscendingTail DEF CallOK, Ordered
<1>10. Through(c)'
  BY <1>1, <1>4, <1>5 DEF CallOK, Through, Answering, callers
<1>11. \A d \in Calls \ {c} : SameCall(d)
  BY <1>1, <1>6 DEF SameCall, TypeOK, callers
<1> QED BY <1>1, <1>6, <1>7, <1>8, <1>9, <1>10, <1>11 DEF StepOK, CallOK, Noted

LEMMA FailsOK ==
  ASSUME NEW c \in Calls, TypeOK, CallOK(c), Fails(c)
  PROVE  StepOK(c)
<1>1. /\ pc[c] = "ringing" /\ Over(c)
      /\ UNCHANGED <<slot, silent, callers, toBot, toCaller, disturbed>>
  BY DEF Fails
<1>2. /\ pc' \in [Calls -> {"none", "over"} \union Active]
      /\ gates' \in [Calls -> SUBSET Sessions]
      /\ Stage(c)' /\ HasSlot(c)' /\ Flagged(c)' /\ pc'[c] = "over"
      /\ \A d \in Calls \ {c} : pc'[d] = pc[d] /\ gates'[d] = gates[d]
  BY <1>1, OverOK
<1>3. TypeOK'
  BY <1>1, <1>2 DEF TypeOK, callers
<1>4. Begun(c)' /\ Ordered(c)' /\ Through(c)'
  BY <1>1, <1>2 DEF CallOK, Begun, Ordered, Through, Answering, callers
<1>5. \A d \in Calls \ {c} : SameCall(d)
  BY <1>1, <1>2 DEF SameCall, callers
<1> QED BY <1>1, <1>2, <1>3, <1>4, <1>5 DEF StepOK, CallOK, Noted

LEMMA BotHangsUpOK ==
  ASSUME NEW c \in Calls, TypeOK, CallOK(c), BotHangsUp(c)
  PROVE  StepOK(c)
<1>1. /\ pc[c] \in {"announce", "up"} /\ Over(c)
      /\ toCaller' = toCaller \/ toCaller' = [toCaller EXCEPT ![c] = Append(@, Bye)]
      /\ UNCHANGED <<slot, silent, callers, toBot, disturbed>>
  BY DEF BotHangsUp
<1>2. line[c] # "off"
  BY <1>1 DEF CallOK, Begun
<1>3. /\ pc' \in [Calls -> {"none", "over"} \union Active]
      /\ gates' \in [Calls -> SUBSET Sessions]
      /\ Stage(c)' /\ HasSlot(c)' /\ Flagged(c)' /\ pc'[c] = "over"
      /\ \A d \in Calls \ {c} : pc'[d] = pc[d] /\ gates'[d] = gates[d]
  BY <1>1, <1>2, OverOK
<1>4. toCaller[c] \in Seq(Nat) /\ toCaller[c] \in Seq(0 .. entry[c]) /\ entry[c] \in Nat
  BY DEF TypeOK
<1>5. /\ Append(toCaller[c], Bye) \in Seq(Nat)
      /\ Append(toCaller[c], Bye) \in Seq(0 .. entry[c])
      /\ \A m : Contains(Append(toCaller[c], Bye), m) => Contains(toCaller[c], m) \/ m = 0
  BY <1>4, AppendContains, AppendBound DEF Bye
<1>6. TypeOK'
  <2>1. /\ toCaller' \in [Calls -> Seq(Nat)]
        /\ \A d \in Calls : toCaller'[d] \in Seq(0 .. entry[d])
    BY <1>1, <1>4, <1>5 DEF TypeOK
  <2> QED BY <1>1, <1>3, <2>1 DEF TypeOK, callers
<1>7. Answering(c)' => Answering(c)
  BY <1>1, <1>5 DEF Answering, TypeOK, callers
<1>8. Begun(c)' /\ Ordered(c)' /\ Through(c)'
  BY <1>1, <1>2, <1>3, <1>7 DEF CallOK, Begun, Ordered, Through, callers
<1>9. \A d \in Calls \ {c} : SameCall(d)
  BY <1>1, <1>3 DEF SameCall, TypeOK, callers
<1> QED BY <1>1, <1>3, <1>6, <1>8, <1>9 DEF StepOK, CallOK, Noted

-----------------------------------------------------------------------------
\* The callers.

LEMMA NextEntryOK ==
  ASSUME NEW c \in Calls, TypeOK, CallOK(c), NextEntry(c)
  PROVE  StepOK(c)
<1> DEFINE k == entry[c] + 1
<1>1. /\ line[c] = "up" /\ pending[c] = 0 /\ entry[c] < Len(Flow[c])
      /\ entry' = [entry EXCEPT ![c] = k]
      /\ \/ /\ pending' = [pending EXCEPT ![c] = k] /\ sure' = [sure EXCEPT ![c] = FALSE]
            /\ toBot' = [toBot EXCEPT ![c] = Append(@, k)]
         \/ UNCHANGED <<pending, sure, toBot>>
      /\ UNCHANGED <<bot, line, mute, toCaller, disturbed>>
  BY DEF NextEntry, Left
<1>2. /\ entry[c] \in Nat /\ k \in Nat /\ k # 0 /\ Len(Flow[c]) \in Nat
      /\ toBot[c] \in Seq(Nat) /\ toBot[c] \in Seq(0 .. entry[c])
      /\ toCaller[c] \in Seq(0 .. entry[c])
  BY HoldAssumption, LenProperties DEF TypeOK
<1>3. /\ Append(toBot[c], k) \in Seq(Nat) /\ Append(toBot[c], k) \in Seq(0 .. k)
      /\ toBot[c] \in Seq(0 .. k) /\ toCaller[c] \in Seq(0 .. k)
  BY <1>2, AppendContains, AppendBound
<1>4. entry'[c] = k /\ pending'[c] \in {0, k} /\ toBot'[c] \in {toBot[c], Append(toBot[c], k)}
  BY <1>1 DEF TypeOK
<1>5. TypeOK'
  <2>1. entry' \in [Calls -> Nat] /\ sure' \in [Calls -> BOOLEAN]
    BY <1>1, <1>2 DEF TypeOK
  <2>4. pending' \in [Calls -> Nat]
    BY <1>1, <1>2 DEF TypeOK
  <2>2. toBot' \in [Calls -> Seq(Nat)]
    BY <1>1, <1>3 DEF TypeOK
  <2>3. ASSUME NEW d \in Calls
        PROVE  /\ entry'[d] <= Len(Flow[d]) /\ pending'[d] \in {0, entry'[d]}
               /\ toBot'[d] \in Seq(0 .. entry'[d]) /\ toCaller'[d] \in Seq(0 .. entry'[d])
    <3>1. CASE d = c
      <4>1. k <= Len(Flow[c]) /\ toCaller' = toCaller
        BY <1>1, <1>2
      <4> QED BY <1>3, <1>4, <3>1, <4>1
    <3>2. CASE d # c
      BY <1>1, <3>2 DEF TypeOK
    <3> QED BY <3>1, <3>2
  <2> QED BY <1>1, <2>1, <2>2, <2>3, <2>4 DEF TypeOK, bot
<1>6. ~Contains(toCaller[c], k)
  <2> SUFFICES ASSUME NEW i \in 1 .. Len(toCaller[c]) PROVE toCaller[c][i] # k
    BY DEF Contains
  <2>1. toCaller[c][i] \in 0 .. entry[c]
    BY <1>2, ElementOfSeq
  <2> QED BY <1>2, <2>1
<1>7. ~Answering(c)'
  BY <1>1, <1>4, <1>6 DEF Answering
<1>8. Ordered(c)'
  <2>1. Ascending(toBot[c]) /\ entry[c] < k
    BY <1>2 DEF CallOK, Ordered
  <2>2. Ascending(Append(toBot[c], k))
    BY <1>2, <2>1, AscendingAppend
  <2> QED BY <1>4, <2>1, <2>2 DEF Ordered
<1>9. /\ sure'[c] => sure[c] /\ toBot'[c] = toBot[c] /\ pending'[c] = 0
      /\ pc'[c] = pc[c] /\ gates'[c] = gates[c] /\ line'[c] = "up"
  BY <1>1 DEF TypeOK, bot
<1>10. Begun(c)' /\ Through(c)'
  BY <1>1, <1>7, <1>9 DEF CallOK, Begun, Through
<1>11. Stage(c)' /\ HasSlot(c)' /\ Flagged(c)'
  BY <1>1, <1>7, <1>9 DEF CallOK, Stage, HasSlot, Flagged, Alone, Jumped, bot
<1>12. \A d \in Calls \ {c} : SameCall(d)
  BY <1>1 DEF SameCall, TypeOK, bot
<1> QED BY <1>1, <1>5, <1>8, <1>10, <1>11, <1>12 DEF StepOK, CallOK, Noted, bot

LEMMA HearAnswerOK ==
  ASSUME NEW c \in Calls, TypeOK, CallOK(c), HearAnswer(c)
  PROVE  StepOK(c)
<1> DEFINE k == Head(toCaller[c])
<1>1. /\ toCaller[c] # <<>> /\ k # Bye
      /\ toCaller' = [toCaller EXCEPT ![c] = Tail(@)]
      /\ \/ /\ pending[c] = k
            /\ mute' = [mute EXCEPT ![c] = Holds(c, pending[c])]
            /\ pending' = [pending EXCEPT ![c] = 0] /\ sure' = [sure EXCEPT ![c] = TRUE]
         \/ UNCHANGED <<mute, pending, sure>>
      /\ UNCHANGED <<bot, line, entry, toBot, disturbed>>
  BY DEF HearAnswer
<1>2. /\ toCaller[c] \in Seq(Nat) /\ toCaller[c] \in Seq(0 .. entry[c]) /\ entry[c] \in Nat
  BY DEF TypeOK
<1>3. /\ Tail(toCaller[c]) \in Seq(Nat) /\ Tail(toCaller[c]) \in Seq(0 .. entry[c])
      /\ Contains(toCaller[c], k)
      /\ \A m : Contains(Tail(toCaller[c]), m) => Contains(toCaller[c], m)
  BY <1>1, <1>2, TailContains, TailBound
<1>4. Holds(c, pending[c]) \in BOOLEAN /\ toCaller'[c] = Tail(toCaller[c])
  BY <1>1 DEF Holds, TypeOK
<1>5. TypeOK'
  <2>1. pending' \in [Calls -> Nat]
    <3>1. pending' = pending \/ pending' = [pending EXCEPT ![c] = 0]
      BY <1>1
    <3>2. pending \in [Calls -> Nat] /\ 0 \in Nat
      BY DEF TypeOK
    <3> QED BY <3>1, <3>2
  <2>5. sure' \in [Calls -> BOOLEAN]
    <3>1. sure' = sure \/ sure' = [sure EXCEPT ![c] = TRUE]
      BY <1>1
    <3> QED BY <3>1 DEF TypeOK
  <2>3. mute' \in [Calls -> BOOLEAN]
    BY <1>1, <1>4 DEF TypeOK
  <2>4. toCaller' \in [Calls -> Seq(Nat)]
    BY <1>1, <1>3 DEF TypeOK
  <2>2. \A d \in Calls : pending'[d] \in {0, entry[d]} /\ toCaller'[d] \in Seq(0 .. entry[d])
    BY <1>1, <1>3, <1>4 DEF TypeOK
  <2> QED BY <1>1, <2>1, <2>2, <2>3, <2>4, <2>5 DEF TypeOK, bot
<1>6. line[c] # "off"
  BY <1>1 DEF CallOK, Begun
<1>7. Begun(c)' /\ Ordered(c)' /\ Stage(c)' /\ HasSlot(c)' /\ (Alone(c)' => Alone(c))
  BY <1>1, <1>6 DEF CallOK, Begun, Ordered, Stage, HasSlot, Alone, Jumped, bot
<1>8. CASE UNCHANGED <<mute, pending, sure>>
  <2>1. Answering(c)' => Answering(c)
    BY <1>3, <1>4, <1>8 DEF Answering
  <2>2. Through(c)' /\ Flagged(c)'
    BY <1>1, <1>7, <1>8, <2>1 DEF CallOK, Through, Flagged, bot
  <2>3. \A d \in Calls \ {c} : SameCall(d)
    BY <1>1, <1>8 DEF SameCall, TypeOK, bot
  <2> QED BY <1>1, <1>5, <1>7, <2>2, <2>3 DEF StepOK, CallOK, Noted, bot
<1>9. CASE /\ pending[c] = k
           /\ mute' = [mute EXCEPT ![c] = Holds(c, pending[c])]
           /\ pending' = [pending EXCEPT ![c] = 0] /\ sure' = [sure EXCEPT ![c] = TRUE]
  <2>1. Answering(c)
    BY <1>1, <1>3, <1>9 DEF Answering, Bye
  <2>2. mute'[c] = Holds(c, pending[c]) /\ pending'[c] = 0 /\ sure'[c]
    BY <1>9 DEF TypeOK
  <2>3. Through(c)'
    BY <1>1, <2>1, <2>2 DEF CallOK, Through
  <2>4. Flagged(c)'
    BY <1>1, <1>7, <2>1, <2>2 DEF CallOK, Flagged, Answering, bot
  <2>5. \A d \in Calls \ {c} : SameCall(d)
    BY <1>1, <1>9 DEF SameCall, TypeOK, bot
  <2> QED BY <1>1, <1>5, <1>7, <2>3, <2>4, <2>5 DEF StepOK, CallOK, Noted, bot
<1> QED BY <1>1, <1>8, <1>9

LEMMA GiveUpOK ==
  ASSUME NEW c \in Calls, TypeOK, CallOK(c), GiveUp(c)
  PROVE  StepOK(c)
<1>1. /\ line[c] = "up" /\ pending[c] # 0 /\ pending' = [pending EXCEPT ![c] = 0]
      /\ UNCHANGED <<bot, line, entry, sure, mute, toBot, toCaller, disturbed>>
  BY DEF GiveUp
<1>2. TypeOK'
  BY <1>1 DEF TypeOK, bot
<1>3. pending'[c] = 0 /\ ~Answering(c)' /\ ~sure[c]
  BY <1>1 DEF TypeOK, Answering, CallOK, Through
<1>4. Begun(c)' /\ Ordered(c)' /\ Through(c)' /\ Stage(c)'
  BY <1>1, <1>3 DEF CallOK, Begun, Ordered, Through, Stage, bot
<1>5. HasSlot(c)' /\ Flagged(c)'
  BY <1>1, <1>3 DEF CallOK, HasSlot, Flagged, Alone, Jumped, bot
<1>6. \A d \in Calls \ {c} : SameCall(d)
  BY <1>1 DEF SameCall, TypeOK, bot
<1> QED BY <1>1, <1>2, <1>4, <1>5, <1>6 DEF StepOK, CallOK, Noted, bot

LEMMA CallerHangsUpOK ==
  ASSUME NEW c \in Calls, TypeOK, CallOK(c), CallerHangsUp(c)
  PROVE  StepOK(c)
<1>1. /\ line[c] = "up" /\ line' = [line EXCEPT ![c] = "over"]
      /\ toBot' = [toBot EXCEPT ![c] = Append(@, Bye)]
      /\ UNCHANGED <<bot, entry, pending, sure, mute, toCaller, disturbed>>
  BY DEF CallerHangsUp
<1>2. toBot[c] \in Seq(Nat) /\ toBot[c] \in Seq(0 .. entry[c]) /\ entry[c] \in Nat
  BY DEF TypeOK
<1>3. /\ Append(toBot[c], Bye) \in Seq(Nat) /\ Append(toBot[c], Bye) \in Seq(0 .. entry[c])
      /\ OnlyBye(toBot[c]) => OnlyBye(Append(toBot[c], Bye))
  BY <1>2, AppendContains, AppendBound DEF Bye
<1>4. toBot'[c] = Append(toBot[c], Bye) /\ line'[c] = "over"
  BY <1>1 DEF TypeOK
<1>5. TypeOK'
  <2>1. toBot' \in [Calls -> Seq(Nat)] /\ line' \in [Calls -> {"off", "up", "over"}]
    BY <1>1, <1>3 DEF TypeOK
  <2>2. \A d \in Calls : toBot'[d] \in Seq(0 .. entry[d])
    BY <1>1, <1>3, <1>4 DEF TypeOK
  <2> QED BY <1>1, <2>1, <2>2 DEF TypeOK, bot
<1>6. Begun(c)' /\ Through(c)' /\ Stage(c)'
  BY <1>1, <1>3, <1>4 DEF CallOK, Begun, Through, Answering, Stage, bot
<1>7. Ordered(c)'
  BY <1>2, <1>4, AscendingAppend DEF CallOK, Ordered, Bye
<1>8. HasSlot(c)' /\ Flagged(c)'
  BY <1>1 DEF CallOK, HasSlot, Flagged, Alone, Jumped, Answering, bot
<1>9. \A d \in Calls \ {c} : SameCall(d)
  BY <1>1 DEF SameCall, TypeOK, bot
<1> QED BY <1>1, <1>5, <1>6, <1>7, <1>8, <1>9 DEF StepOK, CallOK, Noted, bot

LEMMA HearByeOK ==
  ASSUME NEW c \in Calls, TypeOK, CallOK(c), HearBye(c)
  PROVE  StepOK(c)
<1>1. /\ toCaller[c] # <<>> /\ toCaller' = [toCaller EXCEPT ![c] = Tail(@)]
      /\ line' = [line EXCEPT ![c] = "over"]
      /\ UNCHANGED <<bot, entry, pending, sure, mute, toBot, disturbed>>
  BY DEF HearBye
<1>2. toCaller[c] \in Seq(Nat) /\ toCaller[c] \in Seq(0 .. entry[c]) /\ entry[c] \in Nat
  BY DEF TypeOK
<1>3. /\ Tail(toCaller[c]) \in Seq(Nat) /\ Tail(toCaller[c]) \in Seq(0 .. entry[c])
      /\ \A m : Contains(Tail(toCaller[c]), m) => Contains(toCaller[c], m)
  BY <1>1, <1>2, TailContains, TailBound
<1>4. toCaller'[c] = Tail(toCaller[c]) /\ line'[c] = "over" /\ line[c] # "off"
  BY <1>1 DEF TypeOK, CallOK, Begun
<1>5. TypeOK'
  <2>1. toCaller' \in [Calls -> Seq(Nat)] /\ line' \in [Calls -> {"off", "up", "over"}]
    BY <1>1, <1>3 DEF TypeOK
  <2>2. \A d \in Calls : toCaller'[d] \in Seq(0 .. entry[d])
    BY <1>1, <1>3, <1>4 DEF TypeOK
  <2> QED BY <1>1, <2>1, <2>2 DEF TypeOK, bot
<1>6. Answering(c)' => Answering(c)
  BY <1>1, <1>3, <1>4 DEF Answering
<1>7. Begun(c)' /\ Ordered(c)' /\ Through(c)' /\ Stage(c)'
  BY <1>1, <1>4, <1>6 DEF CallOK, Begun, Ordered, Through, Stage, bot
<1>8. HasSlot(c)' /\ Flagged(c)'
  BY <1>1, <1>6 DEF CallOK, HasSlot, Flagged, Alone, Jumped, Answering, bot
<1>9. \A d \in Calls \ {c} : SameCall(d)
  BY <1>1 DEF SameCall, TypeOK, bot
<1> QED BY <1>1, <1>5, <1>7, <1>8, <1>9 DEF StepOK, CallOK, Noted, bot

-----------------------------------------------------------------------------
LEMMA InitIInv == Init => IInv
<1> SUFFICES ASSUME Init PROVE IInv
  OBVIOUS
<1>1. TypeOK
  <2>1. <<>> \in Seq(Nat) /\ \A n : <<>> \in Seq(0 .. n)
    BY EmptySeq
  <2>2. \A c \in Calls : Len(Flow[c]) \in Nat
    BY HoldAssumption, LenProperties
  <2> QED BY <2>1, <2>2 DEF Init, TypeOK
<1>2. ASSUME NEW c \in Calls PROVE CallOK(c)
  <2>1. pc[c] = "none" /\ toBot[c] = <<>> /\ pending[c] = 0 /\ Len(<<>>) = 0
    BY EmptySeq DEF Init
  <2>2. ~Alone(c) /\ ~Answering(c)
    BY <2>1 DEF Alone, Active, Answering
  <2>3. Ordered(c) /\ OnlyBye(toBot[c])
    BY <2>1 DEF Ordered, Ascending, OnlyBye
  <2> QED BY <2>1, <2>2, <2>3
          DEF CallOK, Begun, Through, Stage, HasSlot, Flagged, Init
<1> QED BY <1>1, <1>2 DEF IInv

LEMMA NextIInv == IInv /\ [Next]_vars => IInv'
<1> SUFFICES ASSUME IInv, [Next]_vars PROVE IInv'
  OBVIOUS
<1>1. TypeOK /\ \A c \in Calls : CallOK(c)
  BY DEF IInv
<1>2. CASE UNCHANGED vars
  <2>1. TypeOK'
    BY <1>1, <1>2 DEF TypeOK, vars, bot, callers
  <2>2. \A d \in Calls : CallOK(d)'
    BY <1>1, <1>2 DEF vars, bot, callers, CallOK, Begun, Ordered, Through, Answering,
                      Stage, HasSlot, Flagged, Alone, Jumped
  <2> QED BY <2>1, <2>2 DEF IInv
<1>3. CASE Next
  <2>1. PICK c \in Calls :
          \/ Ring(c) \/ Answer(c) \/ Announced(c)
          \/ Fails(c) \/ HandleReinvite(c) \/ HandleBye(c) \/ BotHangsUp(c)
          \/ NextEntry(c) \/ HearAnswer(c) \/ GiveUp(c) \/ CallerHangsUp(c) \/ HearBye(c)
    BY <1>3 DEF Next
  <2>2. StepOK(c)
    BY <1>1, <2>1, RingOK, AnswerOK, AnnouncedOK, FailsOK, HandleReinviteOK, HandleByeOK,
       BotHangsUpOK, NextEntryOK, HearAnswerOK, GiveUpOK, CallerHangsUpOK, HearByeOK
  <2>3. \A d \in Calls \ {c} : CallOK(d)'
    BY <1>1, <2>2, OthersKept DEF StepOK
  <2> QED BY <2>2, <2>3 DEF StepOK, IInv
<1> QED BY <1>2, <1>3

LEMMA Inductive == Spec => []IInv
BY InitIInv, NextIInv, PTL DEF Spec

\* The type invariant: the channels of a call hold entries of its flow that
\* have come up, and the one it awaits is the latest (make_call).
THEOREM TypeCorrect == Spec => []TypeOK
<1>1. IInv => TypeOK
  BY DEF IInv
<1> QED BY <1>1, Inductive, PTL

\* A call that had the bot for itself and was not jumped is silent exactly
\* while its caller holds it, whichever re-INVITEs were given up, handled late
\* or failed to be renegotiated (handle_reinvite, make_call).
THEOREM HoldAgrees == Spec => []AloneAgrees
<1>1. IInv => AloneAgrees
  <2> SUFFICES ASSUME IInv, NEW c \in Calls \ disturbed, Settled(c), ~Jumped(c)
               PROVE  IF mute[c] THEN gates[c] \subseteq silent
                                 ELSE gates[c] \intersect silent = {}
    BY DEF AloneAgrees
  <2>1. Alone(c) /\ sure[c]
    BY DEF Alone, Settled, Active
  <2>2. gates[c] = {slot} /\ (slot \in silent <=> mute[c])
    BY <2>1 DEF IInv, CallOK, HasSlot, Flagged
  <2> QED BY <2>2
<1> QED BY <1>1, Inductive, PTL
=============================================================================

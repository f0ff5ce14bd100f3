------------------------ MODULE Conversation_proofs ------------------------
(***************************************************************************)
(* Proofs about Conversation: what was taken back is gone, the index is    *)
(* final, what is at rest is on disk, the old stays out, and what was sent *)
(* is kept.                                                                *)
(*                                                                         *)
(* The invariant is a predicate of all that a step may change, because     *)
(* most steps do several things to the conversation one after the other:   *)
(* there is a lemma for each such thing, and a step is what they give      *)
(* together.                                                               *)
(***************************************************************************)
EXTENDS Conversation, TLAPS, SequenceTheorems, WellFoundedInduction

-----------------------------------------------------------------------------
(* The invariant.  c are the copies, d the files, x the index, o the owner,*)
(* k the task, e the events, R what was taken back, S what was sent; id is *)
(* the session and low < n <= high the numbers of its messages.            *)

(* The messages of one conversation, each once. *)
Fits(s, id, low, high) ==
  /\ s \in Seq(Message) /\ IsInjective(s)
  /\ \A m \in ToSet(s) : m.in = id /\ m.n > low /\ m.n <= high

(* What stands in s, or was compacted in it, or is on the screen only. *)
Covered(m, s) ==
  \/ m.kind = "notice" \/ m \in ToSet(s)
  \/ \E y \in ToSet(s) : y.kind = "summary"

(* What the conversation will be when the task ends. *)
Tip(c, k) == IF k.job = "none" THEN c.messages ELSE k.messages

Counts(id, low, high) ==
  /\ id \in Session /\ low \in 0..MaxMade /\ high \in 0..MaxMade /\ low <= high

(* The record is what the loop will send, whenever a step has ended. *)
Agree(id, low, high, c) ==
  /\ c = [messages |-> c.messages, screen |-> c.screen, record |-> c.messages]
  /\ Fits(c.messages, id, low, high) /\ Fits(c.screen, id, low, high)

Files(high, d) ==
  /\ d \in [Session -> Seq(Message)]
  /\ \A s \in Session : Fits(d[s], s, 0, high)

Works(id, low, high, k) ==
  /\ k \in Task /\ Fits(k.messages, id, low, high)
  /\ k.job = "none" => k.messages = << >>

(* What an event may bring to the screen. *)
Brings(m, id, low, high, t) ==
  /\ m \in Message /\ m.kind = "answer" /\ m.in = id /\ m.n > low /\ m.n <= high
  /\ Covered(m, t)
Speaks(id, low, high, t, e) ==
  /\ e \in Seq(Event)
  /\ \A i \in 1..Len(e) : e[i].message = None \/ Brings(e[i].message, id, low, high, t)

(* What is known of the message of the turn, and of all like it.           *)
Goals(high, Ms) == \A m \in Ms : m \in Message /\ m.kind = "goal" /\ m.n <= high
Owns(high, o, x, S) ==
  /\ o \in Turn
  /\ o.message # None =>
       /\ Goals(high, {o.message}) /\ o.held
       /\ o.message \in S <=> o.attempted
       /\ o.message \in x => o.attempted

(* What was taken back is nowhere but in the copy of a task, and then it is*)
(* of the turn that will be rolled back when the task ends.                *)
Gone(c, d, o, k, R, S) ==
  \A m \in R \ S :
    /\ m \notin ToSet(c.messages) /\ m \notin ToSet(c.screen)
    /\ \A s \in Session : m \notin ToSet(d[s])
    /\ m \in ToSet(k.messages) => o.message = m /\ (o.abandoned \/ o.revoked)

(* The screen shows nothing that the conversation will not have. *)
Seen(c, t) == \A m \in ToSet(c.screen) : Covered(m, t)

Saved(id, c, d, k) ==
  k.job = "none" => \A m \in ToSet(c.messages) : Covered(m, d[id])

(* What the index has can no more be taken back. *)
Final(x, R, S) == x \cap R \subseteq S

Whole(id, low, high, c, d, x, o, k, e, R, S) ==
  /\ Counts(id, low, high)
  /\ Agree(id, low, high, c)
  /\ Files(high, d)
  /\ Works(id, low, high, k)
  /\ Speaks(id, low, high, Tip(c, k), e)
  /\ Goals(high, x \cup R \cup S)
  /\ Owns(high, o, x, S)
  /\ Gone(c, d, o, k, R, S)
  /\ Seen(c, Tip(c, k))
  /\ Saved(id, c, d, k)
  /\ Final(x, R, S)

Frame ==
  /\ scenario \in Scenario
  /\ phase \in {"key", "drain", "settle", "remote", "retry", "end"}
  /\ streaming \in BOOLEAN /\ overlay \in BOOLEAN
  /\ recovery \in {"closed", "open", "pending"}

(* The state, and with a prime what a step makes of it. *)
Now == Whole(session, since, made, copies, disk, index, owner, task, events, rolled, sent)

IInv == Frame /\ Now

-----------------------------------------------------------------------------
(* Sequences of messages.                                                  *)

(* A nonempty set of numbers from 1 on has a least member.                 *)
LEMMA Least ==
  ASSUME NEW n \in Nat, NEW I \in SUBSET (1..n), I # {}
  PROVE  \E m \in I : \A i \in I : m <= i
<1>1. I \subseteq Nat
  OBVIOUS
<1>2. PICK m \in I : \A y \in I : ~(<<y, m>> \in OpToRel(<, Nat))
  BY <1>1, NatLessThanWellFounded, WFMin
<1>3. ASSUME NEW i \in I PROVE m <= i
  <2>1. ~(i < m)
    BY <1>1, <1>2 DEF OpToRel
  <2>2. QED
    BY <1>1, <2>1
<1>4. QED
  BY <1>3

(* The members of a sequence of messages are messages.                     *)
LEMMA Members ==
  ASSUME NEW s \in Seq(Message)
  PROVE  ToSet(s) \subseteq Message
BY DEF ToSet

(* Contains is membership in the set of the messages.                      *)
(* The members of a sequence of messages are messages.                     *)
LEMMA Membership ==
  ASSUME NEW s \in Seq(Message), NEW m
  PROVE  Contains(s, m) <=> m \in ToSet(s)
BY DEF Contains, ToSet

(* Nothing is in the empty sequence.                                       *)
LEMMA EmptySequence ==
  << >> \in Seq(Message) /\ ToSet(<< >>) = {} /\ IsInjective(<< >>)
BY DEF ToSet, IsInjective

(* A message at the end.                                                   *)
LEMMA Appended ==
  ASSUME NEW s \in Seq(Message), NEW m \in Message, NEW t, t = Append(s, m)
  PROVE  /\ t \in Seq(Message) /\ ToSet(t) = ToSet(s) \cup {m}
         /\ IsInjective(s) /\ m \notin ToSet(s) => IsInjective(t)
<1>1. /\ t \in Seq(Message) /\ Len(t) = Len(s) + 1 /\ t[Len(s) + 1] = m
      /\ \A k \in 1..Len(s) : t[k] = s[k]
  OBVIOUS
<1>2. DOMAIN s = 1..Len(s) /\ DOMAIN t = 1..(Len(s) + 1) /\ Len(s) \in Nat
  BY <1>1
<1>3. \A k \in DOMAIN t : k \in DOMAIN s \/ k = Len(s) + 1
  BY <1>2
<1>4. DOMAIN s \subseteq DOMAIN t /\ Len(s) + 1 \in DOMAIN t /\ Len(s) + 1 \notin DOMAIN s
  BY <1>2
<1>5. ToSet(t) = ToSet(s) \cup {m}
  BY <1>1, <1>2, <1>3, <1>4 DEF ToSet
<1>6. ASSUME IsInjective(s), m \notin ToSet(s) PROVE IsInjective(t)
  BY <1>1, <1>2, <1>3, <1>4, <1>6 DEF IsInjective, ToSet
<1>7. QED
  BY <1>1, <1>5, <1>6

(* A part of a sequence has part of its messages.                          *)
LEMMA Part ==
  ASSUME NEW s \in Seq(Message), NEW i \in Nat, NEW j \in Nat, 1 <= i, j <= Len(s),
         NEW t, t = SubSeq(s, i, j)
  PROVE  /\ t \in Seq(Message) /\ ToSet(t) \subseteq ToSet(s)
         /\ IsInjective(s) => IsInjective(t)
<1>1. Len(s) \in Nat /\ DOMAIN s = 1..Len(s)
  OBVIOUS
<1>2. CASE j < i
  <2>1. t = << >>
    BY <1>2
  <2>2. QED
    BY <2>1, EmptySequence
<1>3. CASE i <= j
  <2>1. PICK g \in Nat : g = i - 1
    OBVIOUS
  <2>2. \A k \in i..j : s[k] \in Message
    BY <1>1
  <2>3. t \in Seq(Message) /\ DOMAIN t = 1..(j - g) /\ \A k \in 1..(j - g) : t[k] = s[k + g]
    BY <1>3, <2>1, <2>2
  <2>4. \A k \in 1..(j - g) : k + g \in DOMAIN s
    BY <1>1, <1>3, <2>1
  <2>5. ToSet(t) \subseteq ToSet(s)
    BY <2>3, <2>4 DEF ToSet
  <2>6. ASSUME IsInjective(s) PROVE IsInjective(t)
    <3>1. ASSUME NEW k \in DOMAIN t, NEW l \in DOMAIN t, t[k] = t[l] PROVE k = l
      <4>1. s[k + g] = s[l + g]
        BY <2>3, <3>1
      <4>2. k + g = l + g
        BY <2>3, <2>4, <2>6, <4>1 DEF IsInjective
      <4>3. k \in Nat /\ l \in Nat
        BY <2>3
      <4>4. QED
        BY <2>1, <4>2, <4>3
    <3>2. QED
      BY <3>1 DEF IsInjective
  <2>7. QED
    BY <2>3, <2>5, <2>6
<1>4. QED
  BY <1>2, <1>3

(* A message in front of others.                                           *)
LEMMA Before ==
  ASSUME NEW s \in Seq(Message), NEW m \in Message, NEW t, t = <<m>> \o s
  PROVE  /\ t \in Seq(Message) /\ ToSet(t) = ToSet(s) \cup {m}
         /\ IsInjective(s) /\ m \notin ToSet(s) => IsInjective(t)
<1>1. /\ t \in Seq(Message) /\ Len(t) = Len(s) + 1 /\ t[1] = m
      /\ \A k \in 2..(Len(s) + 1) : t[k] = s[k - 1]
  <2>1. <<m>> \in Seq(Message) /\ Len(<<m>>) = 1 /\ <<m>>[1] = m
    OBVIOUS
  <2>2. QED
    BY <2>1, ConcatProperties
<1>2. DOMAIN s = 1..Len(s) /\ DOMAIN t = 1..(Len(s) + 1) /\ Len(s) \in Nat
  BY <1>1
<1>3. \A k \in DOMAIN t : k = 1 \/ (k \in 2..(Len(s) + 1) /\ k - 1 \in DOMAIN s)
  BY <1>2
<1>4. \A k \in DOMAIN s : k + 1 \in 2..(Len(s) + 1) /\ k + 1 \in DOMAIN t /\ k = k + 1 - 1
  BY <1>2
<1>5. \A k \in DOMAIN s : t[k + 1] = s[k]
  <2>1. TAKE k \in DOMAIN s
  <2>2. PICK l : l = k + 1
    OBVIOUS
  <2>3. l \in 2..(Len(s) + 1) /\ l - 1 = k
    BY <1>2, <2>2
  <2>4. t[l] = s[l - 1]
    BY <1>1, <2>3
  <2>5. QED
    BY <2>2, <2>3, <2>4
<1>6. ToSet(t) = ToSet(s) \cup {m}
  <2>1. \A k \in DOMAIN t : t[k] = m \/ t[k] \in ToSet(s)
    BY <1>1, <1>3 DEF ToSet
  <2>2. m \in ToSet(t) /\ \A k \in DOMAIN s : s[k] \in ToSet(t)
    BY <1>1, <1>2, <1>4, <1>5 DEF ToSet
  <2>3. ToSet(t) \subseteq ToSet(s) \cup {m}
    BY ONLY <2>1 DEF ToSet
  <2>4. ToSet(s) \cup {m} \subseteq ToSet(t)
    BY ONLY <2>2 DEF ToSet
  <2>5. QED
    BY ONLY <2>3, <2>4
<1>7. ASSUME IsInjective(s), m \notin ToSet(s) PROVE IsInjective(t)
  <2>1. ASSUME NEW k \in DOMAIN t, NEW l \in DOMAIN t, t[k] = t[l] PROVE k = l
    <3>1. CASE k = 1 \/ l = 1
      BY <1>1, <1>3, <1>7, <2>1, <3>1 DEF ToSet
    <3>2. CASE k # 1 /\ l # 1
      <4>1. k \in 2..(Len(s) + 1) /\ l \in 2..(Len(s) + 1) /\ k - 1 \in DOMAIN s /\ l - 1 \in DOMAIN s
        BY <1>3, <3>2
      <4>2. s[k - 1] = s[l - 1]
        BY <1>1, <2>1, <4>1
      <4>3. k - 1 = l - 1
        BY <1>7, <4>1, <4>2 DEF IsInjective
      <4>4. QED
        BY <4>1, <4>3
    <3>3. QED
      BY <3>1, <3>2
  <2>2. QED
    BY <2>1 DEF IsInjective
<1>8. QED
  BY <1>1, <1>6, <1>7

(* RemoveAt leaves out one message.                                        *)
LEMMA RemoveAtElements ==
  ASSUME NEW s \in Seq(Message), NEW i \in 1..Len(s)
  PROVE  /\ RemoveAt(s, i) \in Seq(Message)
         /\ Len(RemoveAt(s, i)) = Len(s) - 1
         /\ \A k \in 1..(i - 1) : RemoveAt(s, i)[k] = s[k]
         /\ \A k \in i..(Len(s) - 1) : RemoveAt(s, i)[k] = s[k + 1]
<1> DEFINE front == SubSeq(s, 1, i - 1)
           back == SubSeq(s, i + 1, Len(s))
<1>1. /\ front \in Seq(Message) /\ Len(front) = i - 1
      /\ \A k \in 1..(i - 1) : front[k] = s[k]
  OBVIOUS
<1>2. /\ back \in Seq(Message) /\ Len(back) = Len(s) - i
      /\ \A k \in 1..(Len(s) - i) : back[k] = s[k + i]
  OBVIOUS
<1>3. RemoveAt(s, i) = front \o back
  BY DEF RemoveAt
<1> HIDE DEF front, back
<1>4. RemoveAt(s, i) \in Seq(Message) /\ Len(RemoveAt(s, i)) = Len(s) - 1
  BY <1>1, <1>2, <1>3
<1>5. \A k \in 1..(i - 1) : RemoveAt(s, i)[k] = s[k]
  BY <1>1, <1>2, <1>3
<1>6. ASSUME NEW k \in i..(Len(s) - 1) PROVE RemoveAt(s, i)[k] = s[k + 1]
  <2>1. (front \o back)[k] = back[k - (i - 1)]
    BY <1>1, <1>2
  <2>2. back[k - (i - 1)] = s[(k - (i - 1)) + i] /\ (k - (i - 1)) + i = k + 1
    BY <1>2
  <2>3. QED
    BY <1>3, <2>1, <2>2
<1>7. QED
  BY <1>4, <1>5, <1>6

(* A message that is there once is taken out.                              *)
LEMMA Removed ==
  ASSUME NEW s \in Seq(Message), IsInjective(s), NEW m, NEW t, t = RemoveFirst(s, m)
  PROVE  /\ t \in Seq(Message) /\ ToSet(t) = ToSet(s) \ {m} /\ IsInjective(t)
         /\ m \notin ToSet(s) => t = s
<1>1. DOMAIN s = 1..Len(s) /\ Len(s) \in Nat
  OBVIOUS
<1>2. CASE m \notin ToSet(s)
  <2>1. t = s
    BY <1>1, <1>2 DEF RemoveFirst, ToSet
  <2>2. QED
    BY <1>2, <2>1
<1>3. CASE m \in ToSet(s)
  <2>1. PICK I \in SUBSET (1..Len(s)) : I = {i \in 1..Len(s) : s[i] = m}
    OBVIOUS
  <2>2. I # {}
    BY <1>1, <1>3, <2>1 DEF ToSet
  <2>3. \E p \in I : \A i \in I : p <= i
    BY <1>1, <2>1, <2>2, Least
  <2>4. Min(I) \in I
    BY <2>3 DEF Min
  <2>5. PICK p \in 1..Len(s) : p = Min(I) /\ s[p] = m
    BY <2>1, <2>4
  <2>6. t = RemoveAt(s, p)
    <3>1. SelectInSeq(s, LAMBDA v : v = m) = p
      BY <2>1, <2>2, <2>5 DEF SelectInSeq
    <3>2. \E i \in 1..Len(s) : s[i] = m
      BY <2>5
    <3>3. QED
      BY <3>1, <3>2 DEF RemoveFirst
  <2>7. /\ t \in Seq(Message) /\ Len(t) = Len(s) - 1
        /\ \A k \in 1..(p - 1) : t[k] = s[k]
        /\ \A k \in p..(Len(s) - 1) : t[k] = s[k + 1]
    BY <2>6, RemoveAtElements
  <2>8. DOMAIN t = 1..(Len(s) - 1)
    BY <1>1, <2>7
  <2>9. ASSUME NEW k \in DOMAIN t
        PROVE  \/ k < p /\ k \in DOMAIN s /\ t[k] = s[k]
               \/ k >= p /\ k + 1 \in DOMAIN s /\ t[k] = s[k + 1]
    <3>1. CASE k < p
      <4>1. k \in 1..(p - 1) /\ k \in 1..Len(s)
        BY <1>1, <2>8, <3>1
      <4>2. QED
        BY <1>1, <2>7, <3>1, <4>1
    <3>2. CASE k >= p
      <4>1. k \in p..(Len(s) - 1) /\ k + 1 \in 1..Len(s)
        BY <1>1, <2>8, <3>2
      <4>2. QED
        BY <1>1, <2>7, <3>2, <4>1
    <3>3. QED
      BY <1>1, <2>8, <3>1, <3>2
  <2>10. ASSUME NEW k \in DOMAIN s, k # p
         PROVE  \E l \in DOMAIN t : t[l] = s[k]
    <3>1. CASE k < p
      <4>1. k \in 1..(p - 1) /\ k \in 1..(Len(s) - 1)
        BY <1>1, <3>1
      <4>2. QED
        BY <2>7, <2>8, <4>1
    <3>2. CASE k > p
      <4>1. PICK l : l = k - 1
        OBVIOUS
      <4>2. l \in p..(Len(s) - 1) /\ l \in 1..(Len(s) - 1) /\ l + 1 = k
        BY <1>1, <3>2, <4>1
      <4>3. QED
        BY <2>7, <2>8, <4>2
    <3>3. QED
      BY <1>1, <2>10, <3>1, <3>2
  <2>11. \A k \in DOMAIN s : s[k] = m => k = p
    BY <1>1, <2>5 DEF IsInjective
  <2>12. ToSet(t) = ToSet(s) \ {m}
    <3>1. ASSUME NEW k \in DOMAIN t PROVE t[k] \in ToSet(s) /\ t[k] # m
      <4>1. CASE k < p /\ k \in DOMAIN s /\ t[k] = s[k]
        BY <1>1, <2>11, <4>1 DEF ToSet
      <4>2. CASE k >= p /\ k + 1 \in DOMAIN s /\ t[k] = s[k + 1]
        <5>1. k + 1 # p
          BY <2>8, <4>2
        <5>2. QED
          BY <2>11, <4>2, <5>1 DEF ToSet
      <4>3. QED
        BY <2>9, <4>1, <4>2
    <3>2. ASSUME NEW x \in ToSet(s), x # m PROVE x \in ToSet(t)
      <4>1. PICK k \in DOMAIN s : s[k] = x
        BY DEF ToSet
      <4>2. k # p
        BY <2>5, <3>2, <4>1
      <4>3. QED
        BY <2>10, <4>1, <4>2 DEF ToSet
    <3>3. QED
      BY <3>1, <3>2 DEF ToSet
  <2>13. IsInjective(t)
    <3>1. ASSUME NEW k \in DOMAIN t, NEW l \in DOMAIN t, t[k] = t[l] PROVE k = l
      <4>1. PICK a \in DOMAIN s : t[k] = s[a] /\ (k < p => a = k) /\ (k >= p => a = k + 1)
        BY <2>8, <2>9
      <4>2. PICK b \in DOMAIN s : t[l] = s[b] /\ (l < p => b = l) /\ (l >= p => b = l + 1)
        BY <2>8, <2>9
      <4>3. a = b
        BY <3>1, <4>1, <4>2 DEF IsInjective
      <4>4. QED
        BY <2>8, <4>1, <4>2, <4>3
    <3>2. QED
      BY <3>1 DEF IsInjective
  <2>14. QED
    BY <1>3, <2>7, <2>12, <2>13
<1>4. QED
  BY <1>2, <1>3
-----------------------------------------------------------------------------
(* What the steps do to the conversation.                                  *)

(* A message is taken out of the copies.                                   *)
LEMMA TakenOut ==
  ASSUME NEW id, NEW low, NEW high, NEW c, Agree(id, low, high, c), NEW m,
         NEW b, b = Without(c, m)
  PROVE  /\ Agree(id, low, high, b)
         /\ ToSet(b.messages) = ToSet(c.messages) \ {m}
         /\ ToSet(b.screen) = ToSet(c.screen) \ {m}
         /\ m \notin ToSet(c.messages) \cup ToSet(c.screen) => b = c
<1>1. c.record = c.messages
  BY DEF Agree
<1>2. PICK s : s = RemoveFirst(c.messages, m)
  OBVIOUS
<1>3. PICK t : t = RemoveFirst(c.screen, m)
  OBVIOUS
<1>4. b = [messages |-> s, screen |-> t, record |-> s]
  BY <1>1, <1>2, <1>3 DEF Without
<1>5. /\ s \in Seq(Message) /\ ToSet(s) = ToSet(c.messages) \ {m} /\ IsInjective(s)
      /\ m \notin ToSet(c.messages) => s = c.messages
  BY <1>2, Removed DEF Agree, Fits
<1>6. /\ t \in Seq(Message) /\ ToSet(t) = ToSet(c.screen) \ {m} /\ IsInjective(t)
      /\ m \notin ToSet(c.screen) => t = c.screen
  BY <1>3, Removed DEF Agree, Fits
<1>7. Agree(id, low, high, b)
  BY <1>4, <1>5, <1>6 DEF Agree, Fits
<1>8. m \notin ToSet(c.messages) \cup ToSet(c.screen) => b = c
  BY <1>4, <1>5, <1>6 DEF Agree
<1>9. QED
  BY <1>4, <1>5, <1>6, <1>7, <1>8

(* What the file and the index have after persist_interactive_session.     *)
Indexing(x, o, s) == x \cup {m \in ToSet(s) : m.kind = "goal" /\ (m = o.message => o.attempted)}

(* What is taken back from now on, Q, is not in the copies; it is what was *)
(* taken back, R, or the message of a turn that no model was asked about.  *)
TakesBack(c, o, R, Q, S) ==
  /\ R \subseteq Q /\ Q \subseteq R \cup {o.message} /\ None \notin Q
  /\ \A m \in Q \ S : m \notin ToSet(c.messages)
  /\ o.message \in Q => o.message \in R \/ ~o.attempted

Saving(d, id, s) == [d EXCEPT ![id] = s]

(* The record is written: the index takes nothing that can be taken back.  *)
LEMMA Written ==
  ASSUME NEW id, NEW low, NEW high, Counts(id, low, high),
         NEW c, Agree(id, low, high, c), NEW d, Files(high, d),
         NEW x, NEW o, NEW R, NEW S, Goals(high, x \cup R \cup S), Owns(high, o, x, S),
         Final(x, R, S), NEW Q, TakesBack(c, o, R, Q, S),
         NEW e, e = Saving(d, id, c.record),
         NEW y, y = Indexing(x, o, c.record)
  PROVE  /\ Files(high, e) /\ Goals(high, y \cup Q \cup S) /\ Owns(high, o, y, S)
         /\ Final(y, Q, S)
         /\ e[id] = c.messages /\ \A s \in Session : s # id => e[s] = d[s]
<1>1. c.record = c.messages /\ id \in Session
  BY DEF Agree, Counts
<1>2. e[id] = c.messages /\ \A s \in Session : s # id => e[s] = d[s]
  BY <1>1 DEF Files, Saving
<1>3. Files(high, e)
  <2>1. e \in [Session -> Seq(Message)]
    BY <1>1 DEF Files, Agree, Fits, Saving
  <2>2. Fits(c.messages, id, 0, high)
    <3>1. ToSet(c.messages) \subseteq Message
      BY Members DEF Agree, Fits
    <3>2. \A m \in ToSet(c.messages) : m.n > 0
      BY <3>1 DEF Message
    <3>3. QED
      BY <3>2 DEF Agree, Fits
  <2>3. QED
    BY <1>2, <2>1, <2>2 DEF Files
<1>4. \A m \in ToSet(c.messages) : m \in Message /\ m.n <= high
  BY Members DEF Agree, Fits
<1>5. y = x \cup {m \in ToSet(c.messages) : m.kind = "goal" /\ (m = o.message => o.attempted)}
  BY <1>1 DEF Indexing
<1>6. Goals(high, y \cup Q \cup S)
  BY <1>4, <1>5 DEF Goals, Owns, TakesBack
<1>7. Owns(high, o, y, S)
  BY <1>5 DEF Owns
<1>8. Final(y, Q, S)
  <2>1. ASSUME NEW m \in x, m \in Q PROVE m \in S
    BY <2>1 DEF Owns, TakesBack, Final
  <2>2. QED
    BY <1>5, <2>1 DEF TakesBack, Final
<1>9. QED
  BY <1>2, <1>3, <1>6, <1>7, <1>8

(* What covered m still does when a message that is not compacted from and *)
(* not m itself has left.                                                  *)
LEMMA StillCovered ==
  ASSUME NEW m, NEW g, g.kind = "goal", m # g, NEW s, NEW t, Covered(m, s),
         ToSet(t) = ToSet(s) \ {g}
  PROVE  Covered(m, t)
<1>1. CASE m.kind = "notice" \/ m \in ToSet(s)
  BY <1>1 DEF Covered
<1>2. CASE \E y \in ToSet(s) : y.kind = "summary"
  BY <1>2 DEF Covered
<1>3. QED
  BY <1>1, <1>2 DEF Covered

(* More covers what less did.                                              *)
LEMMA MoreCovers ==
  ASSUME NEW m, NEW s, NEW t, Covered(m, s), ToSet(s) \subseteq ToSet(t)
  PROVE  Covered(m, t)
BY DEF Covered

(* Events bring the same when what they bring is still covered.            *)
LEMMA StillSpeaks ==
  ASSUME NEW id, NEW low, NEW high, NEW e, NEW s, NEW t, Speaks(id, low, high, s, e),
         \A m \in Message : m.kind = "answer" /\ Covered(m, s) => Covered(m, t)
  PROVE  Speaks(id, low, high, t, e)
BY DEF Speaks, Brings

(* A turn that no model was asked about is taken back while nothing runs,  *)
(* or while a task runs whose turn was given up.                           *)
LEMMA TakenBack ==
  ASSUME NEW id, NEW low, NEW high, NEW c, NEW d, NEW x, NEW o, NEW k, NEW e, NEW R, NEW S,
         Whole(id, low, high, c, d, x, o, k, e, R, S),
         k.job = "none" \/ o.abandoned, o.message # None, ~o.attempted,
         NEW b, b = Without(c, o.message), b # c,
         NEW f, f = Saving(d, id, b.record),
         NEW y, y = Indexing(x, o, b.record),
         NEW Q, Q = R \cup {o.message}
  PROVE  Whole(id, low, high, b, f, y, o, k, e, Q, S)
<1>0. PICK g : g = o.message
  OBVIOUS
<1>1. /\ Agree(id, low, high, c) /\ Agree(id, low, high, b)
      /\ ToSet(b.messages) = ToSet(c.messages) \ {g}
      /\ ToSet(b.screen) = ToSet(c.screen) \ {g}
      /\ g \in ToSet(c.messages) \cup ToSet(c.screen)
  BY <1>0, TakenOut DEF Whole
<1>2. g \in Message /\ g.kind = "goal" /\ g.n <= high /\ g.in = id /\ g # None
  BY <1>0, <1>1 DEF Whole, Owns, Goals, Agree, Fits
<1>3. \A m \in Q \ S : m \notin ToSet(b.messages) /\ m \notin ToSet(b.screen)
  BY <1>0, <1>1 DEF Whole, Gone
<1>4. /\ Files(high, f) /\ Goals(high, y \cup Q \cup S) /\ Owns(high, o, y, S)
      /\ Final(y, Q, S)
      /\ f[id] = b.messages /\ \A s \in Session : s # id => f[s] = d[s]
  <2>1. None \notin Q
    <3>1. None \notin Message
      BY DEF None, Message, Kind
    <3>2. QED
      BY <1>0, <1>2, <3>1 DEF Whole, Goals
  <2>2. /\ Counts(id, low, high) /\ Files(high, d) /\ Goals(high, x \cup R \cup S)
        /\ Owns(high, o, x, S) /\ Final(x, R, S)
    BY DEF Whole
  <2>3. TakesBack(b, o, R, Q, S)
    BY <1>3, <2>1 DEF TakesBack
  <2>4. f = Saving(d, id, b.record) /\ y = Indexing(x, o, b.record)
    OBVIOUS
  <2>5. QED
    BY ONLY <1>0, <1>1, <2>1, <2>2, <2>3, <2>4, Written
<1>5. Gone(b, f, o, k, Q, S)
  <2>1. ASSUME NEW m \in Q \ S, NEW s \in Session PROVE m \notin ToSet(f[s])
    <3>1. CASE s = id
      BY <1>3, <1>4, <2>1, <3>1
    <3>2. CASE s # id /\ m = g
      BY <1>2, <1>4, <3>2 DEF Whole, Files, Fits
    <3>3. CASE s # id /\ m # g
      BY <1>0, <1>4, <2>1, <3>3 DEF Whole, Gone
    <3>4. QED
      BY <3>1, <3>2, <3>3
  <2>2. ASSUME NEW m \in Q \ S, m \in ToSet(k.messages)
        PROVE  o.message = m /\ (o.abandoned \/ o.revoked)
    <3>1. CASE k.job = "none"
      BY <2>2, <3>1, EmptySequence DEF Whole, Works
    <3>2. CASE k.job # "none"
      BY <1>0, <1>2, <2>2, <3>2 DEF Whole, Gone
    <3>3. QED
      BY <3>1, <3>2
  <2>3. QED
    BY <1>3, <2>1, <2>2 DEF Gone
<1>6. ASSUME NEW m, m # g, Covered(m, Tip(c, k)) PROVE Covered(m, Tip(b, k))
  <2>1. CASE k.job = "none"
    <3>1. Tip(c, k) = c.messages /\ Tip(b, k) = b.messages
      BY <2>1 DEF Tip
    <3>2. QED
      BY <1>1, <1>2, <1>6, <3>1, StillCovered
  <2>2. CASE k.job # "none"
    BY <1>6, <2>2 DEF Tip
  <2>3. QED
    BY <2>1, <2>2
<1>7. Speaks(id, low, high, Tip(b, k), e)
  <2>1. \A m \in Message : m.kind = "answer" => m # g
    BY <1>2
  <2>2. QED
    BY <1>6, <2>1, StillSpeaks DEF Whole
<1>8. Seen(b, Tip(b, k))
  BY <1>1, <1>6 DEF Whole, Seen
<1>9. Saved(id, b, f, k)
  BY <1>4 DEF Saved, Covered
<1>10. QED
  BY <1>1, <1>4, <1>5, <1>7, <1>8, <1>9 DEF Whole

(* The copy of the task in the place of the conversation. *)
InSync(c, k) == [c EXCEPT !.messages = k.messages, !.record = k.messages]

(* b is a without the message of a turn that was given up before a model   *)
(* was asked; Q is what was taken back with it.                            *)
Settled(a, o, R, b, Q) ==
  LET back == o.message # None /\ ~o.attempted /\ (o.abandoned \/ o.revoked) IN
  \/ back /\ b = Without(a, o.message) /\ Q = IF a = b THEN R ELSE R \cup {o.message}
  \/ ~back /\ b = a /\ Q = R

(* A task ends: its copy becomes the conversation, without the message of  *)
(* a turn that was given up before a model was asked, and is saved.        *)
LEMMA Ended ==
  ASSUME NEW id, NEW low, NEW high, NEW c, NEW d, NEW x, NEW o, NEW k, NEW e, NEW R, NEW S,
         Whole(id, low, high, c, d, x, o, k, e, R, S), k.job # "none",
         NEW a, a = InSync(c, k), NEW b, NEW Q, Settled(a, o, R, b, Q),
         NEW f, f = Saving(d, id, b.record),
         NEW y, y = Indexing(x, o, b.record)
  PROVE  Whole(id, low, high, b, f, y, o, NoTask, e, Q, S)
<1>0. PICK g : g = o.message
  OBVIOUS
<1> DEFINE Back == o.message # None /\ ~o.attempted /\ (o.abandoned \/ o.revoked)
<1>1. a = [messages |-> k.messages, screen |-> c.screen, record |-> k.messages]
  BY DEF Whole, Agree, InSync
<1>2. Agree(id, low, high, a)
  BY <1>1 DEF Whole, Agree, Works
<1>3. /\ Agree(id, low, high, b)
      /\ ToSet(b.messages) = IF Back THEN ToSet(k.messages) \ {g} ELSE ToSet(k.messages)
      /\ ToSet(b.screen) = IF Back THEN ToSet(c.screen) \ {g} ELSE ToSet(c.screen)
      /\ b # a => Back /\ g \in ToSet(k.messages) \cup ToSet(c.screen)
  <2>1. CASE Back
    <3>1. b = Without(a, g)
      BY <1>0, <2>1 DEF Settled
    <3>2. /\ Agree(id, low, high, b)
          /\ ToSet(b.messages) = ToSet(a.messages) \ {g}
          /\ ToSet(b.screen) = ToSet(a.screen) \ {g}
          /\ g \notin ToSet(a.messages) \cup ToSet(a.screen) => b = a
      BY ONLY <1>2, <3>1, TakenOut
    <3>3. a.messages = k.messages /\ a.screen = c.screen
      BY <1>1
    <3>4. QED
      BY <2>1, <3>2, <3>3
  <2>2. CASE ~Back
    <3>1. b = a
      BY <2>2 DEF Settled
    <3>2. QED
      BY <1>1, <1>2, <2>2, <3>1
  <2>3. QED
    BY <2>1, <2>2
<1>4. Back => g \in Message /\ g.kind = "goal" /\ g.n <= high /\ g \notin S
  BY <1>0 DEF Whole, Owns, Goals
<1>5. b # a => g.in = id
  BY <1>3 DEF Whole, Agree, Works, Fits
<1>6. Q = IF a = b THEN R ELSE R \cup {g}
  BY <1>0 DEF Settled
<1>7. \A m \in Q \ S : m \notin ToSet(b.messages) /\ m \notin ToSet(b.screen)
  <2>1. ASSUME NEW m \in R \ S PROVE m \notin ToSet(b.messages) /\ m \notin ToSet(b.screen)
    <3>1. m \notin ToSet(c.screen) /\ (m \in ToSet(k.messages) => g = m /\ (o.abandoned \/ o.revoked))
      BY <1>0 DEF Whole, Gone
    <3>2. m \in Message /\ None \notin Message
      BY DEF Whole, Goals, None, Message, Kind
    <3>3. m \in ToSet(k.messages) => Back
      BY <1>0, <3>1, <3>2 DEF Whole, Owns
    <3>4. QED
      BY <1>3, <3>1, <3>3
  <2>2. QED
    BY <1>3, <1>6, <2>1
<1>8. /\ Files(high, f) /\ Goals(high, y \cup Q \cup S) /\ Owns(high, o, y, S)
      /\ Final(y, Q, S)
      /\ f[id] = b.messages /\ \A s \in Session : s # id => f[s] = d[s]
  <2>1. None \notin Q
    <3>1. None \notin Message
      BY DEF None, Message, Kind
    <3>2. QED
      BY <1>0, <1>3, <1>4, <1>6, <3>1 DEF Whole, Goals
  <2>2. /\ Counts(id, low, high) /\ Files(high, d) /\ Goals(high, x \cup R \cup S)
        /\ Owns(high, o, x, S) /\ Final(x, R, S)
    BY DEF Whole
  <2>3. TakesBack(b, o, R, Q, S)
    BY <1>0, <1>3, <1>6, <1>7, <2>1 DEF TakesBack
  <2>4. f = Saving(d, id, b.record) /\ y = Indexing(x, o, b.record)
    OBVIOUS
  <2>5. QED
    BY ONLY <1>0, <1>3, <2>1, <2>2, <2>3, <2>4, Written
<1>9. NoTask.job = "none" /\ NoTask.messages = << >>
  BY DEF NoTask
<1>10. Works(id, low, high, NoTask)
  <2>1. Fits(<< >>, id, low, high)
    BY EmptySequence DEF Fits
  <2>2. NoTask \in Task
    BY EmptySequence, BoundAssumption DEF NoTask, Task, Outcome
  <2>3. QED
    BY <1>9, <2>1, <2>2 DEF Works
<1>11. Gone(b, f, o, NoTask, Q, S)
  <2>1. ASSUME NEW m \in Q \ S, NEW s \in Session PROVE m \notin ToSet(f[s])
    <3>1. CASE s = id
      BY <1>7, <1>8, <2>1, <3>1
    <3>2. CASE s # id /\ m \in R
      BY <1>8, <2>1, <3>2 DEF Whole, Gone
    <3>3. CASE s # id /\ m \notin R
      <4>1. b # a /\ m = g
        BY <1>6, <2>1, <3>3
      <4>2. QED
        BY <1>5, <1>8, <3>3, <4>1 DEF Whole, Files, Fits
    <3>4. QED
      BY <3>1, <3>2, <3>3
  <2>2. QED
    BY <1>7, <1>9, <2>1, EmptySequence DEF Gone
<1>12. Tip(c, k) = k.messages /\ Tip(b, NoTask) = b.messages
  BY <1>9 DEF Tip
<1>13. ASSUME NEW m, Back => m # g, Covered(m, k.messages) PROVE Covered(m, b.messages)
  <2>1. CASE Back
    BY <1>3, <1>4, <1>13, <2>1, StillCovered
  <2>2. CASE ~Back
    BY <1>3, <1>13, <2>2, MoreCovers
  <2>3. QED
    BY <2>1, <2>2
<1>14. Speaks(id, low, high, Tip(b, NoTask), e)
  <2>1. \A m \in Message : m.kind = "answer" => (Back => m # g)
    BY <1>4
  <2>2. QED
    BY <1>12, <1>13, <2>1, StillSpeaks DEF Whole
<1>15. Seen(b, Tip(b, NoTask))
  BY <1>3, <1>12, <1>13 DEF Whole, Seen
<1>16. Saved(id, b, f, NoTask)
  BY <1>8 DEF Saved, Covered
<1>17. QED
  BY <1>3, <1>8, <1>10, <1>11, <1>14, <1>15, <1>16 DEF Whole

(* With no copy of a task there is nothing that a new owner would have to  *)
(* take back.                                                              *)
LEMMA Released ==
  ASSUME NEW id, NEW low, NEW high, NEW c, NEW d, NEW x, NEW o, NEW k, NEW e, NEW R, NEW S,
         Whole(id, low, high, c, d, x, o, k, e, R, S), k.job = "none"
  PROVE  Whole(id, low, high, c, d, x, NoOwner, k, e, R, S)
<1>1. Owns(high, NoOwner, x, S)
  BY DEF Owns, NoOwner, Turn
<1>2. Gone(c, d, NoOwner, k, R, S)
  BY EmptySequence DEF Whole, Works, Gone
<1>3. QED
  BY <1>1, <1>2 DEF Whole

(* The flags of the owner that settle nothing.                             *)
LEMMA Flagged ==
  ASSUME NEW id, NEW low, NEW high, NEW c, NEW d, NEW x, NEW o, NEW k, NEW e, NEW R, NEW S,
         Whole(id, low, high, c, d, x, o, k, e, R, S),
         NEW p, p = [o EXCEPT !.abandoned = o.held] \/ p = [o EXCEPT !.revoked = TRUE]
  PROVE  Whole(id, low, high, c, d, x, p, k, e, R, S)
<1>1. o \in Turn /\ p \in Turn /\ p.message = o.message /\ p.attempted = o.attempted
      /\ p.held = o.held
  BY DEF Whole, Owns, Turn
<1>2. Owns(high, p, x, S)
  BY <1>1 DEF Whole, Owns
<1>3. Gone(c, d, p, k, R, S)
  <2>1. ASSUME NEW m \in R \ S, m \in ToSet(k.messages)
        PROVE  p.message = m /\ (p.abandoned \/ p.revoked)
    <3>1. o.message = m /\ (o.abandoned \/ o.revoked)
      BY <2>1 DEF Whole, Gone
    <3>2. m # None
      BY DEF Whole, Goals, None
    <3>3. o.held
      BY <3>1, <3>2 DEF Whole, Owns
    <3>4. p.abandoned \/ p.revoked
      BY <1>1, <3>1, <3>3 DEF Turn
    <3>5. QED
      BY <1>1, <3>1, <3>4
  <2>2. QED
    BY <2>1 DEF Whole, Gone
<1>4. QED
  BY <1>2, <1>3 DEF Whole

(* What happens to a task without its copy.                                *)
LEMMA Quiet ==
  ASSUME NEW id, NEW low, NEW high, NEW c, NEW d, NEW x, NEW o, NEW k, NEW e, NEW R, NEW S,
         Whole(id, low, high, c, d, x, o, k, e, R, S),
         NEW l \in Task, l.job = k.job, l.messages = k.messages
  PROVE  Whole(id, low, high, c, d, x, o, l, e, R, S)
<1>1. Tip(c, l) = Tip(c, k)
  BY DEF Tip
<1>2. Works(id, low, high, l)
  BY DEF Whole, Works
<1>3. Gone(c, d, o, l, R, S)
  BY DEF Whole, Gone
<1>4. Saved(id, c, d, l)
  BY DEF Whole, Saved
<1>5. QED
  BY <1>1, <1>2, <1>3, <1>4 DEF Whole

(* A request is about to leave: it has been sent, and the turn is attempted.*)
LEMMA Asked ==
  ASSUME NEW id, NEW low, NEW high, NEW c, NEW d, NEW x, NEW o, NEW k, NEW e, NEW R, NEW S,
         Whole(id, low, high, c, d, x, o, k, e, R, S),
         NEW p, p = [o EXCEPT !.attempted = TRUE],
         NEW T, T = IF o.message = None THEN S ELSE S \cup {o.message}
  PROVE  Whole(id, low, high, c, d, x, p, k, e, R, T)
<1>1. o \in Turn /\ p \in Turn /\ p.message = o.message /\ p.attempted
      /\ p.held = o.held /\ p.abandoned = o.abandoned /\ p.revoked = o.revoked
  BY DEF Whole, Owns, Turn
<1>2. S \subseteq T /\ (o.message # None => o.message \in T)
  OBVIOUS
<1>3. Goals(high, x \cup R \cup T)
  BY DEF Whole, Goals, Owns
<1>4. Owns(high, p, x, T)
  BY <1>1, <1>2 DEF Whole, Owns
<1>5. Gone(c, d, p, k, R, T)
  BY <1>1, <1>2 DEF Whole, Gone
<1>6. Final(x, R, T)
  BY <1>2 DEF Whole, Final
<1>7. QED
  BY <1>3, <1>4, <1>5, <1>6 DEF Whole

(* A task starts on a copy of the conversation.                            *)
LEMMA Spawned ==
  ASSUME NEW id, NEW low, NEW high, NEW c, NEW d, NEW x, NEW o, NEW k, NEW e, NEW R, NEW S,
         Whole(id, low, high, c, d, x, o, k, e, R, S), k.job = "none",
         NEW l \in Task, l.job # "none", l.messages = c.messages
  PROVE  Whole(id, low, high, c, d, x, o, l, e, R, S)
<1>1. Tip(c, l) = Tip(c, k)
  BY DEF Tip
<1>2. Works(id, low, high, l)
  BY DEF Whole, Works, Agree
<1>3. Gone(c, d, o, l, R, S)
  BY DEF Whole, Gone
<1>4. Saved(id, c, d, l)
  BY DEF Saved
<1>5. QED
  BY <1>1, <1>2, <1>3, <1>4 DEF Whole

(* Numbers that have not been given yet.                                   *)
LEMMA Later ==
  ASSUME NEW id, NEW low, NEW high, NEW c, NEW d, NEW x, NEW o, NEW k, NEW e, NEW R, NEW S,
         Whole(id, low, high, c, d, x, o, k, e, R, S),
         NEW g \in 0..MaxMade, g >= high
  PROVE  Whole(id, low, g, c, d, x, o, k, e, R, S)
<1>1. high \in Int /\ g \in Int /\ low \in Int
  BY BoundAssumption DEF Whole, Counts
<1>2. \A m \in Message : m.n \in Int /\ (m.n <= high => m.n <= g)
  BY <1>1, BoundAssumption DEF Message
<1>3. ASSUME NEW s, NEW i, NEW b, Fits(s, i, b, high) PROVE Fits(s, i, b, g)
  BY <1>2, <1>3, Members DEF Fits
<1>4. Counts(id, low, g)
  BY <1>1 DEF Whole, Counts
<1>5. Agree(id, low, g, c) /\ Files(g, d) /\ Works(id, low, g, k)
  BY <1>3 DEF Whole, Agree, Files, Works
<1>6. Speaks(id, low, g, Tip(c, k), e)
  BY <1>2 DEF Whole, Speaks, Brings
<1>7. Goals(g, x \cup R \cup S) /\ Owns(g, o, x, S)
  BY <1>2 DEF Whole, Goals, Owns
<1>8. QED
  BY <1>4, <1>5, <1>6, <1>7 DEF Whole

(* A message that has not been made is nowhere.                            *)
LEMMA Fresh ==
  ASSUME NEW id, NEW low, NEW high, NEW c, NEW d, NEW x, NEW o, NEW k, NEW e, NEW R, NEW S,
         Whole(id, low, high, c, d, x, o, k, e, R, S),
         NEW m \in Message, m.n > high
  PROVE  /\ m \notin x /\ m \notin R /\ m \notin S
         /\ m \notin ToSet(c.messages) /\ m \notin ToSet(c.screen) /\ m \notin ToSet(k.messages)
<1>1. high \in Int /\ m.n \in Int
  BY BoundAssumption DEF Whole, Counts, Message
<1>2. ~(m.n <= high)
  BY <1>1
<1>3. QED
  BY <1>2 DEF Whole, Goals, Agree, Works, Fits

(* A message of the session, made since it was cleared.                    *)
Belongs(m, id, low, high) == m \in Message /\ m.in = id /\ m.n > low /\ m.n <= high

(* s with m at the end; a name for what the provers would expand. *)
Added(s, m) == Append(s, m)

(* A message is appended to a sequence of the conversation.                *)
LEMMA Joined ==
  ASSUME NEW id, NEW low, NEW high, NEW s, Fits(s, id, low, high),
         NEW m, Belongs(m, id, low, high), m \notin ToSet(s),
         NEW t, t = Added(s, m)
  PROVE  Fits(t, id, low, high) /\ ToSet(t) = ToSet(s) \cup {m}
<1>1. t \in Seq(Message) /\ ToSet(t) = ToSet(s) \cup {m} /\ IsInjective(t)
  BY Appended DEF Fits, Belongs, Added
<1>2. QED
  BY <1>1 DEF Fits, Belongs

(* A turn starts with a message of its own, of the user or of a goal.      *)
LEMMA Spoken ==
  ASSUME NEW id, NEW low, NEW high, NEW c, NEW d, NEW x, NEW o, NEW k, NEW e, NEW R, NEW S,
         Whole(id, low, high, c, d, x, o, k, e, R, S), k.job = "none",
         NEW m, Belongs(m, id, low, high),
         m \notin x, m \notin R, m \notin S,
         m \notin ToSet(c.messages), m \notin ToSet(c.screen),
         NEW b, b = Said(c, m),
         NEW p, (m.kind = "goal" /\ p = OwnerOf(m)) \/ p = OwnerOf(None),
         NEW l \in Task, l.job # "none", l.messages = b.messages
  PROVE  Whole(id, low, high, b, d, x, p, l, e, R, S)
<1>1. PICK s : s = Append(c.messages, m)
  OBVIOUS
<1>2. PICK t : t = Append(c.screen, m)
  OBVIOUS
<1>3. b = [messages |-> s, screen |-> t, record |-> s]
  BY <1>1, <1>2 DEF Said
<1>4. Fits(s, id, low, high) /\ ToSet(s) = ToSet(c.messages) \cup {m}
  <2>1. PICK q : q = c.messages
    OBVIOUS
  <2>2. Fits(q, id, low, high) /\ s = Added(q, m) /\ m \notin ToSet(q)
    BY <1>1, <2>1 DEF Whole, Agree, Added
  <2>3. Fits(s, id, low, high) /\ ToSet(s) = ToSet(q) \cup {m}
    BY <2>2, Joined
  <2>4. QED
    BY <2>1, <2>3
<1>5. Fits(t, id, low, high) /\ ToSet(t) = ToSet(c.screen) \cup {m}
  <2>1. PICK q : q = c.screen
    OBVIOUS
  <2>2. Fits(q, id, low, high) /\ t = Added(q, m) /\ m \notin ToSet(q)
    BY <1>2, <2>1 DEF Whole, Agree, Added
  <2>3. Fits(t, id, low, high) /\ ToSet(t) = ToSet(q) \cup {m}
    BY <2>2, Joined
  <2>4. QED
    BY <2>1, <2>3
<1>6. /\ b.messages = s /\ b.screen = t /\ l.messages = s
      /\ Tip(c, k) = c.messages /\ Tip(b, l) = s
  BY <1>3 DEF Tip
<1>7. Agree(id, low, high, b)
  BY <1>3, <1>4, <1>5 DEF Agree
<1>8. Works(id, low, high, l)
  BY <1>4, <1>6 DEF Works
<1>9. \A y : Covered(y, Tip(c, k)) => Covered(y, Tip(b, l))
  BY <1>4, <1>6, MoreCovers
<1>10. Speaks(id, low, high, Tip(b, l), e)
  BY <1>9, StillSpeaks DEF Whole
<1>11. Seen(b, Tip(b, l))
  <2>1. Covered(m, Tip(b, l))
    BY <1>4, <1>6 DEF Covered
  <2>2. QED
    BY <1>5, <1>6, <1>9, <2>1 DEF Whole, Seen
<1>12. Owns(high, p, x, S)
  <2>1. CASE m.kind = "goal" /\ p = OwnerOf(m)
    BY <2>1 DEF OwnerOf, NoOwner, Owns, Turn, Goals, Belongs
  <2>2. CASE p = OwnerOf(None)
    BY <2>2 DEF OwnerOf, NoOwner, Owns, Turn
  <2>3. QED
    BY <2>1, <2>2
<1>13. Gone(b, d, p, l, R, S)
  BY <1>4, <1>5, <1>6 DEF Whole, Gone
<1>14. Saved(id, b, d, l)
  BY DEF Saved
<1>15. QED
  BY <1>7, <1>8, <1>10, <1>11, <1>12, <1>13, <1>14 DEF Whole

(* The copy of a task grows at its end.                                    *)
LEMMA Grown ==
  ASSUME NEW id, NEW low, NEW high, NEW c, NEW d, NEW x, NEW o, NEW k, NEW e, NEW R, NEW S,
         Whole(id, low, high, c, d, x, o, k, e, R, S), k.job # "none",
         NEW m, Belongs(m, id, low, high),
         m \notin R, m \notin ToSet(k.messages),
         NEW l \in Task, l.job # "none", l.messages = Append(k.messages, m)
  PROVE  /\ Whole(id, low, high, c, d, x, o, l, e, R, S)
         /\ Covered(m, Tip(c, l))
<1>1. Fits(l.messages, id, low, high) /\ ToSet(l.messages) = ToSet(k.messages) \cup {m}
  <2>1. PICK q : q = k.messages
    OBVIOUS
  <2>2. PICK t : t = l.messages
    OBVIOUS
  <2>3. Fits(q, id, low, high) /\ t = Added(q, m) /\ m \notin ToSet(q)
    BY <2>1, <2>2 DEF Whole, Works, Added
  <2>4. Fits(t, id, low, high) /\ ToSet(t) = ToSet(q) \cup {m}
    BY <2>3, Joined
  <2>5. QED
    BY <2>1, <2>2, <2>4
<1>2. Tip(c, k) = k.messages /\ Tip(c, l) = l.messages
  BY DEF Tip
<1>3. Works(id, low, high, l)
  BY <1>1 DEF Works
<1>4. \A y : Covered(y, Tip(c, k)) => Covered(y, Tip(c, l))
  BY <1>1, <1>2, MoreCovers
<1>5. Speaks(id, low, high, Tip(c, l), e)
  BY <1>4, StillSpeaks DEF Whole
<1>6. Seen(c, Tip(c, l))
  BY <1>4 DEF Whole, Seen
<1>7. Gone(c, d, o, l, R, S)
  BY <1>1 DEF Whole, Gone
<1>8. Saved(id, c, d, l)
  BY DEF Saved
<1>9. Covered(m, Tip(c, l))
  BY <1>1, <1>2 DEF Covered
<1>10. QED
  BY <1>3, <1>5, <1>6, <1>7, <1>8, <1>9 DEF Whole

(* An event joins those that are not yet drained.                          *)
LEMMA Told ==
  ASSUME NEW id, NEW low, NEW high, NEW c, NEW d, NEW x, NEW o, NEW k, NEW e, NEW R, NEW S,
         Whole(id, low, high, c, d, x, o, k, e, R, S),
         NEW v \in Event, v.message = None \/ Brings(v.message, id, low, high, Tip(c, k)),
         NEW f, f = e \/ f = Append(e, v)
  PROVE  Whole(id, low, high, c, d, x, o, k, f, R, S)
<1>1. CASE f = e
  BY <1>1
<1>2. CASE f = Append(e, v)
  <2>1. e \in Seq(Event)
    BY DEF Whole, Speaks
  <2>2. f \in Seq(Event) /\ Len(f) = Len(e) + 1 /\ f[Len(e) + 1] = v
        /\ \A i \in 1..Len(e) : f[i] = e[i]
    BY <1>2, <2>1
  <2>3. \A i \in 1..Len(f) : i \in 1..Len(e) \/ i = Len(e) + 1
    BY <2>1, <2>2
  <2>4. Speaks(id, low, high, Tip(c, k), f)
    BY <2>2, <2>3 DEF Whole, Speaks
  <2>5. QED
    BY <2>4 DEF Whole
<1>3. QED
  BY <1>1, <1>2

(* m stands for all of s before i. *)
Summary(m, s, i) == <<m>> \o SubSeq(s, i, Len(s))

(* A task replaces all but the last messages by a summary, which stands    *)
(* for everything that was in its copy.                                    *)
LEMMA Summarized ==
  ASSUME NEW id, NEW low, NEW high, NEW c, NEW d, NEW x, NEW o, NEW k, NEW e, NEW R, NEW S,
         Whole(id, low, high, c, d, x, o, k, e, R, S), k.job # "none",
         NEW m, Belongs(m, id, low, high), m.kind = "summary",
         m \notin R, m \notin ToSet(k.messages),
         NEW i \in Nat, 1 <= i,
         NEW l \in Task, l.job # "none", l.messages = Summary(m, k.messages, i)
  PROVE  Whole(id, low, high, c, d, x, o, l, e, R, S)
<1>1. PICK q : q = k.messages
  OBVIOUS
<1>2. PICK r : r = SubSeq(q, i, Len(q))
  OBVIOUS
<1>3. PICK t : t = <<m>> \o r
  OBVIOUS
<1>4. Fits(q, id, low, high)
  BY <1>1 DEF Whole, Works
<1>5. r \in Seq(Message) /\ ToSet(r) \subseteq ToSet(q) /\ IsInjective(r)
  <2>1. Len(q) \in Nat /\ q \in Seq(Message) /\ IsInjective(q)
    BY <1>1, <1>4 DEF Fits
  <2>2. PICK j \in Nat : j = Len(q)
    BY <2>1
  <2>3. r = SubSeq(q, i, j) /\ j <= Len(q)
    BY <1>2, <2>1, <2>2
  <2>4. QED
    BY <2>1, <2>3, Part
<1>6. t \in Seq(Message) /\ ToSet(t) = ToSet(r) \cup {m} /\ IsInjective(t)
  <2>1. m \in Message /\ m \notin ToSet(r)
    BY <1>1, <1>5 DEF Belongs
  <2>2. QED
    BY <1>3, <1>5, <2>1, Before
<1>7. l.messages = t /\ Tip(c, l) = t
  BY <1>1, <1>2, <1>3 DEF Tip, Summary
<1>8. Works(id, low, high, l)
  BY <1>4, <1>5, <1>6, <1>7 DEF Works, Fits, Belongs
<1>9. \A y : Covered(y, Tip(c, l))
  BY <1>6, <1>7 DEF Covered
<1>10. Speaks(id, low, high, Tip(c, l), e)
  BY <1>9, StillSpeaks DEF Whole
<1>11. Seen(c, Tip(c, l))
  BY <1>9 DEF Seen
<1>12. Gone(c, d, o, l, R, S)
  BY <1>1, <1>5, <1>6, <1>7 DEF Whole, Gone
<1>13. Saved(id, c, d, l)
  BY DEF Saved
<1>14. QED
  BY <1>8, <1>10, <1>11, <1>12, <1>13 DEF Whole

(* Something covered by a conversation is covered by what covers that.     *)
LEMMA CoveredBy ==
  ASSUME NEW s, NEW t, \A m \in ToSet(s) : Covered(m, t), NEW m, Covered(m, s)
  PROVE  Covered(m, t)
BY DEF Covered

(* The screen takes the place of the conversation, as after a rewind, and  *)
(* the task, if any, can no longer tell anything.                          *)
LEMMA Rewound ==
  ASSUME NEW id, NEW low, NEW high, NEW c, NEW d, NEW x, NEW o, NEW k, NEW e, NEW R, NEW S,
         Whole(id, low, high, c, d, x, o, k, e, R, S),
         NEW s \in Seq(Message), IsInjective(s), ToSet(s) \subseteq ToSet(c.screen),
         NEW b, b = Alike(s)
  PROVE  Whole(id, low, high, b, d, x, o, k, << >>, R, S)
<1>1. b = [messages |-> s, screen |-> s, record |-> s]
  BY DEF Alike
<1>2. Fits(s, id, low, high)
  BY DEF Whole, Agree, Fits
<1>3. Agree(id, low, high, b)
  BY <1>1, <1>2 DEF Agree
<1>4. Speaks(id, low, high, Tip(b, k), << >>)
  BY DEF Speaks
<1>5. Gone(b, d, o, k, R, S)
  BY <1>1 DEF Whole, Gone
<1>6. Seen(b, Tip(b, k))
  <2>1. CASE k.job = "none"
    BY <1>1, <2>1 DEF Seen, Tip, Covered
  <2>2. CASE k.job # "none"
    BY <1>1, <2>2 DEF Whole, Seen, Tip
  <2>3. QED
    BY <2>1, <2>2
<1>7. Saved(id, b, d, k)
  <2>1. ASSUME k.job = "none", NEW m \in ToSet(s) PROVE Covered(m, d[id])
    <3>1. Covered(m, c.messages)
      BY <2>1 DEF Whole, Seen, Tip
    <3>2. QED
      BY <2>1, <3>1, CoveredBy DEF Whole, Saved
  <2>2. QED
    BY <1>1, <2>1 DEF Saved
<1>8. QED
  BY <1>3, <1>4, <1>5, <1>6, <1>7 DEF Whole

(* The screen alone is made shorter, or shows the conversation again.      *)
LEMMA ScreenKept ==
  ASSUME NEW id, NEW low, NEW high, NEW c, NEW d, NEW x, NEW o, NEW k, NEW e, NEW R, NEW S,
         Whole(id, low, high, c, d, x, o, k, e, R, S),
         NEW s \in Seq(Message), IsInjective(s),
         \/ ToSet(s) \subseteq ToSet(c.screen)
         \/ k.job = "none" /\ s = c.messages,
         NEW b, b = [c EXCEPT !.screen = s]
  PROVE  Whole(id, low, high, b, d, x, o, k, e, R, S)
<1>1. b = [messages |-> c.messages, screen |-> s, record |-> c.messages]
  BY DEF Whole, Agree
<1>2. Agree(id, low, high, b)
  BY <1>1 DEF Whole, Agree, Fits
<1>3. Tip(b, k) = Tip(c, k)
  BY <1>1 DEF Tip
<1>4. Gone(b, d, o, k, R, S)
  BY <1>1 DEF Whole, Gone
<1>5. Seen(b, Tip(b, k))
  <2>1. CASE ToSet(s) \subseteq ToSet(c.screen)
    BY <1>1, <1>3, <2>1 DEF Whole, Seen
  <2>2. CASE k.job = "none" /\ s = c.messages
    BY <1>1, <2>2 DEF Seen, Tip, Covered
  <2>3. QED
    BY <2>1, <2>2
<1>6. Saved(id, b, d, k)
  BY <1>1 DEF Whole, Saved
<1>7. QED
  BY <1>2, <1>3, <1>4, <1>5, <1>6 DEF Whole

(* The screen alone shows one more message, of what the conversation will  *)
(* have or of what only the screen has.                                    *)
LEMMA ShownToo ==
  ASSUME NEW id, NEW low, NEW high, NEW c, NEW d, NEW x, NEW o, NEW k, NEW e, NEW R, NEW S,
         Whole(id, low, high, c, d, x, o, k, e, R, S),
         NEW m, Belongs(m, id, low, high), m \notin ToSet(c.screen), m \notin R,
         Covered(m, Tip(c, k)),
         NEW b, b = [c EXCEPT !.screen = Append(c.screen, m)]
  PROVE  Whole(id, low, high, b, d, x, o, k, e, R, S)
<1>1. PICK q : q = c.screen
  OBVIOUS
<1>2. PICK s : s = Added(q, m)
  OBVIOUS
<1>3. b = [messages |-> c.messages, screen |-> s, record |-> c.messages]
  <2>1. c = [messages |-> c.messages, screen |-> c.screen, record |-> c.messages]
    BY DEF Whole, Agree
  <2>2. b = [c EXCEPT !.screen = s]
    BY <1>1, <1>2 DEF Added
  <2>3. QED
    BY ONLY <2>1, <2>2
<1>4. Fits(s, id, low, high) /\ ToSet(s) = ToSet(q) \cup {m}
  <2>1. Fits(q, id, low, high) /\ m \notin ToSet(q)
    BY <1>1 DEF Whole, Agree
  <2>2. QED
    BY <1>2, <2>1, Joined
<1>5. Agree(id, low, high, b)
  <2>1. Fits(c.messages, id, low, high)
    BY DEF Whole, Agree
  <2>2. b.messages = c.messages /\ b.screen = s
    BY ONLY <1>3
  <2>3. QED
    BY <1>3, <1>4, <2>1, <2>2 DEF Agree
<1>6. Tip(b, k) = Tip(c, k)
  BY <1>3 DEF Tip
<1>7. Gone(b, d, o, k, R, S)
  <2>1. b.messages = c.messages /\ ToSet(b.screen) = ToSet(c.screen) \cup {m}
    BY ONLY <1>1, <1>3, <1>4
  <2>2. QED
    BY <2>1 DEF Whole, Gone
<1>8. Seen(b, Tip(b, k))
  <2>1. ToSet(b.screen) = ToSet(c.screen) \cup {m}
    BY ONLY <1>1, <1>3, <1>4
  <2>2. QED
    BY <1>6, <2>1 DEF Whole, Seen
<1>9. Saved(id, b, d, k)
  BY <1>3 DEF Whole, Saved
<1>10. QED
  BY <1>5, <1>6, <1>7, <1>8, <1>9 DEF Whole

(* The conversation is replaced while nothing runs, by nothing or by one   *)
(* that was saved.                                                         *)
LEMMA Replaced ==
  ASSUME NEW id, NEW low, NEW high, NEW c, NEW d, NEW x, NEW o, NEW k, NEW e, NEW R, NEW S,
         Whole(id, low, high, c, d, x, o, k, e, R, S),
         NEW l \in Task, l.job = "none", l.messages = << >>,
         NEW p, p = o \/ p = NoOwner,
         NEW i \in Session, NEW w \in 0..MaxMade, w <= high,
         NEW s, (s = << >> /\ i = id) \/ (s = d[i] /\ w = 0),
         NEW b, b = Alike(s)
  PROVE  Whole(i, w, high, b, d, x, p, l, << >>, R, S)
<1>1. b = [messages |-> s, screen |-> s, record |-> s]
  BY DEF Alike
<1>2. Fits(<< >>, i, w, high)
  BY EmptySequence DEF Fits
<1>3. Fits(s, i, w, high)
  BY <1>2 DEF Whole, Files
<1>4. Counts(i, w, high)
  BY DEF Whole, Counts
<1>5. Agree(i, w, high, b)
  BY <1>1, <1>3 DEF Agree
<1>6. Works(i, w, high, l)
  BY <1>2 DEF Works
<1>7. Speaks(i, w, high, Tip(b, l), << >>)
  BY DEF Speaks
<1>8. Owns(high, p, x, S)
  <2>1. Owns(high, o, x, S)
    BY DEF Whole
  <2>2. Owns(high, NoOwner, x, S)
    BY DEF Owns, NoOwner, Turn
  <2>3. QED
    BY <2>1, <2>2
<1>9. Gone(b, d, p, l, R, S)
  BY <1>1, EmptySequence DEF Whole, Gone
<1>10. Seen(b, Tip(b, l))
  BY <1>1 DEF Seen, Tip, Covered
<1>11. Saved(i, b, d, l)
  BY <1>1, EmptySequence DEF Saved, Covered
<1>12. QED
  BY <1>4, <1>5, <1>6, <1>7, <1>8, <1>9, <1>10, <1>11 DEF Whole

(* /session rename writes the record without the index.                    *)
LEMMA Renamed ==
  ASSUME NEW id, NEW low, NEW high, NEW c, NEW d, NEW x, NEW o, NEW k, NEW e, NEW R, NEW S,
         Whole(id, low, high, c, d, x, o, k, e, R, S),
         NEW f, f = Saving(d, id, c.record)
  PROVE  Whole(id, low, high, c, f, x, o, k, e, R, S)
<1>1. c.record = c.messages /\ id \in Session
  BY DEF Whole, Agree, Counts
<1>2. Final(x, R, S) /\ Goals(high, x \cup R \cup S) /\ Owns(high, o, x, S)
  BY DEF Whole
<1>3. f[id] = c.messages /\ \A s \in Session : s # id => f[s] = d[s]
  BY <1>1 DEF Whole, Files, Saving
<1>4. Files(high, f)
  <2>1. f \in [Session -> Seq(Message)]
    BY <1>1 DEF Whole, Files, Agree, Fits, Saving
  <2>2. Fits(c.messages, id, 0, high)
    <3>1. ToSet(c.messages) \subseteq Message
      BY Members DEF Whole, Agree, Fits
    <3>2. \A m \in ToSet(c.messages) : m.n > 0
      BY <3>1 DEF Message
    <3>3. QED
      BY <3>2 DEF Whole, Agree, Fits
  <2>3. QED
    BY <1>3, <2>1, <2>2 DEF Whole, Files
<1>5. Gone(c, f, o, k, R, S)
  BY <1>3 DEF Whole, Gone
<1>6. Saved(id, c, f, k)
  BY <1>3 DEF Saved, Covered
<1>7. QED
  BY <1>4, <1>5, <1>6 DEF Whole

(* The first event is drained.                                             *)
LEMMA Heard ==
  ASSUME NEW id, NEW low, NEW high, NEW c, NEW d, NEW x, NEW o, NEW k, NEW e, NEW R, NEW S,
         Whole(id, low, high, c, d, x, o, k, e, R, S), e # << >>
  PROVE  /\ Whole(id, low, high, c, d, x, o, k, Tail(e), R, S)
         /\ Head(e) \in Event
         /\ Head(e).message = None \/ Brings(Head(e).message, id, low, high, Tip(c, k))
<1>1. e \in Seq(Event) /\ \A i \in 1..Len(e) : e[i].message = None
                            \/ Brings(e[i].message, id, low, high, Tip(c, k))
  BY DEF Whole, Speaks
<1>2. /\ Tail(e) \in Seq(Event) /\ Len(Tail(e)) = Len(e) - 1
      /\ \A i \in 1..(Len(e) - 1) : Tail(e)[i] = e[i + 1]
      /\ Head(e) = e[1] /\ Len(e) > 0 /\ Len(e) \in Nat
  BY <1>1
<1>3. \A i \in 1..Len(Tail(e)) : i + 1 \in 1..Len(e)
  BY <1>2
<1>4. Speaks(id, low, high, Tip(c, k), Tail(e))
  BY <1>1, <1>2, <1>3 DEF Speaks
<1>5. 1 \in 1..Len(e) /\ Head(e) \in Event
  BY <1>1, <1>2
<1>6. QED
  BY <1>1, <1>2, <1>4, <1>5 DEF Whole

-----------------------------------------------------------------------------
(* The steps.                                                              *)

(* A rollback that is forced: nothing runs, or the turn was given up.      *)
LEMMA Forced ==
  ASSUME IInv, Idle \/ owner.abandoned,
         NEW c, c = RolledBack(copies, TRUE), ForcedRollback(c)
  PROVE  Whole(session, since, made, c, disk', index', owner, task, events, rolled', sent)
<1>1. Now
  BY DEF IInv, Now
<1>2. CASE c = copies
  <2>1. disk' = disk /\ index' = index /\ rolled' = rolled
    BY <1>2 DEF ForcedRollback, Note, store
  <2>2. QED
    BY <1>1, <1>2, <2>1 DEF Now
<1>3. CASE c # copies
  <2>1. owner.message # None /\ ~owner.attempted /\ c = Without(copies, owner.message)
    BY <1>3 DEF RolledBack, MayRollBack
  <2>2. Persist(c.record) /\ rolled' = rolled \cup {owner.message}
    BY <1>3 DEF ForcedRollback, Note
  <2>3. PICK f : f = disk'
    OBVIOUS
  <2>4. PICK y : y = index'
    OBVIOUS
  <2>5. PICK Q : Q = rolled'
    OBVIOUS
  <2>6. f = Saving(disk, session, c.record)
    BY <2>2, <2>3 DEF Persist, Saving
  <2>7. y = Indexing(index, owner, c.record)
    BY <2>2, <2>4 DEF Persist, Indexed, Indexing
  <2>8. Q = rolled \cup {owner.message}
    BY <2>2, <2>5
  <2>9. task.job = "none" \/ owner.abandoned
    BY DEF Idle
  <2>10. Whole(session, since, made, c, f, y, owner, task, events, Q, sent)
    BY ONLY <1>1, <1>3, <2>1, <2>6, <2>7, <2>8, <2>9, TakenBack DEF Now
  <2>11. QED
    BY <2>3, <2>4, <2>5, <2>10
<1>4. QED
  BY <1>2, <1>3

(* What Make and New give.                                                 *)
LEMMA Made ==
  ASSUME IInv, Make, NEW kind \in Kind, NEW m, m = New(kind)
  PROVE  /\ made \in Nat /\ made' = made + 1 /\ made' \in 0..MaxMade /\ made' >= made
         /\ m \in Message /\ m.kind = kind /\ m.n > made /\ Belongs(m, session, since, made')
<1>1. made \in 0..MaxMade /\ since \in 0..MaxMade /\ since <= made /\ session \in Session
  BY DEF IInv, Now, Whole, Counts
<1>2. scenario.made \in 0..MaxMade /\ MaxMade \in Nat
  BY ScenarioAssumption, BoundAssumption DEF IInv, Frame
<1>3. made < scenario.made /\ made' = made + 1
  BY DEF Make
<1>4. made + 1 \in 1..MaxMade
  BY <1>1, <1>2, <1>3
<1>5. m = [kind |-> kind, in |-> session, n |-> made + 1]
  BY DEF New
<1>6. m \in Message /\ m.kind = kind /\ m.in = session /\ m.n = made + 1
  BY <1>1, <1>4, <1>5 DEF Message
<1>7. m.n > made /\ m.n > since /\ m.n <= made' /\ made' >= made
  BY <1>1, <1>3, <1>6
<1>8. QED
  BY <1>1, <1>2, <1>3, <1>4, <1>6, <1>7 DEF Belongs

(* A message that is made, in a state like this one.                       *)
LEMMA MadeFresh ==
  ASSUME IInv, Make, NEW kind \in Kind, NEW m, m = New(kind),
         NEW c, NEW d, NEW x, NEW o, NEW k, NEW e, NEW R, NEW S,
         Whole(session, since, made, c, d, x, o, k, e, R, S)
  PROVE  /\ Whole(session, since, made', c, d, x, o, k, e, R, S)
         /\ m \notin x /\ m \notin R /\ m \notin S
         /\ m \notin ToSet(c.messages) /\ m \notin ToSet(c.screen) /\ m \notin ToSet(k.messages)
<1>1. made' \in 0..MaxMade /\ made' >= made /\ m \in Message /\ m.n > made
  BY Made
<1>2. PICK g : g = made'
  OBVIOUS
<1>3. g \in 0..MaxMade /\ g >= made
  BY <1>1, <1>2
<1>4. Whole(session, since, g, c, d, x, o, k, e, R, S)
  BY <1>3, Later
<1>5. /\ m \notin x /\ m \notin R /\ m \notin S
      /\ m \notin ToSet(c.messages) /\ m \notin ToSet(c.screen) /\ m \notin ToSet(k.messages)
  BY <1>1, Fresh
<1>6. QED
  BY <1>2, <1>4, <1>5

(* The task that Spawn starts.                                             *)
LEMMA SpawnedTask ==
  ASSUME IInv, NEW job \in {"turn", "compact"}, NEW s \in Seq(Message), Spawn(job, s)
  PROVE  /\ task' \in Task /\ task'.job # "none" /\ task'.messages = s
         /\ streaming' = TRUE
<1>1. made \in 0..MaxMade
  BY DEF IInv, Now, Whole, Counts
<1>2. QED
  BY <1>1 DEF Spawn, Task

(* A turn starts, from wherever nothing runs.                              *)
LEMMA StartsKeeps ==
  ASSUME IInv, Idle, NEW kind \in {"user", "goal"}, Starts(kind)
  PROVE  Now' /\ streaming' \in BOOLEAN /\ overlay' = overlay
         /\ recovery' \in {"closed", "open", "pending"}
<1>1. PICK c : c = RolledBack(copies, TRUE)
  OBVIOUS
<1>2. PICK m : m = New(kind)
  OBVIOUS
<1>3. /\ Make /\ ForcedRollback(c) /\ copies' = Said(c, m)
      /\ owner' = OwnerOf(IF kind = "goal" THEN m ELSE None)
      /\ Spawn("turn", Append(c.messages, m)) /\ recovery' = "closed"
      /\ session' = session /\ events' = events /\ overlay' = overlay
      /\ since' = since /\ sent' = sent
  BY <1>1, <1>2 DEF Starts
<1>4. Whole(session, since, made, c, disk', index', owner, task, events, rolled', sent)
  BY <1>1, <1>3, Forced
<1>5. kind \in Kind
  BY DEF Kind
<1>6. /\ Whole(session, since, made', c, disk', index', owner, task, events, rolled', sent)
      /\ m \notin index' /\ m \notin rolled' /\ m \notin sent
      /\ m \notin ToSet(c.messages) /\ m \notin ToSet(c.screen)
  <2>1. PICK f : f = disk'
    OBVIOUS
  <2>2. PICK y : y = index'
    OBVIOUS
  <2>3. PICK Q : Q = rolled'
    OBVIOUS
  <2>4. Whole(session, since, made, c, f, y, owner, task, events, Q, sent)
    BY <1>4, <2>1, <2>2, <2>3
  <2>5. /\ Whole(session, since, made', c, f, y, owner, task, events, Q, sent)
        /\ m \notin y /\ m \notin Q /\ m \notin sent
        /\ m \notin ToSet(c.messages) /\ m \notin ToSet(c.screen)
    BY <1>2, <1>3, <1>5, <2>4, MadeFresh
  <2>6. QED
    BY <2>1, <2>2, <2>3, <2>5
<1>7. m \in Message /\ m.kind = kind /\ Belongs(m, session, since, made')
  BY <1>2, <1>3, <1>5, Made
<1>8. Append(c.messages, m) \in Seq(Message)
  BY <1>4, <1>7 DEF Whole, Agree, Fits
<1>9. /\ task' \in Task /\ task'.job # "none" /\ task'.messages = Append(c.messages, m)
      /\ streaming' = TRUE
  BY <1>3, <1>8, SpawnedTask
<1>10. copies'.messages = Append(c.messages, m)
  BY <1>3 DEF Said
<1>11. (m.kind = "goal" /\ owner' = OwnerOf(m)) \/ owner' = OwnerOf(None)
  BY <1>3, <1>7
<1>12. Now'
  <2>1. PICK b : b = copies'
    OBVIOUS
  <2>2. PICK p : p = owner'
    OBVIOUS
  <2>3. PICK l : l = task'
    OBVIOUS
  <2>4. PICK f : f = disk'
    OBVIOUS
  <2>5. PICK y : y = index'
    OBVIOUS
  <2>6. PICK Q : Q = rolled'
    OBVIOUS
  <2>7. PICK h : h = made'
    OBVIOUS
  <2>8. /\ Whole(session, since, h, c, f, y, owner, task, events, Q, sent)
        /\ m \notin y /\ m \notin Q /\ m \notin sent
        /\ m \notin ToSet(c.messages) /\ m \notin ToSet(c.screen)
    BY ONLY <1>6, <2>4, <2>5, <2>6, <2>7
  <2>9. /\ b = Said(c, m) /\ ((m.kind = "goal" /\ p = OwnerOf(m)) \/ p = OwnerOf(None))
        /\ l \in Task /\ l.job # "none" /\ l.messages = b.messages
        /\ Belongs(m, session, since, h) /\ task.job = "none"
    BY <1>3, <1>7, <1>9, <1>10, <1>11, <2>1, <2>2, <2>3, <2>7 DEF Idle
  <2>10. Whole(session, since, h, b, f, y, p, l, events, Q, sent)
    BY ONLY <2>8, <2>9, Spoken
  <2>11. QED
    BY <1>3, <2>1, <2>2, <2>3, <2>4, <2>5, <2>6, <2>7, <2>10 DEF Now
<1>13. QED
  BY <1>3, <1>9, <1>12

(* A step that touches nothing the invariant relates.                      *)
LEMMA QuietKeeps ==
  ASSUME IInv, session' = session, copies' = copies, disk' = disk, index' = index,
         owner' = owner, task' = task, events' = events, made' = made, since' = since,
         rolled' = rolled, sent' = sent
  PROVE  Now'
BY DEF IInv, Now

(* A key ends: the screen stays, or the conversation becomes the screen.   *)
LEMMA KeyEndsKeeps ==
  ASSUME IInv, NEW s \in Seq(Message), IsInjective(s), ToSet(s) \subseteq ToSet(copies.screen),
         NEW str \in BOOLEAN, KeyEnds(s, str),
         owner' = owner \/ owner' = [owner EXCEPT !.abandoned = owner.held]
  PROVE  Now' /\ phase' = "drain" /\ streaming' \in BOOLEAN
<1>1. Now
  BY DEF IInv, Now
<1>2. /\ phase' = "drain" /\ streaming' = str
      /\ session' = session /\ disk' = disk /\ index' = index
      /\ made' = made /\ since' = since /\ rolled' = rolled /\ sent' = sent
  BY DEF KeyEnds, store, history
<1>3. PICK b : b = copies'
  OBVIOUS
<1>4. PICK p : p = owner'
  OBVIOUS
<1>5. PICK l : l = task'
  OBVIOUS
<1>6. PICK v : v = events'
  OBVIOUS
<1>7. Whole(session, since, made, b, disk, index, owner, l, v, rolled, sent)
  <2>1. CASE b = Alike(s) /\ l = [task EXCEPT !.current = FALSE] /\ v = << >>
    <3>1. Whole(session, since, made, b, disk, index, owner, task, << >>, rolled, sent)
      BY <1>1, <2>1, Rewound DEF Now
    <3>2. l \in Task /\ l.job = task.job /\ l.messages = task.messages
      BY <1>1, <2>1 DEF Now, Whole, Works, Task
    <3>3. QED
      BY <2>1, <3>1, <3>2, Quiet
  <2>2. CASE b = [copies EXCEPT !.screen = s] /\ l = task /\ v = events
    BY <1>1, <2>2, ScreenKept DEF Now
  <2>3. QED
    BY <1>3, <1>5, <1>6, <2>1, <2>2 DEF KeyEnds, Advance
<1>8. Whole(session, since, made, b, disk, index, p, l, v, rolled, sent)
  <2>1. CASE p = owner
    BY <1>7, <2>1
  <2>2. CASE p = [owner EXCEPT !.abandoned = owner.held]
    BY <1>7, <2>2, Flagged
  <2>3. QED
    BY <1>4, <2>1, <2>2
<1>9. QED
  BY <1>2, <1>3, <1>4, <1>5, <1>6, <1>8 DEF Now

(* What KeyEndsKeeps and others ask of the sequences that the loop has.    *)
LEMMA ScreenFits ==
  ASSUME IInv
  PROVE  /\ copies.screen \in Seq(Message) /\ IsInjective(copies.screen)
         /\ copies.messages \in Seq(Message) /\ IsInjective(copies.messages)
         /\ Len(copies.screen) \in Nat
<1>1. copies.screen \in Seq(Message) /\ IsInjective(copies.screen)
      /\ copies.messages \in Seq(Message) /\ IsInjective(copies.messages)
  BY DEF IInv, Now, Whole, Agree, Fits
<1>2. QED
  BY <1>1

(* Keys, with or without a meaning.                                        *)
LEMMA KeysKeep ==
  ASSUME IInv, scenario' = scenario,
         NoKey \/ OrdinaryKey \/ Escape \/ RecoveryKey \/ \E i \in 0..MaxMade : RewindTo(i)
  PROVE  IInv'
<1>1. CASE NoKey
  <2>1. Now'
    BY <1>1, QuietKeeps DEF NoKey, store, history
  <2>2. QED
    BY <1>1, <2>1 DEF NoKey, IInv, Frame, Now
<1>2. CASE OrdinaryKey
  <2>1. streaming \in BOOLEAN /\ KeyEnds(copies.screen, streaming) /\ owner' = owner
    BY <1>2 DEF OrdinaryKey, IInv, Frame
  <2>2. Now' /\ phase' = "drain" /\ streaming' \in BOOLEAN
    BY <2>1, ScreenFits, KeyEndsKeeps
  <2>3. QED
    BY <1>2, <2>2 DEF OrdinaryKey, IInv, Frame, Now
<1>3. CASE Escape
  <2>1. PICK str \in BOOLEAN : str = FALSE
    OBVIOUS
  <2>2. KeyEnds(copies.screen, str) /\ owner' = owner
    BY <1>3, <2>1 DEF Escape
  <2>3. Now' /\ phase' = "drain" /\ streaming' \in BOOLEAN
    BY <2>2, ScreenFits, KeyEndsKeeps
  <2>4. QED
    BY <1>3, <2>3 DEF Escape, IInv, Frame, Now
<1>4. CASE RecoveryKey
  <2>1. streaming \in BOOLEAN /\ KeyEnds(copies.screen, streaming)
        /\ (owner' = owner \/ owner' = [owner EXCEPT !.abandoned = owner.held])
    BY <1>4 DEF RecoveryKey, IInv, Frame
  <2>2. Now' /\ phase' = "drain" /\ streaming' \in BOOLEAN
    BY <2>1, ScreenFits, KeyEndsKeeps
  <2>3. QED
    BY <1>4, <2>2 DEF RecoveryKey, IInv, Frame, Now
<1>5. CASE \E i \in 0..MaxMade : RewindTo(i)
  <2>1. PICK i \in 0..MaxMade : RewindTo(i)
    BY <1>5
  <2>2. i \in Nat /\ i < Len(copies.screen)
    BY <2>1, BoundAssumption DEF RewindTo
  <2>3. PICK s : s = SubSeq(copies.screen, 1, i)
    OBVIOUS
  <2>4. s \in Seq(Message) /\ ToSet(s) \subseteq ToSet(copies.screen) /\ IsInjective(s)
    <3>1. PICK q : q = copies.screen
      OBVIOUS
    <3>2. q \in Seq(Message) /\ IsInjective(q) /\ 1 \in Nat /\ 1 <= 1 /\ i <= Len(q)
      BY <2>2, <3>1, ScreenFits
    <3>3. s = SubSeq(q, 1, i)
      BY <2>3, <3>1
    <3>4. s \in Seq(Message) /\ ToSet(s) \subseteq ToSet(q) /\ (IsInjective(q) => IsInjective(s))
      BY <2>2, <3>2, <3>3, Part
    <3>5. QED
      BY <3>1, <3>2, <3>4
  <2>5. streaming \in BOOLEAN /\ KeyEnds(s, streaming) /\ owner' = owner
    BY <2>1, <2>3 DEF RewindTo, IInv, Frame
  <2>6. Now' /\ phase' = "drain" /\ streaming' \in BOOLEAN
    BY <2>4, <2>5, KeyEndsKeeps
  <2>7. QED
    BY <2>1, <2>6 DEF RewindTo, IInv, Frame, Now
<1>6. QED
  BY <1>1, <1>2, <1>3, <1>4, <1>5

(* The turn is given up. *)
LEMMA AbandonKeeps ==
  ASSUME IInv, scenario' = scenario, Abandon
  PROVE  IInv'
<1>1. Now
  BY DEF IInv, Now
<1>2. PICK p : p = owner'
  OBVIOUS
<1>3. PICK l : l = task'
  OBVIOUS
<1>4. p = [owner EXCEPT !.abandoned = owner.held]
  BY <1>2 DEF Abandon
<1>5. l \in Task /\ l.job = task.job /\ l.messages = task.messages
  <2>1. l = [task EXCEPT !.cancelled = ~Idle]
    BY <1>3 DEF Abandon
  <2>2. task \in Task
    BY <1>1 DEF Now, Whole, Works
  <2>3. QED
    BY <2>1, <2>2 DEF Task, Idle
<1>6. Whole(session, since, made, copies, disk, index, p, l, events, rolled, sent)
  <2>1. Whole(session, since, made, copies, disk, index, p, task, events, rolled, sent)
    BY <1>1, <1>4, Flagged DEF Now
  <2>2. QED
    BY <1>5, <2>1, Quiet
<1>7. Now'
  BY <1>2, <1>3, <1>6 DEF Abandon, store, history, Now
<1>8. QED
  BY <1>7 DEF Abandon, IInv, Frame, Now

(* Enter starts a turn.                                                    *)
LEMMA SubmitKeeps ==
  ASSUME IInv, scenario' = scenario, Submit
  PROVE  IInv'
<1>1. Idle /\ phase' = phase
  BY DEF Submit, Entered
<1>2. PICK kind \in {"user", "goal"} : Starts(kind)
  BY DEF Submit
<1>3. Now' /\ streaming' \in BOOLEAN /\ overlay' = overlay
      /\ recovery' \in {"closed", "open", "pending"}
  BY <1>1, <1>2, StartsKeeps
<1>4. QED
  BY <1>1, <1>3 DEF IInv, Frame, Now

(* Enter, but the goal may not work now: the last turn is taken back only. *)
LEMMA SubmitRefusedKeeps ==
  ASSUME IInv, scenario' = scenario, SubmitRefused
  PROVE  IInv'
<1>1. Idle
  BY DEF SubmitRefused, Entered
<1>2. PICK c : c = copies'
  OBVIOUS
<1>3. c = RolledBack(copies, TRUE) /\ ForcedRollback(c)
  BY <1>2 DEF SubmitRefused
<1>4. Whole(session, since, made, c, disk', index', owner, task, events, rolled', sent)
  BY <1>1, <1>3, Forced
<1>5. Whole(session, since, made, c, disk', index', NoOwner, task, events, rolled', sent)
  BY <1>1, <1>4, Released DEF Idle
<1>6. Now'
  BY <1>2, <1>5 DEF SubmitRefused, Now
<1>7. QED
  BY <1>6 DEF SubmitRefused, IInv, Frame, Now

(* The task while nothing runs.                                            *)
LEMMA IdleTask ==
  ASSUME IInv, Idle
  PROVE  task \in Task /\ task.job = "none" /\ task.messages = << >>
BY DEF IInv, Now, Whole, Works, Idle

(* /clear: nothing is left to be numbered up to now.                       *)
LEMMA ClearKeeps ==
  ASSUME IInv, scenario' = scenario, Clear
  PROVE  IInv'
<1>1. Now /\ Idle
  BY DEF IInv, Now, Clear, Command, Entered
<1>2. /\ copies' = Alike(<< >>) /\ task' = [task EXCEPT !.current = FALSE] /\ events' = << >>
      /\ since' = made
      /\ session' = session /\ disk' = disk /\ index' = index /\ overlay' = overlay
      /\ made' = made /\ owner' = owner /\ rolled' = rolled /\ sent' = sent
      /\ phase' = phase /\ streaming' = streaming /\ recovery' = recovery
  BY DEF Clear, Command, Advance, store
<1>3. PICK l : l = [task EXCEPT !.current = FALSE]
  OBVIOUS
<1>4. l \in Task /\ l.job = "none" /\ l.messages = << >>
  BY <1>1, <1>3, IdleTask DEF Task
<1>5. PICK b : b = Alike(<< >>)
  OBVIOUS
<1>6. session \in Session /\ made \in 0..MaxMade /\ made <= made
  BY <1>1, BoundAssumption DEF Now, Whole, Counts
<1>7. Whole(session, made, made, b, disk, index, owner, l, << >>, rolled, sent)
  BY <1>1, <1>4, <1>5, <1>6, Replaced DEF Now
<1>8. Now'
  BY <1>2, <1>3, <1>5, <1>7 DEF Now
<1>9. QED
  BY <1>2, <1>8 DEF IInv, Frame, Now

(* /resume: the conversation is what another file has.                     *)
LEMMA ResumeKeeps ==
  ASSUME IInv, scenario' = scenario, NEW s \in Session, Resume(s)
  PROVE  IInv'
<1>1. Now /\ Idle
  BY DEF IInv, Now, Resume, Command, Entered
<1>2. /\ copies' = Alike(disk[s]) /\ task' = [task EXCEPT !.current = FALSE] /\ events' = << >>
      /\ since' = 0
      /\ session' = s /\ disk' = disk /\ index' = index /\ overlay' = overlay
      /\ made' = made /\ owner' = owner /\ rolled' = rolled /\ sent' = sent
      /\ phase' = phase /\ streaming' = streaming /\ recovery' = recovery
  BY DEF Resume, Command, Advance, store
<1>3. PICK l : l = [task EXCEPT !.current = FALSE]
  OBVIOUS
<1>4. l \in Task /\ l.job = "none" /\ l.messages = << >>
  BY <1>1, <1>3, IdleTask DEF Task
<1>5. PICK q : q = disk[s]
  OBVIOUS
<1>6. PICK b : b = Alike(q)
  OBVIOUS
<1>7. PICK w : w = 0
  OBVIOUS
<1>8. w \in 0..MaxMade /\ w <= made
  BY <1>1, <1>7, BoundAssumption DEF Now, Whole, Counts
<1>9. Whole(s, w, made, b, disk, index, owner, l, << >>, rolled, sent)
  BY <1>1, <1>4, <1>5, <1>6, <1>7, <1>8, Replaced DEF Now
<1>10. Now'
  BY <1>2, <1>3, <1>5, <1>6, <1>7, <1>9 DEF Now
<1>11. QED
  BY <1>2, <1>10 DEF IInv, Frame, Now

(* The program ends and starts again with what a file has.                 *)
LEMMA RestartKeeps ==
  ASSUME IInv, scenario' = scenario, NEW s \in Session, Restart(s)
  PROVE  IInv'
<1>1. Now
  BY DEF IInv, Now
<1>2. /\ phase' = "key" /\ session' = s
      /\ copies' = Alike(disk[s]) /\ owner' = NoOwner /\ task' = NoTask
      /\ events' = << >> /\ streaming' = FALSE /\ recovery' = "closed" /\ overlay' = FALSE
      /\ since' = 0 /\ disk' = disk /\ index' = index /\ made' = made
      /\ rolled' = rolled /\ sent' = sent
  BY DEF Restart, store
<1>3. NoTask \in Task /\ NoTask.job = "none" /\ NoTask.messages = << >>
  BY EmptySequence, BoundAssumption DEF NoTask, Task, Outcome
<1>4. PICK q : q = disk[s]
  OBVIOUS
<1>5. PICK b : b = Alike(q)
  OBVIOUS
<1>6. PICK w : w = 0
  OBVIOUS
<1>7. w \in 0..MaxMade /\ w <= made
  BY <1>1, <1>6, BoundAssumption DEF Now, Whole, Counts
<1>8. Whole(s, w, made, b, disk, index, NoOwner, NoTask, << >>, rolled, sent)
  BY <1>1, <1>3, <1>4, <1>5, <1>6, <1>7, Replaced DEF Now
<1>9. Now'
  BY <1>2, <1>4, <1>5, <1>6, <1>8 DEF Now
<1>10. QED
  BY <1>2, <1>9 DEF IInv, Frame, Now

(* The commands that show, print or save.                                  *)
LEMMA OpenRewindKeeps ==
  ASSUME IInv, scenario' = scenario, OpenRewind
  PROVE  IInv'
<1>1. Now /\ Idle
  BY DEF IInv, Now, OpenRewind, Command, Entered
<1>2. PICK b : b = copies'
  OBVIOUS
<1>3. b = [copies EXCEPT !.screen = copies.messages]
  BY <1>2 DEF OpenRewind
<1>4. Whole(session, since, made, b, disk, index, owner, task, events, rolled, sent)
  BY <1>1, <1>3, ScreenFits, ScreenKept DEF Now, Idle
<1>5. Now'
  BY <1>2, <1>4 DEF OpenRewind, Command, store, Now
<1>6. QED
  BY <1>5 DEF OpenRewind, Command, IInv, Frame, Now

(* The output of a command is shown.                                       *)
LEMMA OutputKeeps ==
  ASSUME IInv, scenario' = scenario, Output
  PROVE  IInv'
<1>1. Now
  BY DEF IInv, Now
<1>2. PICK m : m = New("notice")
  OBVIOUS
<1>3. PICK b : b = copies'
  OBVIOUS
<1>4. Make /\ b = [copies EXCEPT !.screen = Append(copies.screen, m)] /\ "notice" \in Kind
  BY <1>2, <1>3 DEF Output, Kind
<1>5. Belongs(m, session, since, made') /\ m.kind = "notice"
  BY <1>2, <1>4, Made
<1>6. /\ Whole(session, since, made', copies, disk, index, owner, task, events, rolled, sent)
      /\ m \notin rolled /\ m \notin ToSet(copies.screen)
  BY <1>1, <1>2, <1>4, MadeFresh DEF Now
<1>7. Covered(m, Tip(copies, task))
  BY <1>5 DEF Covered
<1>8. Whole(session, since, made', b, disk, index, owner, task, events, rolled, sent)
  <2>1. PICK h : h = made'
    OBVIOUS
  <2>2. Belongs(m, session, since, h)
        /\ Whole(session, since, h, copies, disk, index, owner, task, events, rolled, sent)
    BY <1>5, <1>6, <2>1
  <2>3. Whole(session, since, h, b, disk, index, owner, task, events, rolled, sent)
    BY ONLY <1>4, <1>6, <1>7, <2>2, ShownToo
  <2>4. QED
    BY <2>1, <2>3
<1>9. Now'
  BY <1>3, <1>8 DEF Output, Command, store, Now
<1>10. QED
  BY <1>9 DEF Output, Command, IInv, Frame, Now

(* The session is renamed, and so saved.                                   *)
LEMMA RenameKeeps ==
  ASSUME IInv, scenario' = scenario, Rename
  PROVE  IInv'
<1>1. Now
  BY DEF IInv, Now
<1>2. PICK f : f = disk'
  OBVIOUS
<1>3. f = Saving(disk, session, copies.record)
  BY <1>2 DEF Rename, Saving
<1>4. Whole(session, since, made, copies, f, index, owner, task, events, rolled, sent)
  BY <1>1, <1>3, Renamed DEF Now
<1>5. Now'
  BY <1>2, <1>4 DEF Rename, Command, Now
<1>6. QED
  BY <1>5 DEF Rename, Command, IInv, Frame, Now

(* An event is drained. *)
LEMMA DrainKeeps ==
  ASSUME IInv, scenario' = scenario, Drain
  PROVE  IInv'
<1>1. Now /\ events # << >>
  BY DEF IInv, Now, Drain
<1>2. PICK v : v = Head(events)
  OBVIOUS
<1>3. PICK f : f = Tail(events)
  OBVIOUS
<1>4. PICK m : m = v.message
  OBVIOUS
<1>5. PICK b : b = copies'
  OBVIOUS
<1>6. /\ Whole(session, since, made, copies, disk, index, owner, task, f, rolled, sent)
      /\ v \in Event
      /\ m = None \/ Brings(m, session, since, made, Tip(copies, task))
  BY <1>1, <1>2, <1>3, <1>4, Heard DEF Now
<1>7. b = [copies EXCEPT !.screen = Shown(copies.screen, m)]
  BY <1>2, <1>4, <1>5 DEF Drain
<1>8. Whole(session, since, made, b, disk, index, owner, task, f, rolled, sent)
  <2>1. CASE m = None \/ Contains(copies.screen, m)
    <3>1. b = [copies EXCEPT !.screen = copies.screen]
      BY <1>7, <2>1 DEF Shown
    <3>2. QED
      BY <1>6, <3>1, ScreenFits, ScreenKept
  <2>2. CASE m # None /\ ~Contains(copies.screen, m)
    <3>1. b = [copies EXCEPT !.screen = Append(copies.screen, m)]
      BY <1>7, <2>2 DEF Shown
    <3>2. Belongs(m, session, since, made) /\ Covered(m, Tip(copies, task)) /\ m.kind = "answer"
      BY <1>6, <2>2 DEF Brings, Belongs
    <3>3. m \notin ToSet(copies.screen)
      BY <2>2, ScreenFits, Membership
    <3>4. m \notin rolled
      BY <1>1, <3>2 DEF Now, Whole, Goals
    <3>5. QED
      BY <1>6, <3>1, <3>2, <3>3, <3>4, ShownToo
  <2>3. QED
    BY <2>1, <2>2
<1>9. Now'
  BY <1>3, <1>5, <1>8 DEF Drain, store, history, Now
<1>10. streaming' \in BOOLEAN
  BY <1>2, <1>6 DEF Drain, Event
<1>11. QED
  BY <1>9, <1>10 DEF Drain, IInv, Frame, Now

(* An abandoned turn is settled; an idle session may be compacted. *)
LEMMA SettleKeeps ==
  ASSUME IInv, scenario' = scenario, Settle
  PROVE  IInv'
<1>1. Now
  BY DEF IInv, Now
<1>2. PICK c : c = copies'
  OBVIOUS
<1>3. PICK f : f = disk'
  OBVIOUS
<1>4. PICK y : y = index'
  OBVIOUS
<1>5. PICK Q : Q = rolled'
  OBVIOUS
<1>6. Whole(session, since, made, c, f, y, owner, task, events, Q, sent)
  <2>1. CASE owner.abandoned
    <3>1. c = RolledBack(copies, TRUE) /\ ForcedRollback(c)
      BY <1>2, <2>1 DEF Settle
    <3>2. Whole(session, since, made, c, disk', index', owner, task, events, rolled', sent)
      BY <2>1, <3>1, Forced
    <3>3. QED
      BY <1>3, <1>4, <1>5, <3>2
  <2>2. CASE ~owner.abandoned
    BY <1>1, <1>2, <1>3, <1>4, <1>5, <2>2 DEF Settle, store, Now
  <2>3. QED
    BY <2>1, <2>2
<1>7. c.messages \in Seq(Message)
  BY <1>6 DEF Whole, Agree, Fits
<1>8. PICK l : l = task'
  OBVIOUS
<1>9. PICK p : p = owner'
  OBVIOUS
<1>10. Whole(session, since, made, c, f, y, p, l, events, Q, sent) /\ streaming' \in BOOLEAN
  <2>1. CASE Idle /\ Spawn("compact", c.messages) /\ p = NoOwner
    <3>1. l \in Task /\ l.job # "none" /\ l.messages = c.messages /\ streaming' = TRUE
      BY <1>7, <1>8, <2>1, SpawnedTask
    <3>2. Whole(session, since, made, c, f, y, NoOwner, task, events, Q, sent)
      BY <1>6, <2>1, Released DEF Idle
    <3>3. Whole(session, since, made, c, f, y, NoOwner, l, events, Q, sent)
      BY <2>1, <3>1, <3>2, Spawned DEF Idle
    <3>4. QED
      BY <2>1, <3>1, <3>3
  <2>2. CASE /\ p = IF owner.abandoned /\ Idle THEN NoOwner ELSE owner
             /\ l = task /\ streaming' = streaming
    <3>1. Whole(session, since, made, c, f, y, p, task, events, Q, sent)
      BY <1>6, <2>2, Released DEF Idle
    <3>2. QED
      BY <2>2, <3>1 DEF IInv, Frame
  <2>3. QED
    BY <1>2, <1>8, <1>9, <2>1, <2>2 DEF Settle
<1>11. Now'
  BY <1>2, <1>3, <1>4, <1>5, <1>8, <1>9, <1>10 DEF Settle, Now
<1>12. QED
  BY <1>10, <1>11 DEF Settle, IInv, Frame, Now

(* A remote prompt starts a turn.                                          *)
LEMMA RemoteKeeps ==
  ASSUME IInv, scenario' = scenario, RemotePrompt
  PROVE  IInv'
<1>1. Now' /\ streaming' \in BOOLEAN /\ overlay' = overlay
      /\ recovery' \in {"closed", "open", "pending"}
  BY StartsKeeps DEF RemotePrompt
<1>2. QED
  BY <1>1 DEF RemotePrompt, IInv, Frame, Now

(* A turn is tried again. *)
LEMMA RetryKeeps ==
  ASSUME IInv, scenario' = scenario, Retry
  PROVE  IInv'
<1>1. Now
  BY DEF IInv, Now
<1>2. PICK l : l = task'
  OBVIOUS
<1>3. Whole(session, since, made, copies, disk, index, owner, l, events, rolled, sent)
      /\ streaming' \in BOOLEAN
  <2>1. CASE Idle /\ Spawn("turn", copies.messages)
    <3>1. l \in Task /\ l.job # "none" /\ l.messages = copies.messages /\ streaming' = TRUE
      BY <1>2, <2>1, ScreenFits, SpawnedTask
    <3>2. QED
      BY <1>1, <2>1, <3>1, Spawned DEF Now, Idle
  <2>2. CASE l = task /\ streaming' = streaming
    BY <1>1, <2>2 DEF Now, IInv, Frame
  <2>3. QED
    BY <1>2, <2>1, <2>2 DEF Retry
<1>4. Now'
  BY <1>2, <1>3 DEF Retry, store, history, Now
<1>5. recovery' \in {"closed", "open", "pending"}
  BY DEF Retry, IInv, Frame
<1>6. QED
  BY <1>3, <1>4, <1>5 DEF Retry, IInv, Frame, Now

(* A task has ended: its copy becomes the conversation, and is saved. Then *)
(* a goal may go on with a turn of its own.                                *)
LEMMA EndKeeps ==
  ASSUME IInv, scenario' = scenario, End
  PROVE  IInv'
<1>1. Now /\ task.job # "none"
  BY DEF IInv, Now, End, Idle
<1>2. PICK a : a = Synced
  OBVIOUS
<1>3. PICK c : c = RolledBack(Synced, FALSE)
  OBVIOUS
<1>4. /\ phase' = "key" /\ Note(Synced, c) /\ Persist(c.record)
      /\ Continues(c) \/ Stops(c)
      /\ session' = session /\ events' = events /\ overlay' = overlay /\ since' = since
      /\ sent' = sent /\ recovery' \in {recovery, "open"}
  BY <1>3 DEF End
<1>5. PICK f : f = disk'
  OBVIOUS
<1>6. PICK y : y = index'
  OBVIOUS
<1>7. PICK Q : Q = rolled'
  OBVIOUS
<1>8. f = Saving(disk, session, c.record) /\ y = Indexing(index, owner, c.record)
  BY <1>4, <1>5, <1>6 DEF Persist, Indexed, Saving, Indexing
<1>9. a = InSync(copies, task)
  BY <1>2 DEF Synced, InSync
<1>10. Settled(a, owner, rolled, c, Q)
  BY <1>2, <1>3, <1>4, <1>7 DEF RolledBack, MayRollBack, Note, Settled
<1>11. Whole(session, since, made, c, f, y, owner, NoTask, events, Q, sent)
  BY ONLY <1>1, <1>8, <1>9, <1>10, Ended DEF Now
<1>12. NoTask.job = "none"
  BY DEF NoTask
<1>13. CASE Stops(c)
  <2>1. PICK p : p = owner'
    OBVIOUS
  <2>2. p = owner \/ p = NoOwner
    BY <1>13, <2>1 DEF Stops
  <2>3. Whole(session, since, made, c, f, y, p, NoTask, events, Q, sent)
    BY <1>11, <1>12, <2>2, Released
  <2>4. Now' /\ streaming' = FALSE
    BY <1>4, <1>5, <1>6, <1>7, <1>13, <2>1, <2>3 DEF Stops, Now
  <2>5. QED
    BY <1>4, <2>4 DEF IInv, Frame, Now
<1>14. CASE Continues(c)
  <2>1. PICK m : m = New("goal")
    OBVIOUS
  <2>2. PICK b : b = copies'
    OBVIOUS
  <2>3. PICK p : p = owner'
    OBVIOUS
  <2>4. PICK l : l = task'
    OBVIOUS
  <2>5. PICK h : h = made'
    OBVIOUS
  <2>6. /\ Make /\ b = Said(c, m) /\ p = OwnerOf(m)
        /\ Spawn("turn", Append(c.messages, m)) /\ "goal" \in Kind
    BY <1>14, <2>1, <2>2, <2>3 DEF Continues, Kind
  <2>7. m \in Message /\ m.kind = "goal" /\ Belongs(m, session, since, h)
    BY <2>1, <2>5, <2>6, Made
  <2>8. /\ Whole(session, since, h, c, f, y, owner, NoTask, events, Q, sent)
        /\ m \notin y /\ m \notin Q /\ m \notin sent
        /\ m \notin ToSet(c.messages) /\ m \notin ToSet(c.screen)
    BY <1>11, <2>1, <2>5, <2>6, MadeFresh
  <2>9. Append(c.messages, m) \in Seq(Message)
    BY <1>11, <2>7 DEF Whole, Agree, Fits
  <2>10. l \in Task /\ l.job # "none" /\ l.messages = Append(c.messages, m) /\ streaming' = TRUE
    BY <2>4, <2>6, <2>9, SpawnedTask
  <2>11. b.messages = Append(c.messages, m)
    BY <2>6 DEF Said
  <2>12. l.messages = b.messages /\ ((m.kind = "goal" /\ p = OwnerOf(m)) \/ p = OwnerOf(None))
    BY <2>6, <2>7, <2>10, <2>11
  <2>13. l \in Task /\ l.job # "none" /\ b = Said(c, m)
    BY <2>6, <2>10
  <2>14. Whole(session, since, h, b, f, y, p, l, events, Q, sent)
    BY ONLY <1>12, <2>7, <2>8, <2>12, <2>13, Spoken
  <2>15. Now'
    BY <1>4, <1>5, <1>6, <1>7, <2>2, <2>3, <2>4, <2>5, <2>14 DEF Now
  <2>16. QED
    BY <1>4, <2>10, <2>15 DEF IInv, Frame, Now
<1>15. QED
  BY <1>4, <1>13, <1>14

(* The steps of the task and of its owner.                                 *)
LEMMA AttemptKeeps ==
  ASSUME IInv, scenario' = scenario, Attempt
  PROVE  IInv'
<1>1. Now
  BY DEF IInv, Now
<1>2. PICK p : p = owner'
  OBVIOUS
<1>3. PICK T : T = sent'
  OBVIOUS
<1>4. p = [owner EXCEPT !.attempted = TRUE]
      /\ T = IF owner.message = None THEN sent ELSE sent \cup {owner.message}
  BY <1>2, <1>3 DEF Attempt
<1>5. Whole(session, since, made, copies, disk, index, p, task, events, rolled, T)
  BY <1>1, <1>4, Asked DEF Now
<1>6. Now'
  BY <1>2, <1>3, <1>5 DEF Attempt, TaskStep, store, Now
<1>7. QED
  BY <1>6 DEF Attempt, TaskStep, IInv, Frame, Now

(* The copy of the task grows by a message, and an event tells of it.      *)
LEMMA GrowsKeeps ==
  ASSUME IInv, scenario' = scenario, Make, Running, TaskStep,
         owner' = owner, sent' = sent,
         NEW kind \in Kind, NEW m, m = New(kind),
         task' = [task EXCEPT !.messages = Append(task.messages, m)],
         NEW v \in Event, v.message = None \/ (v.message = m /\ kind = "answer"), Tell(v)
  PROVE  IInv'
<1>1. Now /\ task.job # "none"
  BY DEF IInv, Now, Running, Idle
<1>2. PICK l : l = task'
  OBVIOUS
<1>3. PICK f : f = events'
  OBVIOUS
<1>4. PICK h : h = made'
  OBVIOUS
<1>5. m \in Message /\ m.kind = kind /\ Belongs(m, session, since, h)
  BY <1>4, Made
<1>6. /\ Whole(session, since, h, copies, disk, index, owner, task, events, rolled, sent)
      /\ m \notin rolled /\ m \notin ToSet(task.messages)
  BY <1>1, <1>4, MadeFresh DEF Now
<1>7. l \in Task /\ l.job # "none" /\ l.messages = Append(task.messages, m)
  <2>1. task \in Task /\ task.messages \in Seq(Message)
    BY <1>1 DEF Now, Whole, Works, Fits
  <2>2. Append(task.messages, m) \in Seq(Message)
    BY <1>5, <2>1
  <2>3. QED
    BY <1>1, <1>2, <2>1, <2>2 DEF Task
<1>8. /\ Whole(session, since, h, copies, disk, index, owner, l, events, rolled, sent)
      /\ Covered(m, Tip(copies, l))
  BY <1>1, <1>5, <1>6, <1>7, Grown
<1>9. v.message = None \/ Brings(v.message, session, since, h, Tip(copies, l))
  BY <1>5, <1>8 DEF Brings, Belongs
<1>10. f = events \/ f = Append(events, v)
  BY <1>3 DEF Tell
<1>11. Whole(session, since, h, copies, disk, index, owner, l, f, rolled, sent)
  BY <1>8, <1>9, <1>10, Told
<1>12. Now'
  BY <1>2, <1>3, <1>4, <1>11 DEF TaskStep, store, Now
<1>13. QED
  BY <1>12 DEF TaskStep, IInv, Frame, Now

(* The model answers.                                                      *)
LEMMA AnswerKeeps ==
  ASSUME IInv, scenario' = scenario, Answer
  PROVE  IInv'
<1>1. "answer" \in Kind
  BY DEF Kind
<1>2. PICK m : m = New("answer")
  OBVIOUS
<1>3. PICK v : v = [message |-> m, streaming |-> FALSE]
  OBVIOUS
<1>4. /\ Make /\ Running /\ TaskStep /\ owner' = owner /\ sent' = sent
      /\ task' = [task EXCEPT !.messages = Append(task.messages, m)] /\ Tell(v)
  BY <1>2, <1>3 DEF Answer
<1>5. m \in Message
  BY <1>1, <1>2, <1>4, Made
<1>6. v \in Event /\ v.message = m
  BY <1>3, <1>5 DEF Event
<1>7. QED
  BY <1>1, <1>2, <1>4, <1>6, GrowsKeeps

(* Tools have run.                                                         *)
LEMMA CallToolsKeeps ==
  ASSUME IInv, scenario' = scenario, CallTools
  PROVE  IInv'
<1>1. "results" \in Kind
  BY DEF Kind
<1>2. PICK m : m = New("results")
  OBVIOUS
<1>3. PICK v : v = [message |-> None, streaming |-> TRUE]
  OBVIOUS
<1>4. /\ Make /\ Running /\ TaskStep /\ owner' = owner /\ sent' = sent
      /\ task' = [task EXCEPT !.messages = Append(task.messages, m)] /\ Tell(v)
  BY <1>2, <1>3 DEF CallTools
<1>5. v \in Event /\ v.message = None
  BY <1>3 DEF Event
<1>6. QED
  BY <1>1, <1>2, <1>4, <1>5, GrowsKeeps

(* The copy of the task is compacted, or is too short for that.            *)
LEMMA CompactKeeps ==
  ASSUME IInv, scenario' = scenario, Compact
  PROVE  IInv'
<1>1. Now /\ task.job # "none" /\ task \in Task /\ task.messages \in Seq(Message)
  BY DEF IInv, Now, Compact, Running, Idle, Whole, Works, Fits
<1>2. PICK l : l = task'
  OBVIOUS
<1>3. PICK h : h = made'
  OBVIOUS
<1>4. Whole(session, since, h, copies, disk, index, owner, l, events, rolled, sent)
  <2>1. CASE Len(task.messages) <= Keep + 1
    <3>1. h = made /\ l = [task EXCEPT !.outcome = "EndTurn"]
      BY <1>2, <1>3, <2>1 DEF Compact
    <3>2. l \in Task /\ l.job = task.job /\ l.messages = task.messages
      BY <1>1, <3>1 DEF Task, Outcome
    <3>3. QED
      BY <1>1, <3>1, <3>2, Quiet DEF Now
  <2>2. CASE ~(Len(task.messages) <= Keep + 1)
    <3>1. PICK m : m = New("summary")
      OBVIOUS
    <3>2. PICK i : i = Len(task.messages) - Keep + 1
      OBVIOUS
    <3>3. i \in Nat /\ 1 <= i
      BY <1>1, <2>2, <3>2, BoundAssumption
    <3>4. /\ Make /\ "summary" \in Kind
          /\ l = [task EXCEPT !.outcome = "EndTurn",
                    !.messages = Summary(m, task.messages, i)]
      BY <1>2, <2>2, <3>1, <3>2 DEF Compact, Kind, Summary
    <3>5. m \in Message /\ m.kind = "summary" /\ Belongs(m, session, since, h)
      BY <1>3, <3>1, <3>4, Made
    <3>6. /\ Whole(session, since, h, copies, disk, index, owner, task, events, rolled, sent)
          /\ m \notin rolled /\ m \notin ToSet(task.messages)
      BY <1>1, <1>3, <3>1, <3>4, MadeFresh DEF Now
    <3>7. Summary(m, task.messages, i) \in Seq(Message)
      <4>1. Len(task.messages) \in Nat /\ \A j \in i..Len(task.messages) : task.messages[j] \in Message
        BY <1>1, <3>3
      <4>2. SubSeq(task.messages, i, Len(task.messages)) \in Seq(Message)
        BY <1>1, <3>3, <4>1
      <4>3. QED
        BY <3>5, <4>2 DEF Summary
    <3>8. l \in Task /\ l.job # "none" /\ l.messages = Summary(m, task.messages, i)
      BY <1>1, <3>4, <3>7 DEF Task, Outcome
    <3>9. QED
      BY ONLY <1>1, <3>3, <3>5, <3>6, <3>8, Summarized
  <2>3. QED
    BY <2>1, <2>2
<1>5. Now'
  BY <1>2, <1>3, <1>4 DEF Compact, TaskStep, store, Now
<1>6. QED
  BY <1>5 DEF Compact, TaskStep, IInv, Frame, Now

(* The task returns.                                                       *)
LEMMA ReturnsKeeps ==
  ASSUME IInv, scenario' = scenario, NEW outcome \in Outcome, Returns(outcome)
  PROVE  IInv'
<1>1. Now
  BY DEF IInv, Now
<1>2. PICK l : l = task'
  OBVIOUS
<1>3. l \in Task /\ l.job = task.job /\ l.messages = task.messages
  <2>1. l = [task EXCEPT !.outcome = outcome]
    BY <1>2 DEF Returns
  <2>2. task \in Task
    BY <1>1 DEF Now, Whole, Works
  <2>3. QED
    BY <2>1, <2>2 DEF Task
<1>4. Whole(session, since, made, copies, disk, index, owner, l, events, rolled, sent)
  BY <1>1, <1>3, Quiet DEF Now
<1>5. Now'
  BY <1>2, <1>4 DEF Returns, TaskStep, store, Now
<1>6. QED
  BY <1>5 DEF Returns, TaskStep, IInv, Frame, Now

(* The goal of the turn is paused, cleared or replaced.                    *)
LEMMA RevokeKeeps ==
  ASSUME IInv, scenario' = scenario, Revoke
  PROVE  IInv'
<1>1. Now
  BY DEF IInv, Now
<1>2. PICK p : p = owner'
  OBVIOUS
<1>3. p = [owner EXCEPT !.revoked = TRUE]
  BY <1>2 DEF Revoke
<1>4. Whole(session, since, made, copies, disk, index, p, task, events, rolled, sent)
  BY <1>1, <1>3, Flagged DEF Now
<1>5. Now'
  BY <1>2, <1>4 DEF Revoke, TaskStep, store, Now
<1>6. QED
  BY <1>5 DEF Revoke, TaskStep, IInv, Frame, Now

-----------------------------------------------------------------------------
(* The invariant, and what it gives.                                       *)

(* The program starts with a new session.                                  *)
LEMMA InitHolds == Init => IInv
<1> SUFFICES ASSUME Init PROVE IInv
  OBVIOUS
<1>1. /\ scenario \in Scenario /\ phase = "key" /\ session = First /\ copies = Alike(<< >>)
      /\ disk = [s \in Session |-> << >>] /\ index = {} /\ owner = NoOwner /\ task = NoTask
      /\ events = << >> /\ streaming = FALSE /\ recovery = "closed" /\ overlay = FALSE
      /\ made = 0 /\ since = 0 /\ rolled = {} /\ sent = {}
  BY DEF Init, NoFile
<1>2. copies = [messages |-> << >>, screen |-> << >>, record |-> << >>]
  BY <1>1 DEF Alike
<1>3. \A s, n : Fits(<< >>, s, n, 0)
  BY EmptySequence DEF Fits
<1>4. Counts(session, since, made)
  BY <1>1, SessionAssumption, BoundAssumption DEF Counts
<1>5. Agree(session, since, made, copies)
  BY <1>1, <1>2, <1>3 DEF Agree
<1>6. Files(made, disk)
  BY <1>1, <1>3, EmptySequence DEF Files
<1>7. task \in Task /\ task.job = "none" /\ task.messages = << >>
  BY <1>1, EmptySequence, BoundAssumption DEF NoTask, Task, Outcome
<1>8. Works(session, since, made, task)
  BY <1>1, <1>3, <1>7 DEF Works
<1>9. Speaks(session, since, made, Tip(copies, task), events)
  BY <1>1 DEF Speaks
<1>10. Goals(made, index \cup rolled \cup sent) /\ Final(index, rolled, sent)
  BY <1>1 DEF Goals, Final
<1>11. Owns(made, owner, index, sent)
  BY <1>1 DEF Owns, NoOwner, Turn
<1>12. Gone(copies, disk, owner, task, rolled, sent)
  BY <1>1 DEF Gone
<1>13. Seen(copies, Tip(copies, task)) /\ Saved(session, copies, disk, task)
  BY <1>2, EmptySequence DEF Seen, Saved
<1>14. Frame
  BY <1>1 DEF Frame
<1>15. QED
  BY <1>4, <1>5, <1>6, <1>8, <1>9, <1>10, <1>11, <1>12, <1>13, <1>14 DEF IInv, Now, Whole

(* Every step keeps the invariant: one case for each action.               *)
LEMMA NextKeeps ==
  ASSUME IInv, [Next /\ UNCHANGED scenario]_vars
  PROVE  IInv'
<1>1. CASE UNCHANGED vars
  <2>1. Now'
    BY <1>1, QuietKeeps DEF vars, store, history
  <2>2. QED
    BY <1>1, <2>1 DEF vars, IInv, Frame, Now
<1>2. CASE Next /\ scenario' = scenario
  <2>1. CASE NoKey \/ OrdinaryKey \/ Escape \/ RecoveryKey \/ \E i \in 0..MaxMade : RewindTo(i)
    BY <1>2, <2>1, KeysKeep
  <2>2. CASE Abandon
    BY <1>2, <2>2, AbandonKeeps
  <2>3. CASE Submit
    BY <1>2, <2>3, SubmitKeeps
  <2>4. CASE SubmitRefused
    BY <1>2, <2>4, SubmitRefusedKeeps
  <2>5. CASE Clear
    BY <1>2, <2>5, ClearKeeps
  <2>6. CASE OpenRewind
    BY <1>2, <2>6, OpenRewindKeeps
  <2>7. CASE Rename
    BY <1>2, <2>7, RenameKeeps
  <2>8. CASE \E s \in Session : Resume(s) \/ Restart(s)
    BY <1>2, <2>8, ResumeKeeps, RestartKeeps
  <2>9. CASE Output
    BY <1>2, <2>9, OutputKeeps
  <2>10. CASE Drain
    BY <1>2, <2>10, DrainKeeps
  <2>11. CASE Settle
    BY <1>2, <2>11, SettleKeeps
  <2>12. CASE RemotePrompt
    BY <1>2, <2>12, RemoteKeeps
  <2>13. CASE Retry
    BY <1>2, <2>13, RetryKeeps
  <2>14. CASE End
    BY <1>2, <2>14, EndKeeps
  <2>15. CASE Attempt
    BY <1>2, <2>15, AttemptKeeps
  <2>16. CASE Answer
    BY <1>2, <2>16, AnswerKeeps
  <2>17. CASE CallTools
    BY <1>2, <2>17, CallToolsKeeps
  <2>18. CASE Compact
    BY <1>2, <2>18, CompactKeeps
  <2>19. CASE \E o \in Outcome : Returns(o)
    BY <1>2, <2>19, ReturnsKeeps
  <2>20. CASE Revoke
    BY <1>2, <2>20, RevokeKeeps
  <2>21. CASE Drained \/ NoRemotePrompt \/ NotEnded
    <3>1. Now'
      BY <2>21, QuietKeeps DEF Drained, NoRemotePrompt, NotEnded, store, history
    <3>2. /\ phase' \in {"settle", "retry", "key"} /\ streaming' = streaming
          /\ overlay' = overlay /\ recovery' = recovery
      BY <2>21 DEF Drained, NoRemotePrompt, NotEnded
    <3>3. QED
      BY <1>2, <3>1, <3>2 DEF IInv, Frame, Now
  <2>22. QED
    BY <1>2, <2>1, <2>2, <2>3, <2>4, <2>5, <2>6, <2>7, <2>8, <2>9, <2>10, <2>11, <2>12,
       <2>13, <2>14, <2>15, <2>16, <2>17, <2>18, <2>19, <2>20, <2>21 DEF Next
<1>3. QED
  BY <1>1, <1>2

(* However the user, the goal, the task and crashes take turns, the copies *)
(* of the conversation are related as the invariant says: the record is    *)
(* what the loop will send, what was taken back is at most in the copy of  *)
(* a task whose turn will be rolled back, and the screen, the events and   *)
(* the file are accounted for by what the conversation will be.            *)
THEOREM ConversationInvariant == Spec => []IInv
<1>1. Init => IInv
  BY InitHolds
<1>2. IInv /\ [Next /\ UNCHANGED scenario]_vars => IInv'
  BY NextKeeps
<1>3. QED
  BY <1>1, <1>2, PTL DEF Spec

(* The state has its type.                                                 *)
THEOREM TypeCorrect == Spec => []TypeOK
<1>1. ASSUME IInv PROVE TypeOK
  <2>1. copies = [messages |-> copies.messages, screen |-> copies.screen, record |-> copies.messages]
        /\ copies.messages \in Seq(Message) /\ copies.screen \in Seq(Message)
    BY <1>1 DEF IInv, Now, Whole, Agree, Fits
  <2>2. copies \in [messages : Seq(Message), screen : Seq(Message), record : Seq(Message)]
    BY ONLY <2>1
  <2>3. /\ session \in Session /\ disk \in [Session -> Seq(Message)]
        /\ owner \in Turn /\ task \in Task /\ events \in Seq(Event)
        /\ made \in 0..MaxMade /\ since \in 0..MaxMade
    BY <1>1 DEF IInv, Now, Whole, Counts, Files, Works, Speaks, Owns
  <2>4. index \subseteq Message /\ rolled \subseteq Message /\ sent \subseteq Message
    BY <1>1 DEF IInv, Now, Whole, Goals
  <2>5. QED
    BY <1>1, <2>2, <2>3, <2>4 DEF TypeOK, IInv, Frame
<1>2. QED
  BY <1>1, ConversationInvariant, PTL

(* Once nothing runs, a message that was taken back before a model was     *)
(* asked is in no copy and not in the file.                                *)
THEOREM NothingTakenBackStays == Spec => []TakenBackIsGone
<1>1. ASSUME IInv PROVE TakenBackIsGone
  <2>1. copies.record = copies.messages /\ session \in Session
    BY <1>1 DEF IInv, Now, Whole, Agree, Counts
  <2>2. ASSUME NEW m \in rolled \ sent
        PROVE  /\ m \notin ToSet(copies.messages) /\ m \notin ToSet(copies.screen)
               /\ m \notin ToSet(disk[session])
    BY <1>1, <2>1 DEF IInv, Now, Whole, Gone
  <2>3. disk[session] \in Seq(Message)
    BY <1>1, <2>1 DEF IInv, Now, Whole, Files
  <2>4. ASSUME NEW m \in rolled \ sent
        PROVE  ~Contains(disk[session], m) /\ \A s \in Copies : ~Contains(s, m)
    BY <1>1, <2>1, <2>2, <2>3, ScreenFits, Membership DEF Copies
  <2>5. QED
    BY <2>4 DEF TakenBackIsGone
<1>2. QED
  BY <1>1, ConversationInvariant, PTL

(* The search index has no message that can still be taken back.           *)
THEOREM IndexStaysFinal == Spec => []IndexIsFinal
<1>1. IInv => IndexIsFinal
  BY DEF IInv, Now, Whole, Final, IndexIsFinal
<1>2. QED
  BY <1>1, ConversationInvariant, PTL

(* Once nothing runs the file has the whole conversation.                  *)
THEOREM ConversationIsSaved == Spec => []AtRestOnDisk
<1>1. ASSUME IInv PROVE AtRestOnDisk
  <2>1. ASSUME Idle, NEW m \in ToSet(copies.messages)
        PROVE  m.kind = "notice" \/ Contains(disk[session], m) \/ Compacted
    <3>1. Covered(m, disk[session])
      BY <1>1, <2>1 DEF IInv, Now, Whole, Saved, Idle
    <3>2. disk[session] \in Seq(Message)
      BY <1>1 DEF IInv, Now, Whole, Files, Counts
    <3>3. QED
      BY <3>1, <3>2, Membership DEF Covered, Compacted
  <2>2. QED
    BY <2>1 DEF AtRestOnDisk
<1>2. QED
  BY <1>1, ConversationInvariant, PTL

(* Nothing of a conversation that was cleared or left is in its copies,    *)
(* and nothing is in one of them twice.                                    *)
THEOREM OldNeverReturns == Spec => []OldStaysOut
<1>1. ASSUME IInv PROVE OldStaysOut
  <2>1. /\ copies.record = copies.messages
        /\ Fits(copies.messages, session, since, made)
        /\ Fits(copies.screen, session, since, made)
    BY <1>1 DEF IInv, Now, Whole, Agree
  <2>2. \A s \in Copies : Fits(s, session, since, made)
    BY <2>1 DEF Copies
  <2>3. \A s \in Session : \A m \in ToSet(disk[s]) : m.in = s
    BY <1>1 DEF IInv, Now, Whole, Files, Fits
  <2>4. QED
    BY <2>2, <2>3 DEF OldStaysOut, Fits
<1>2. QED
  BY <1>1, ConversationInvariant, PTL

(* When a query ends, the message that a model was asked about stays in    *)
(* the conversation and in the file, whoever gave the turn up.             *)
THEOREM SentStays == Spec => SentIsKept
<1>1. ASSUME IInv, End, owner.message \in sent, Contains(task.messages, owner.message)
      PROVE  /\ Contains(copies'.messages, owner.message)
             /\ Contains(disk'[session], owner.message)
  <2>1. PICK g : g = owner.message
    OBVIOUS
  <2>2. g \in Message /\ g # None /\ owner.attempted
    BY <1>1, <2>1 DEF IInv, Now, Whole, Goals, Owns, None
  <2>3. RolledBack(Synced, FALSE) = Synced
    BY <2>2 DEF RolledBack, MayRollBack
  <2>4. PICK q : q = task.messages
    OBVIOUS
  <2>5. q \in Seq(Message) /\ g \in ToSet(q) /\ session \in Session /\ DOMAIN disk = Session
    BY <1>1, <2>1, <2>4, Membership DEF IInv, Now, Whole, Works, Fits, Counts, Files
  <2>6. Synced.messages = q /\ Synced.record = q
    BY <1>1, <2>4 DEF Synced, IInv, Now, Whole, Agree
  <2>7. disk' = [disk EXCEPT ![session] = q]
    BY <1>1, <2>3, <2>6 DEF End, Persist
  <2>8. Contains(disk'[session], g)
    BY <2>5, <2>7, Membership
  <2>9. Contains(copies'.messages, g)
    <3>1. CASE Stops(Synced)
      BY <2>5, <2>6, <3>1, Membership DEF Stops
    <3>2. CASE Continues(Synced)
      <4>1. PICK m : m = New("goal")
        OBVIOUS
      <4>2. PICK t : t = Append(q, m)
        OBVIOUS
      <4>3. Make /\ copies'.messages = t
        BY <2>6, <3>2, <4>1, <4>2 DEF Continues, Said
      <4>4. m \in Message
        BY <1>1, <4>1, <4>3, Made DEF Kind
      <4>5. t \in Seq(Message) /\ ToSet(t) = ToSet(q) \cup {m}
        BY <2>5, <4>2, <4>4, Appended
      <4>6. Contains(t, g)
        BY <2>5, <4>5, Membership
      <4>7. QED
        BY <4>3, <4>6
    <3>3. QED
      BY <1>1, <2>3, <3>1, <3>2 DEF End
  <2>10. QED
    BY <2>1, <2>8, <2>9
<1>2. IInv /\ [Next /\ UNCHANGED scenario]_vars =>
        [ End /\ owner.message \in sent /\ Contains(task.messages, owner.message)
          => /\ Contains(copies'.messages, owner.message)
             /\ Contains(disk'[session], owner.message) ]_vars
  BY <1>1
<1>3. QED
  BY <1>2, ConversationInvariant, PTL DEF Spec, SentIsKept

=============================================================================

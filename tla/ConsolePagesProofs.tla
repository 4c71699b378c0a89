-------------------------- MODULE ConsolePagesProofs --------------------------
(* Whatever pages, people and objects there are: what the pages show is what   *)
(* was asked for, what they do is what was seen, what nobody confirmed is      *)
(* looked at before it is done again, and what the person is at stays. One     *)
(* invariant a page (and one more for what stays); the steps of each leave the *)
(* others' alone, because a behaviour is of one page only.                     *)
EXTENDS ConsolePages, FiniteSetTheorems, SequenceTheorems, TLAPS

-------------------------------------------------------------------------------
(* Sequences of anything.                                                      *)

\* A function on 1..n is a sequence.
LEMMA Listed ==
  ASSUME NEW S, NEW n \in Nat, NEW f \in [1..n -> S]
  PROVE  f \in Seq(S)
OBVIOUS

\* A sequence, of whatever it is.
IsSeq(s) == \E S : s \in Seq(S)

\* Its places are counted.
LEMMA Counted ==
  ASSUME NEW s, IsSeq(s)
  PROVE  Len(s) \in Nat /\ DOMAIN s = 1..Len(s)
BY LenProperties DEF IsSeq

\* A function of the first numbers is one.
LEMMA Enumerated ==
  ASSUME NEW n \in Nat, NEW f, DOMAIN f = 1..n, f = [i \in 1..n |-> f[i]]
  PROVE  IsSeq(f) /\ Len(f) = n
<1> DEFINE S == {f[i] : i \in 1..n}
<1>1. f \in [1..n -> S]
  OBVIOUS
<1> HIDE DEF S
<1>2. f \in Seq(S)
  BY <1>1, Listed
<1>3. Len(f) \in Nat /\ DOMAIN f = 1..Len(f)
  BY <1>2, LenProperties
<1>4. Len(f) = n
  BY <1>3
<1> QED
  BY <1>2, <1>4 DEF IsSeq

\* What is appended comes last.
LEMMA Appended ==
  ASSUME NEW s, IsSeq(s), NEW e
  PROVE  /\ IsSeq(Append(s, e)) /\ Len(Append(s, e)) = Len(s) + 1
         /\ \A i \in 1..Len(s) : Append(s, e)[i] = s[i]
         /\ Append(s, e)[Len(s) + 1] = e
<1>1. PICK S : s \in Seq(S)
  BY DEF IsSeq
<1>2. s \in Seq(S \cup {e})
  BY <1>1, SeqMonotonic
<1>3. /\ Append(s, e) \in Seq(S \cup {e}) /\ Len(Append(s, e)) = Len(s) + 1
      /\ \A i \in 1..Len(s) : Append(s, e)[i] = s[i]
      /\ Append(s, e)[Len(s) + 1] = e
  BY <1>2, AppendProperties
<1> QED
  BY <1>3 DEF IsSeq

\* One after the other.
LEMMA Joined ==
  ASSUME NEW S, NEW a \in Seq(S), NEW b \in Seq(S)
  PROVE  /\ a \o b \in Seq(S) /\ Len(a \o b) = Len(a) + Len(b)
         /\ \A k \in 1..Len(a) : (a \o b)[k] = a[k]
         /\ \A k \in 1..Len(b) : (a \o b)[Len(a) + k] = b[k]
<1>1. Len(a) \in Nat /\ Len(b) \in Nat
  BY LenProperties
<1>2. /\ a \o b \in Seq(S) /\ Len(a \o b) = Len(a) + Len(b)
      /\ \A i \in 1..Len(a) + Len(b) :
           (a \o b)[i] = IF i <= Len(a) THEN a[i] ELSE b[i - Len(a)]
  BY ConcatProperties
<1>3. ASSUME NEW k \in 1..Len(a)
      PROVE  (a \o b)[k] = a[k]
  <2>1. k \in 1..Len(a) + Len(b) /\ k <= Len(a)
    BY <1>1
  <2> QED
    BY <1>2, <2>1
<1>4. ASSUME NEW k \in 1..Len(b)
      PROVE  (a \o b)[Len(a) + k] = b[k]
  <2>1. Len(a) + k \in 1..Len(a) + Len(b) /\ ~(Len(a) + k <= Len(a))
    BY <1>1
  <2>2. Len(a) + k - Len(a) = k
    BY <1>1
  <2>3. (a \o b)[Len(a) + k] = IF Len(a) + k <= Len(a) THEN a[Len(a) + k]
                               ELSE b[Len(a) + k - Len(a)]
    BY <1>2, <2>1
  <2> QED
    BY <2>1, <2>2, <2>3
<1> QED
  BY <1>2, <1>3, <1>4

\* A part of a sequence.
LEMMA Cut ==
  ASSUME NEW S, NEW s \in Seq(S), NEW m \in 1..Len(s) + 1, NEW n \in 0..Len(s),
         m <= n + 1, NEW r, r = SubSeq(s, m, n)
  PROVE  /\ r \in Seq(S) /\ Len(r) = n - m + 1
         /\ \A k \in 1..n - m + 1 : r[k] = s[m + k - 1]
<1>1. Len(s) \in Nat
  BY LenProperties
<1>2. \A i \in m..n : s[i] \in S
  BY <1>1, ElementOfSeq
<1>3. m \in Int /\ n \in Int
  BY <1>1
<1>4. /\ SubSeq(s, m, n) \in Seq(S)
      /\ Len(SubSeq(s, m, n)) = IF m <= n THEN n - m + 1 ELSE 0
      /\ \A i \in 1..n - m + 1 : SubSeq(s, m, n)[i] = s[m + i - 1]
  BY <1>2, <1>3, SubSeqProperties
<1>5. (IF m <= n THEN n - m + 1 ELSE 0) = n - m + 1
  BY <1>1
<1> QED
  BY <1>4, <1>5

\* A sequence without what is at a place, and with something put in there.
Less(s, i) == SubSeq(s, 1, i - 1) \o SubSeq(s, i + 1, Len(s))
More(s, i, e) == SubSeq(s, 1, i - 1) \o <<e>> \o SubSeq(s, i, Len(s))

\* Without the one at a place, those behind it move up.
LEMMA Shortened ==
  ASSUME NEW s, IsSeq(s), NEW i \in DOMAIN s, NEW r,
         r = Less(s, i)
  PROVE  /\ IsSeq(r) /\ Len(r) = Len(s) - 1
         /\ \A k \in 1..i - 1 : r[k] = s[k]
         /\ \A k \in i..Len(s) - 1 : r[k] = s[k + 1]
<1>1. PICK S : s \in Seq(S)
  BY DEF IsSeq
<1>2. PICK n \in Nat : n = Len(s) /\ i \in 1..n
  BY Counted
<1> DEFINE a == SubSeq(s, 1, i - 1)
           b == SubSeq(s, i + 1, Len(s))
<1>3. /\ a \in Seq(S) /\ Len(a) = i - 1 /\ \A k \in 1..i - 1 : a[k] = s[k]
  <2>1. /\ a \in Seq(S) /\ Len(a) = (i - 1) - 1 + 1
        /\ \A k \in 1..(i - 1) - 1 + 1 : a[k] = s[1 + k - 1]
    <3>1. 1 \in 1..n + 1 /\ i - 1 \in 0..n /\ 1 <= (i - 1) + 1
      BY <1>2
    <3> QED
      BY <1>1, <3>1, Cut
  <2>2. (i - 1) - 1 + 1 = i - 1 /\ \A k \in 1..i - 1 : 1 + k - 1 = k
    BY <1>2
  <2> QED
    BY <2>1, <2>2
<1>4. /\ b \in Seq(S) /\ Len(b) = n - i
      /\ \A k \in 1..n - i : b[k] = s[i + k]
  <2>1. /\ b \in Seq(S) /\ Len(b) = n - (i + 1) + 1
        /\ \A k \in 1..n - (i + 1) + 1 : b[k] = s[i + 1 + k - 1]
    <3>1. i + 1 \in 1..Len(s) + 1 /\ Len(s) \in 0..Len(s) /\ i + 1 <= Len(s) + 1
      BY <1>2
    <3>2. /\ b \in Seq(S) /\ Len(b) = Len(s) - (i + 1) + 1
          /\ \A k \in 1..Len(s) - (i + 1) + 1 : b[k] = s[i + 1 + k - 1]
      BY <1>1, <3>1, Cut
    <3> QED
      BY <1>2, <3>2
  <2>2. n - (i + 1) + 1 = n - i /\ \A k \in 1..n - i : i + 1 + k - 1 = i + k
    BY <1>2
  <2> QED
    BY <2>1, <2>2
<1> HIDE DEF a, b
<1>5. /\ r \in Seq(S) /\ Len(r) = Len(a) + Len(b)
      /\ \A k \in 1..Len(a) : r[k] = a[k]
      /\ \A k \in 1..Len(b) : r[Len(a) + k] = b[k]
  <2>1. r = a \o b
    BY DEF Less, a, b
  <2>2. a \in Seq(S) /\ b \in Seq(S)
    BY <1>3, <1>4
  <2>3. r \in Seq(S) /\ Len(r) = Len(a) + Len(b)
    BY <2>1, <2>2, Joined
  <2>4. \A k \in 1..Len(a) : r[k] = a[k]
    BY <2>1, <2>2, Joined
  <2>5. \A k \in 1..Len(b) : r[Len(a) + k] = b[k]
    BY <2>1, <2>2, Joined
  <2> QED
    BY <2>3, <2>4, <2>5
<1>6. Len(r) = n - 1
  BY <1>2, <1>3, <1>4, <1>5
<1>7. ASSUME NEW k \in i..n - 1
      PROVE  r[k] = s[k + 1]
  <2>1. PICK m \in 1..n - i : k = (i - 1) + m
    <3>1. k - i + 1 \in 1..n - i /\ k = (i - 1) + (k - i + 1)
      BY <1>2
    <3> QED
      BY <3>1
  <2>2. r[k] = b[m]
    BY <1>3, <1>4, <1>5, <2>1
  <2>3. b[m] = s[i + m]
    BY <1>4, <2>1
  <2>4. i + m = k + 1
    BY <1>2, <2>1
  <2> QED
    BY <2>2, <2>3, <2>4
<1>8. \A k \in 1..i - 1 : r[k] = s[k]
  BY <1>3, <1>5
<1> QED
  BY <1>2, <1>5, <1>6, <1>7, <1>8 DEF IsSeq

\* Where something is put in, those from its place on make room.
LEMMA Inserted ==
  ASSUME NEW s, IsSeq(s), NEW i \in 1..Len(s) + 1, NEW e, NEW r,
         r = More(s, i, e)
  PROVE  /\ IsSeq(r) /\ Len(r) = Len(s) + 1 /\ r[i] = e
         /\ \A k \in 1..i - 1 : r[k] = s[k]
         /\ \A k \in i..Len(s) : r[k + 1] = s[k]
<1>1. PICK S : s \in Seq(S)
  BY DEF IsSeq
<1>2. Len(s) \in Nat
  BY Counted
<1> DEFINE T == S \cup {e}
           a == SubSeq(s, 1, i - 1)
           b == SubSeq(s, i, Len(s))
           one == <<e>>
           c == a \o one
<1>3. s \in Seq(T) /\ e \in T
  BY <1>1, SeqMonotonic
<1> HIDE DEF T
<1>4. /\ a \in Seq(T) /\ Len(a) = i - 1 /\ \A k \in 1..i - 1 : a[k] = s[k]
  <2>1. /\ a \in Seq(T) /\ Len(a) = (i - 1) - 1 + 1
        /\ \A k \in 1..(i - 1) - 1 + 1 : a[k] = s[1 + k - 1]
    <3>1. 1 \in 1..Len(s) + 1 /\ i - 1 \in 0..Len(s) /\ 1 <= (i - 1) + 1
      BY <1>2
    <3> QED
      BY <1>3, <3>1, Cut
  <2>2. (i - 1) - 1 + 1 = i - 1 /\ \A k \in 1..i - 1 : 1 + k - 1 = k
    BY <1>2
  <2> QED
    BY <2>1, <2>2
<1>5. /\ b \in Seq(T) /\ Len(b) = Len(s) - i + 1
      /\ \A k \in 1..Len(s) - i + 1 : b[k] = s[i + k - 1]
  <2>1. i \in 1..Len(s) + 1 /\ Len(s) \in 0..Len(s) /\ i <= Len(s) + 1
    BY <1>2
  <2> QED
    BY <1>3, <2>1, Cut
<1>6. one \in Seq(T) /\ Len(one) = 1 /\ one[1] = e
  BY <1>3
<1> HIDE DEF a, b, one, c
<1>7. /\ c \in Seq(T) /\ Len(c) = Len(a) + Len(one)
      /\ \A k \in 1..Len(a) : c[k] = a[k]
      /\ \A k \in 1..Len(one) : c[Len(a) + k] = one[k]
  <2>1. c = a \o one
    BY DEF c
  <2>2. a \in Seq(T) /\ one \in Seq(T)
    BY <1>4, <1>6
  <2>3. c \in Seq(T) /\ Len(c) = Len(a) + Len(one)
    BY <2>1, <2>2, Joined
  <2>4. \A k \in 1..Len(a) : c[k] = a[k]
    BY <2>1, <2>2, Joined
  <2>5. \A k \in 1..Len(one) : c[Len(a) + k] = one[k]
    BY <2>1, <2>2, Joined
  <2> QED
    BY <2>3, <2>4, <2>5
<1>8. Len(c) = i
  BY <1>2, <1>4, <1>6, <1>7
<1>9. c[i] = e
  <2>1. 1 \in 1..Len(one) /\ Len(a) + 1 = i
    BY <1>2, <1>4, <1>6
  <2> QED
    BY <1>6, <1>7, <2>1
<1>10. /\ r \in Seq(T) /\ Len(r) = Len(c) + Len(b)
       /\ \A k \in 1..Len(c) : r[k] = c[k]
       /\ \A k \in 1..Len(b) : r[Len(c) + k] = b[k]
  <2>1. r = c \o b
    BY DEF More, a, b, c, one
  <2> QED
    <3>1. c \in Seq(T) /\ b \in Seq(T)
      BY <1>5, <1>7
    <3>2. r \in Seq(T) /\ Len(r) = Len(c) + Len(b)
      BY <2>1, <3>1, Joined
    <3>3. \A k \in 1..Len(c) : r[k] = c[k]
      BY <2>1, <3>1, Joined
    <3>4. \A k \in 1..Len(b) : r[Len(c) + k] = b[k]
      BY <2>1, <3>1, Joined
    <3> QED
      BY <3>2, <3>3, <3>4
<1>11. Len(r) = Len(s) + 1
  <2>1. Len(r) = i + (Len(s) - i + 1)
    BY <1>5, <1>8, <1>10
  <2> QED
    BY <1>2, <2>1
<1>12. r[i] = e
  <2>1. i \in 1..Len(c)
    BY <1>2, <1>8
  <2> QED
    BY <1>9, <1>10, <2>1
<1>13. ASSUME NEW k \in 1..i - 1
       PROVE  r[k] = s[k]
  <2>1. k \in 1..Len(c) /\ k \in 1..Len(a)
    BY <1>2, <1>4, <1>8
  <2> QED
    BY <1>4, <1>7, <1>10, <2>1
<1>14. ASSUME NEW k \in i..Len(s)
       PROVE  r[k + 1] = s[k]
  <2>1. PICK m \in 1..Len(s) - i + 1 : k + 1 = i + m
    <3>1. k + 1 - i \in 1..Len(s) - i + 1 /\ k + 1 = i + (k + 1 - i)
      BY <1>2
    <3> QED
      BY <3>1
  <2>2. r[k + 1] = b[m]
    BY <1>5, <1>8, <1>10, <2>1
  <2>3. b[m] = s[i + m - 1] /\ i + m - 1 = k
    BY <1>2, <1>5, <2>1
  <2> QED
    BY <2>2, <2>3
<1> QED
  BY <1>10, <1>11, <1>12, <1>13, <1>14 DEF IsSeq

USE PagesAssumptions

-------------------------------------------------------------------------------
(* The panel of operation contexts.                                            *)

\* The panel, and the reads it has under way.
PanelTyped ==
  /\ DOMAIN first = {"lease", "offers", "ended", "context", "busy", "error", "pending"}
  /\ first.lease \in Nat
  /\ second \subseteq [lease : Nat, aborted : BOOLEAN]

\* A read that was not aborted is the one the panel waits for, of its lease.
PanelWaits ==
  /\ first.context \in {None, first.lease} /\ first.pending \in {None, first.lease}
  /\ \A c \in second : ~c.aborted => c.lease = first.pending
  /\ first.busy => [lease |-> first.pending, aborted |-> FALSE] \in second
  /\ first.ended => first.context = None /\ first.pending = None /\ ~first.busy

\* What holds of the panel at every step.
PanelInv == PanelTyped /\ PanelWaits

\* It says what the property says.
LEMMA PanelSays ==
  ASSUME PanelInv
  PROVE  Contexts!InspectsItsOwn
BY DEF PanelInv, PanelTyped, PanelWaits, Contexts!InspectsItsOwn, PagesAssumptions

\* At first nothing is shown, and nothing waited for.
LEMMA PanelStarts ==
  ASSUME Contexts!PanelInit
  PROVE  PanelInv
BY DEF Contexts!PanelInit, Contexts!Blank, PanelInv, PanelTyped, PanelWaits

\* Once the read of the panel is given up, no read is heard.
LEMMA AbortedReads ==
  ASSUME PanelInv
  PROVE  \A d \in {[c EXCEPT !.aborted = @ \/ c.lease = first.pending] : c \in second} :
           d \in [lease : Nat, aborted : BOOLEAN] /\ d.aborted
<1> SUFFICES ASSUME NEW c \in second
             PROVE  LET d == [c EXCEPT !.aborted = @ \/ c.lease = first.pending]
                    IN  d \in [lease : Nat, aborted : BOOLEAN] /\ d.aborted
  OBVIOUS
<1>1. c \in [lease : Nat, aborted : BOOLEAN] /\ (~c.aborted => c.lease = first.pending)
  BY DEF PanelInv, PanelTyped, PanelWaits
<1> QED
  BY <1>1

\* Every step of the panel keeps it.
LEMMA PanelSteps ==
  ASSUME PanelInv, Contexts!PanelNext
  PROVE  PanelInv'
<1> USE DEF PanelInv, PanelTyped, PanelWaits, PagesAssumptions
<1>1. CASE Contexts!Inspect
  <2>1. first' = [first EXCEPT !.pending = first.lease, !.busy = TRUE, !.context = None,
                               !.error = FALSE]
    BY <1>1 DEF Contexts!Inspect
  <2>2. \A c \in second : c.aborted
    BY <1>1 DEF Contexts!Inspect
  <2>3. second' = second \cup {[lease |-> first.lease, aborted |-> FALSE]} /\ ~first.ended
    BY <1>1 DEF Contexts!Inspect
  <2>4. PanelTyped'
    <3>1. [lease |-> first.lease, aborted |-> FALSE] \in [lease : Nat, aborted : BOOLEAN]
      OBVIOUS
    <3> QED
      BY <2>1, <2>3, <3>1
  <2>5. /\ first'.context = None /\ first'.pending = first.lease /\ first'.lease = first.lease
        /\ first'.ended = first.ended
    BY <2>1
  <2>6. PanelWaits'
    BY <2>2, <2>3, <2>5
  <2> QED
    BY <2>4, <2>6
<1>2. CASE Contexts!LeaseEnds
  <2>1. first' = [[lease |-> first.lease, offers |-> first.offers, ended |-> FALSE,
                   context |-> None, busy |-> FALSE, error |-> FALSE, pending |-> None]
                  EXCEPT !.ended = TRUE]
    BY <1>2 DEF Contexts!LeaseEnds, Contexts!Blank
  <2>2. second' = {[c EXCEPT !.aborted = @ \/ c.lease = first.pending] : c \in second}
    BY <1>2 DEF Contexts!LeaseEnds, Contexts!Aborts
  <2>3. second' \subseteq [lease : Nat, aborted : BOOLEAN] /\ \A c \in second' : c.aborted
    BY <2>2, AbortedReads
  <2>4. PanelTyped'
    BY <2>1, <2>3
  <2>5. PanelWaits'
    BY <2>1, <2>3
  <2> QED
    BY <2>4, <2>5
<1>3. ASSUME NEW offers \in BOOLEAN, Contexts!Moves(offers)
      PROVE  PanelInv'
  <2>1. first' = [lease |-> first.lease + 1, offers |-> offers, ended |-> FALSE,
                  context |-> None, busy |-> FALSE, error |-> FALSE, pending |-> None]
    BY <1>3 DEF Contexts!Moves, Contexts!Blank
  <2>2. second' = {[c EXCEPT !.aborted = @ \/ c.lease = first.pending] : c \in second}
    BY <1>3 DEF Contexts!Moves, Contexts!Aborts
  <2>3. second' \subseteq [lease : Nat, aborted : BOOLEAN] /\ \A c \in second' : c.aborted
    BY <2>2, AbortedReads
  <2>4. PanelTyped'
    BY <2>1, <2>3
  <2>5. PanelWaits'
    BY <2>1, <2>3
  <2> QED
    BY <2>4, <2>5
<1>4. ASSUME NEW c \in second, NEW context \in {c.lease, None}, Contexts!Answers(c, context)
      PROVE  PanelInv'
  <2>1. second' = second \ {c}
    BY <1>4 DEF Contexts!Answers
  <2>2. CASE c.aborted
    BY <1>4, <2>1, <2>2 DEF Contexts!Answers
  <2>3. CASE ~c.aborted
    <3>1. first' = [first EXCEPT !.context = context, !.error = (context = None),
                                 !.busy = FALSE, !.pending = None]
      BY <1>4, <2>3 DEF Contexts!Answers
    <3>2. c.lease = first.lease /\ first.pending = first.lease /\ ~first.ended
      BY <2>3
    <3>3. \A d \in second' : d.aborted
      <4> SUFFICES ASSUME NEW d \in second, d # c, ~d.aborted
                   PROVE  FALSE
        BY <2>1
      <4>1. d.lease = c.lease /\ d.aborted = c.aborted
        BY <2>3
      <4> QED
        BY <4>1
    <3>4. PanelTyped'
      BY <2>1, <3>1, <3>2
    <3>5. first'.context = context /\ first'.pending = None /\ first'.lease = first.lease
          /\ ~first'.busy /\ first'.ended = first.ended
      BY <3>1
    <3>6. PanelWaits'
      BY <3>2, <3>3, <3>5
    <3> QED
      BY <3>4, <3>6
  <2> QED
    BY <2>2, <2>3
<1> QED
  BY <1>1, <1>2, <1>3, <1>4 DEF Contexts!PanelNext

-------------------------------------------------------------------------------
(* The tool by which an Agent inspects them.                                   *)

\* The call of the tool.
ToolTyped ==
  /\ DOMAIN second = {"kind", "at", "aborted", "selected", "prepared", "result", "vouched",
                      "answer"}
  /\ second.vouched \in BOOLEAN
  /\ second.at # "idle" => second.kind \in {"catalog", "context", "prepare", "invoke"}

\* Once the service has answered, the host has named the page of the action again before
\* the answer is handed over.
ToolVouches ==
  /\ second.answer = "result" =>
       second.at = "idle" /\ second.result = second.prepared.mount /\ second.vouched
  /\ second.at \in {"page again", "compare again"} => second.result # None
  /\ second.at = "page again" /\ first # None /\ Contexts!Fingerprint(first) = second.prepared
       => second.vouched
  /\ second.at = "compare again" /\ Contexts!Fingerprint(second.selected) = second.prepared
       => second.vouched

\* What holds of a tool's call at every step.
ToolInv == ToolTyped /\ ToolVouches

\* It says what the property says.
LEMMA ToolSays ==
  ASSUME ToolInv
  PROVE  Contexts!ToldOfItsPage
BY DEF ToolInv, ToolVouches, Contexts!ToldOfItsPage

\* At first there is no call.
LEMMA ToolStarts ==
  ASSUME Contexts!ToolInit
  PROVE  ToolInv
BY DEF Contexts!ToolInit, ToolInv, ToolTyped, ToolVouches, PagesAssumptions

\* A call that ends without a result.
LEMMA ToolEnds ==
  ASSUME ToolInv, NEW answer, answer # "result", Contexts!Ends(answer)
  PROVE  ToolInv'
<1>1. /\ DOMAIN second' = DOMAIN second /\ second'.at = "idle" /\ second'.answer = answer
      /\ second'.vouched = second.vouched
  BY DEF Contexts!Ends, ToolInv, ToolTyped
<1> QED
  BY <1>1 DEF ToolInv, ToolTyped, ToolVouches

\* A call that goes wrong.
LEMMA ToolRejects ==
  ASSUME ToolInv, NEW code, code # "result", Contexts!Rejects(code)
  PROVE  ToolInv'
BY ToolEnds DEF Contexts!Rejects

\* The page of the host is there: a second look at it is a look at what is vouched for.
LEMMA ToolSelects ==
  ASSUME ToolInv, first' = first, first # None, NEW at, Contexts!Selects(at),
         at \in {"digest", "compare"} \/ (at = "compare again" /\ second.at = "page again"),
         second.at # "idle"
  PROVE  ToolInv'
<1>1. /\ DOMAIN second' = DOMAIN second /\ second'.at = at /\ second'.selected = first
      /\ second'.answer = second.answer /\ second'.vouched = second.vouched
      /\ second'.result = second.result /\ second'.prepared = second.prepared
      /\ second'.kind = second.kind
  BY DEF Contexts!Selects, ToolInv, ToolTyped
<1>2. Contexts!Fingerprint(second'.selected) = Contexts!Fingerprint(first)
  BY <1>1
<1> QED
  BY <1>1, <1>2 DEF ToolInv, ToolTyped, ToolVouches

\* Every step of the tool and of its host keeps it.
LEMMA ToolSteps ==
  ASSUME ToolInv, Contexts!ToolNext
  PROVE  ToolInv'
<1>0. /\ DOMAIN second = {"kind", "at", "aborted", "selected", "prepared", "result", "vouched",
                          "answer"}
      /\ second.vouched \in BOOLEAN
  BY DEF ToolInv, ToolTyped
<1>1. ASSUME NEW kind \in {"catalog", "context", "prepare", "invoke"}, Contexts!Starts(kind)
      PROVE  ToolInv'
  <2>1. /\ DOMAIN second' = DOMAIN second /\ second'.at = "page" /\ second'.answer = None
        /\ second'.vouched \in BOOLEAN /\ second'.kind = kind
    BY <1>0, <1>1 DEF Contexts!Starts
  <2> QED
    BY <1>0, <2>1 DEF ToolInv, ToolTyped, ToolVouches, PagesAssumptions
<1>2. CASE Contexts!Abort
  <2>1. /\ first' = first /\ DOMAIN second' = DOMAIN second /\ second'.at = second.at
        /\ second'.selected = second.selected /\ second'.prepared = second.prepared
        /\ second'.result = second.result /\ second'.vouched = second.vouched
        /\ second'.answer = second.answer /\ second'.kind = second.kind
    BY <1>0, <1>2 DEF Contexts!Abort
  <2>2. /\ Contexts!Fingerprint(second'.selected) = Contexts!Fingerprint(second.selected)
        /\ Contexts!Fingerprint(first') = Contexts!Fingerprint(first)
    BY <2>1
  <2> QED
    BY <2>1, <2>2 DEF ToolInv, ToolTyped, ToolVouches
<1>3. CASE Contexts!Resolves
  <2>1. second.at \in {"page", "page again"} /\ first' = first
    BY <1>3 DEF Contexts!Resolves
  <2>2. CASE Contexts!Rejects("forbidden-operation")
    BY <2>2, ToolRejects
  <2>3. CASE first # None /\ second.kind \in {"catalog", "context"} /\ Contexts!Ends("told")
    BY <2>3, ToolEnds
  <2>4. CASE Contexts!Rejects("unknown-operation")
    BY <2>4, ToolRejects
  <2>5. CASE first # None /\ Contexts!Selects("digest")
    BY <2>1, <2>5, ToolSelects
  <2>6. CASE /\ first # None
             /\ Contexts!Selects(IF second.at = "page" THEN "compare" ELSE "compare again")
    BY <2>1, <2>6, ToolSelects
  <2> QED
    BY <1>3, <2>2, <2>3, <2>4, <2>5, <2>6 DEF Contexts!Resolves, ToolInv, ToolTyped
<1>4. CASE Contexts!Prepares
  <2>1. /\ DOMAIN second' = DOMAIN second /\ second'.at = "idle"
        /\ second'.answer = "prepared" /\ second'.vouched = second.vouched
    BY <1>0, <1>4 DEF Contexts!Prepares
  <2> QED
    BY <1>0, <2>1 DEF ToolInv, ToolTyped, ToolVouches
<1>5. CASE Contexts!Compares
  <2>1. CASE Contexts!Rejects("precondition-conflict")
    BY <2>1, ToolRejects
  <2>2. CASE second.at = "compare" /\ second' = [second EXCEPT !.at = "inspect"]
    <3>1. /\ DOMAIN second' = DOMAIN second /\ second'.at = "inspect"
          /\ second'.answer = second.answer /\ second'.vouched = second.vouched
          /\ second'.kind = second.kind
      BY <1>0, <2>2
    <3> QED
      BY <2>2, <3>1 DEF ToolInv, ToolTyped, ToolVouches
  <2> QED
    BY <1>5, <2>1, <2>2 DEF Contexts!Compares
<1>6. CASE Contexts!InspectFails
  BY <1>6, ToolRejects DEF Contexts!InspectFails
<1>7. CASE Contexts!ComparesAgain
  <2>1. CASE Contexts!Rejects("precondition-conflict")
    BY <2>1, ToolRejects
  <2>2. CASE second.at = "compare again" /\ Contexts!StillThePage /\ Contexts!Ends("result")
    <3>1. /\ DOMAIN second' = DOMAIN second /\ second'.at = "idle"
          /\ second'.answer = "result" /\ second'.vouched = second.vouched
          /\ second'.result = second.result /\ second'.prepared = second.prepared
      BY <1>0, <2>2 DEF Contexts!Ends
    <3>2. /\ second.prepared = Contexts!Fingerprint(second.selected)
          /\ second.result = second.selected.mount
      BY <2>2 DEF Contexts!StillThePage
    <3>3. second.prepared.mount = second.selected.mount
      BY <3>2 DEF Contexts!Fingerprint
    <3>4. second.vouched
      BY <2>2, <3>2 DEF ToolInv, ToolVouches
    <3> QED
      BY <3>1, <3>2, <3>3, <3>4 DEF ToolInv, ToolTyped, ToolVouches
  <2> QED
    BY <1>7, <2>1, <2>2 DEF Contexts!ComparesAgain
<1>8. ASSUME NEW mount \in Mounts, Contexts!Inspected(mount)
      PROVE  ToolInv'
  <2> DEFINE vouched == first # None /\ Contexts!Fingerprint(first) = second.prepared
  <2>1. /\ first' = first /\ second.at = "inspect"
        /\ second' = [second EXCEPT !.at = "page again", !.result = mount, !.vouched = vouched]
    BY <1>8 DEF Contexts!Inspected
  <2>2. vouched \in BOOLEAN
    OBVIOUS
  <2> HIDE DEF vouched
  <2>3. /\ DOMAIN second' = DOMAIN second /\ second'.at = "page again"
        /\ second'.result = mount /\ second'.answer = second.answer
        /\ second'.prepared = second.prepared /\ second'.vouched = vouched
        /\ second'.kind = second.kind
    BY <1>0, <2>1
  <2>4. mount # None
    BY DEF PagesAssumptions
  <2> QED
    BY <2>1, <2>2, <2>3, <2>4 DEF ToolInv, ToolTyped, ToolVouches, vouched
<1>9. ASSUME NEW page \in Contexts!Pages \cup {None}, Contexts!HostMoves(page)
      PROVE  ToolInv'
  <2> DEFINE vouched == second.vouched \/ (/\ second.result # None /\ page # None
                                           /\ Contexts!Fingerprint(page) = second.prepared)
  <2>1. first' = page /\ second' = [second EXCEPT !.vouched = vouched]
    BY <1>9 DEF Contexts!HostMoves
  <2>2. vouched \in BOOLEAN
    BY <1>0
  <2> HIDE DEF vouched
  <2>3. /\ DOMAIN second' = DOMAIN second /\ second'.at = second.at
        /\ second'.selected = second.selected /\ second'.prepared = second.prepared
        /\ second'.result = second.result /\ second'.vouched = vouched
        /\ second'.answer = second.answer /\ second'.kind = second.kind
    BY <1>0, <2>1
  <2>4. /\ Contexts!Fingerprint(second'.selected) = Contexts!Fingerprint(second.selected)
        /\ Contexts!Fingerprint(first') = Contexts!Fingerprint(page)
    BY <2>1, <2>3
  <2> QED
    BY <2>1, <2>2, <2>3, <2>4 DEF ToolInv, ToolTyped, ToolVouches, vouched
<1> QED
  BY <1>1, <1>2, <1>3, <1>4, <1>5, <1>6, <1>7, <1>8, <1>9 DEF Contexts!ToolNext

-------------------------------------------------------------------------------
(* The preferences of the Shell.                                               *)

\* The calls of the store: live ones are of the person who is there, and what was carried
\* out is a version that the store has.
StoreCalls(scope, versions) ==
  {c \in [scope : Scopes, value : Preferences \cup {None}, against : Nat, live : BOOLEAN,
          written : Nat] :
     /\ c.live => c.scope = scope
     /\ c.written # 0 => /\ c.written \in DOMAIN versions[c.scope]
                         /\ versions[c.scope][c.written] = c.value}

\* The Shell, its calls, and what is stored.
ShellTyped ==
  /\ DOMAIN first = {"scope", "ready", "launcher", "command", "editing", "draft", "error",
                     "busy", "loaded", "revision", "value", "calls"}
  /\ first.scope \in Scopes /\ first.value \in Preferences
  /\ first.draft \in Preferences \cup {None} /\ first.editing \in Preferences \cup {None}
  /\ first.revision \in Nat
  /\ second \in [Scopes -> Seq(Preferences)] /\ \A s \in Scopes : second[s] # <<>>

\* The calls under way are of the person there is, and what is shown is the person's own.
ShellInv ==
  /\ ShellTyped /\ first.calls \in Seq(StoreCalls(first.scope, second))
  /\ Shell!PreferencesAreOwn

\* A call that was answered is waited for no longer.
LEMMA CallRemoved ==
  ASSUME NEW S, first.calls \in Seq(S), NEW i \in DOMAIN first.calls
  PROVE  Shell!Remaining(i) \in Seq(S)
<1> DEFINE s == first.calls
<1>1. i \in 1..Len(s) /\ Len(s) \in Nat
  BY LenProperties
<1>2. \A j \in 1..Len(s) : s[j] \in S
  BY ElementOfSeq
<1>3. SubSeq(s, 1, i - 1) \in Seq(S)
  BY <1>1, <1>2, SubSeqProperties
<1>4. SubSeq(s, i + 1, Len(s)) \in Seq(S)
  BY <1>1, <1>2, SubSeqProperties
<1> QED
  BY <1>3, <1>4, ConcatProperties DEF Shell!Remaining

\* What the store has it keeps: a version more takes nothing from the calls.
LEMMA VersionAdded ==
  ASSUME ShellTyped, NEW scope \in Scopes, NEW value \in Preferences
  PROVE  LET after == [second EXCEPT ![scope] = Append(@, value)]
         IN  /\ after \in [Scopes -> Seq(Preferences)]
             /\ \A s \in Scopes : /\ after[s] # <<>> /\ DOMAIN second[s] \subseteq DOMAIN after[s]
                                  /\ \A n \in DOMAIN second[s] : after[s][n] = second[s][n]
             /\ Len(second[scope]) \in Nat
             /\ after[scope][Len(second[scope]) + 1] = value
             /\ Len(second[scope]) + 1 \in DOMAIN after[scope]
<1> DEFINE after == [second EXCEPT ![scope] = Append(@, value)]
<1>1. second[scope] \in Seq(Preferences)
  BY DEF ShellTyped
<1>2. /\ Append(second[scope], value) \in Seq(Preferences)
      /\ Len(Append(second[scope], value)) = Len(second[scope]) + 1
      /\ Len(second[scope]) \in Nat
      /\ Append(second[scope], value)[Len(second[scope]) + 1] = value
      /\ \A n \in 1..Len(second[scope]) :
           Append(second[scope], value)[n] = second[scope][n]
  BY <1>1
<1>3. /\ DOMAIN second[scope] = 1..Len(second[scope])
      /\ DOMAIN Append(second[scope], value) = 1..Len(second[scope]) + 1
  BY <1>1, <1>2, LenProperties
<1>4. Append(second[scope], value) # <<>>
  BY <1>2, EmptySeq
<1>5. /\ after \in [Scopes -> Seq(Preferences)]
      /\ after[scope] = Append(second[scope], value)
      /\ \A s \in Scopes \ {scope} : after[s] = second[s]
  BY <1>2 DEF ShellTyped
<1> HIDE DEF after
<1>6. Len(second[scope]) + 1 \in 1..Len(second[scope]) + 1
  BY <1>2
<1>7. \A n \in 1..Len(second[scope]) : n \in 1..Len(second[scope]) + 1
  BY <1>2
<1>8. \A s \in Scopes : /\ after[s] # <<>> /\ DOMAIN second[s] \subseteq DOMAIN after[s]
                        /\ \A n \in DOMAIN second[s] : after[s][n] = second[s][n]
  BY <1>2, <1>3, <1>4, <1>5, <1>7 DEF ShellTyped
<1> QED
  BY <1>2, <1>3, <1>5, <1>6, <1>8 DEF after

\* So the calls, and what the page shows, go on being right.
LEMMA VersionsKept ==
  ASSUME ShellInv, NEW scope \in Scopes, NEW value \in Preferences
  PROVE  LET after == [second EXCEPT ![scope] = Append(@, value)]
         IN  StoreCalls(first.scope, second) \subseteq StoreCalls(first.scope, after)
<1> DEFINE after == [second EXCEPT ![scope] = Append(@, value)]
<1>1. \A s \in Scopes : /\ DOMAIN second[s] \subseteq DOMAIN after[s]
                        /\ \A n \in DOMAIN second[s] : after[s][n] = second[s][n]
  BY VersionAdded DEF ShellInv
<1> HIDE DEF after
<1> QED
  BY <1>1 DEF StoreCalls, after

\* A call that the page makes for who is there.
LEMMA CallMade ==
  ASSUME ShellInv, NEW value \in Preferences \cup {None}, NEW against \in Nat
  PROVE  Append(first.calls, [scope |-> first.scope, value |-> value, against |-> against,
                              live |-> TRUE, written |-> 0])
           \in Seq(StoreCalls(first.scope, second))
<1> DEFINE call == [scope |-> first.scope, value |-> value, against |-> against,
                    live |-> TRUE, written |-> 0]
<1>1. call \in StoreCalls(first.scope, second)
  BY DEF ShellInv, ShellTyped, StoreCalls
<1> HIDE DEF call
<1>2. Append(first.calls, call) \in Seq(StoreCalls(first.scope, second))
  BY <1>1 DEF ShellInv
<1> QED
  BY <1>2 DEF call

\* Calls of another time say nothing of the person who is there now.
LEMMA EpochCalls ==
  ASSUME ShellInv, NEW scope \in Scopes
  PROVE  Append(Shell!Retired(first.calls), Shell!Read(scope))
           \in Seq(StoreCalls(scope, second))
<1> DEFINE S == StoreCalls(scope, second)
           n == Len(first.calls)
           old == [i \in 1..n |-> [first.calls[i] EXCEPT !.live = FALSE]]
<1>1. n \in Nat /\ DOMAIN first.calls = 1..n
  BY LenProperties DEF ShellInv
<1>2. ASSUME NEW i \in 1..n
      PROVE  [first.calls[i] EXCEPT !.live = FALSE] \in S
  <2>1. first.calls[i] \in StoreCalls(first.scope, second)
    BY ElementOfSeq DEF ShellInv
  <2> QED
    BY <2>1 DEF StoreCalls
<1>3. old \in [1..n -> S]
  BY <1>2
<1>4. old \in Seq(S)
  BY <1>1, <1>3, Listed
<1>5. Shell!Read(scope) \in S
  BY DEF Shell!Read, StoreCalls
<1>6. Shell!Retired(first.calls) = old
  BY <1>1 DEF Shell!Retired
<1> HIDE DEF S, old
<1>7. Append(old, Shell!Read(scope)) \in Seq(S)
  BY <1>4, <1>5
<1> QED
  BY <1>6, <1>7 DEF S

\* It says what the property says.
LEMMA ShellSays ==
  ASSUME ShellInv
  PROVE  Shell!PreferencesAreOwn
BY DEF ShellInv

\* At first the defaults are shown, and the store is asked.
LEMMA ShellStarts ==
  ASSUME Shell!Init
  PROVE  ShellInv
<1>1. PICK scope \in Scopes :
        first = Shell!Epoch([scope |-> scope, ready |-> TRUE, launcher |-> FALSE,
                  command |-> FALSE, editing |-> None, draft |-> None, error |-> FALSE,
                  busy |-> FALSE, loaded |-> FALSE, revision |-> 0, value |-> Default,
                  calls |-> <<>>])
  BY DEF Shell!Init
<1>2. second = [s \in Scopes |-> <<Default>>]
  BY DEF Shell!Init
<1>3. second \in [Scopes -> Seq(Preferences)] /\ \A s \in Scopes : second[s] # <<>>
  BY <1>2 DEF PagesAssumptions
<1>4. Shell!Retired(<<>>) = <<>>
  BY DEF Shell!Retired
<1>5. Shell!Read(scope) \in StoreCalls(scope, second)
  BY DEF Shell!Read, StoreCalls
<1>6. Append(<<>>, Shell!Read(scope)) \in Seq(StoreCalls(scope, second))
  BY <1>5
<1>7. /\ DOMAIN first = {"scope", "ready", "launcher", "command", "editing", "draft", "error",
                         "busy", "loaded", "revision", "value", "calls"}
      /\ first.scope = scope /\ first.value = Default /\ first.draft = None
      /\ first.editing = None /\ first.revision = 0 /\ first.loaded = FALSE
      /\ first.calls = Append(<<>>, Shell!Read(scope))
  BY <1>1, <1>4 DEF Shell!Epoch
<1> QED
  BY <1>3, <1>6, <1>7 DEF ShellInv, ShellTyped, PagesAssumptions, Shell!PreferencesAreOwn

\* Opening, closing and editing leave the preferences alone.
LEMMA ShellQuietSteps ==
  ASSUME ShellInv, UNCHANGED second, DOMAIN first' = DOMAIN first,
         first'.scope = first.scope, first'.value = first.value, first'.draft = first.draft,
         first'.revision = first.revision, first'.loaded = first.loaded,
         first'.busy = first.busy, first'.error = first.error, first'.calls = first.calls,
         first'.editing \in Preferences \cup {None}
  PROVE  ShellInv'
BY DEF ShellInv, ShellTyped, Shell!PreferencesAreOwn

\* An epoch begins with the defaults.
LEMMA ShellEpochs ==
  ASSUME ShellInv, UNCHANGED second, NEW s, s.scope \in Scopes, DOMAIN s = DOMAIN first,
         s.calls = first.calls, first' = Shell!Epoch(s)
  PROVE  ShellInv'
<1>1. /\ DOMAIN first' = DOMAIN first
      /\ first'.scope = s.scope /\ first'.value = Default /\ first'.draft = None
      /\ first'.editing = None /\ first'.revision = 0 /\ first'.loaded = FALSE
      /\ first'.calls = Append(Shell!Retired(first.calls), Shell!Read(s.scope))
  BY DEF Shell!Epoch, ShellInv, ShellTyped
<1>2. first'.calls \in Seq(StoreCalls(s.scope, second))
  BY <1>1, EpochCalls
<1> QED
  BY <1>1, <1>2 DEF ShellInv, ShellTyped, PagesAssumptions, Shell!PreferencesAreOwn

\* A save is of what the page shows, for who is there.
LEMMA ShellSaves ==
  ASSUME ShellInv, UNCHANGED second, NEW s, DOMAIN s = DOMAIN first,
         s.scope = first.scope, s.value = first.value, s.revision = first.revision,
         s.loaded = first.loaded, s.calls = first.calls,
         s.draft \in Preferences \cup {None}, s.editing \in Preferences \cup {None},
         NEW value \in Preferences \cup {None}, first' = Shell!Saving(s, value)
  PROVE  ShellInv'
<1>1. first' = [s EXCEPT !.busy = TRUE, !.error = FALSE,
                  !.calls = Append(s.calls, [scope |-> first.scope, value |-> value,
                     against |-> first.revision, live |-> TRUE, written |-> 0])]
  BY DEF Shell!Saving
<1>2. /\ DOMAIN first' = DOMAIN first /\ first'.scope = first.scope
      /\ first'.value = first.value /\ first'.revision = first.revision
      /\ first'.loaded = first.loaded /\ first'.draft = s.draft
      /\ first'.editing = s.editing /\ first'.busy = TRUE
      /\ first'.calls = Append(first.calls, [scope |-> first.scope, value |-> value,
                     against |-> first.revision, live |-> TRUE, written |-> 0])
  BY <1>1 DEF ShellInv, ShellTyped
<1>3. first'.calls \in Seq(StoreCalls(first.scope, second))
  BY <1>2, CallMade DEF ShellInv, ShellTyped
<1> QED
  BY <1>2, <1>3 DEF ShellInv, ShellTyped, Shell!PreferencesAreOwn

\* What an answer changes, besides the call that is waited for no longer.
LEMMA ShellAnswered ==
  ASSUME ShellInv, UNCHANGED second, NEW i \in DOMAIN first.calls,
         DOMAIN first' = DOMAIN first, first'.scope = first.scope,
         first'.calls = Shell!Remaining(i),
         first'.value \in Preferences, first'.revision \in Nat,
         first'.draft \in Preferences \cup {None}, first'.editing \in Preferences \cup {None},
         Shell!PreferencesAreOwn'
  PROVE  ShellInv'
BY CallRemoved DEF ShellInv, ShellTyped

\* The store answers a read with its last version, or not.
LEMMA ShellReads ==
  ASSUME ShellInv, NEW i, Shell!ReadAnswers(i)
  PROVE  ShellInv'
<1> DEFINE told == [first EXCEPT !.calls = Shell!Remaining(i)]
           last == second[first.calls[i].scope]
<1>1. i \in DOMAIN first.calls /\ UNCHANGED second
  BY DEF Shell!ReadAnswers
<1>2. first.calls[i] \in StoreCalls(first.scope, second)
  BY <1>1, LenProperties, ElementOfSeq DEF ShellInv
<1>3. CASE first' = told \/ first' = [told EXCEPT !.error = TRUE]
  <2>1. /\ DOMAIN first' = DOMAIN first /\ first'.scope = first.scope
        /\ first'.value = first.value /\ first'.revision = first.revision
        /\ first'.loaded = first.loaded /\ first'.draft = first.draft
        /\ first'.editing = first.editing /\ first'.busy = first.busy
        /\ first'.error = first.error \/ first'.error = TRUE
        /\ first'.calls = Shell!Remaining(i)
    BY <1>3 DEF ShellInv, ShellTyped
  <2>2. Shell!PreferencesAreOwn'
    BY <1>1, <2>1 DEF ShellInv, Shell!PreferencesAreOwn
  <2> QED
    BY <1>1, <2>1, <2>2, ShellAnswered DEF ShellInv, ShellTyped
<1>4. CASE /\ first.calls[i].live
           /\ first' = [told EXCEPT !.loaded = TRUE, !.value = last[Len(last)],
                                    !.revision = Len(last)]
  <2>1. first.calls[i].scope = first.scope /\ first.scope \in Scopes
    BY <1>2, <1>4 DEF StoreCalls, ShellInv, ShellTyped
  <2>2. last \in Seq(Preferences) /\ last # <<>> /\ last = second[first.scope]
    BY <2>1 DEF ShellInv, ShellTyped
  <2>3. Len(last) \in Nat \ {0} /\ DOMAIN last = 1..Len(last)
    BY <2>2, EmptySeq, LenProperties
  <2>4. Len(last) \in DOMAIN last /\ last[Len(last)] \in Preferences
    BY <2>2, <2>3, ElementOfSeq
  <2>5. /\ DOMAIN first' = DOMAIN first /\ first'.scope = first.scope
        /\ first'.value = last[Len(last)] /\ first'.revision = Len(last)
        /\ first'.draft = first.draft /\ first'.editing = first.editing
        /\ first'.busy = first.busy /\ first'.error = first.error
        /\ first'.calls = Shell!Remaining(i)
    BY <1>4 DEF ShellInv, ShellTyped
  <2>6. Shell!PreferencesAreOwn'
    BY <1>1, <2>2, <2>4, <2>5 DEF ShellInv, Shell!PreferencesAreOwn
  <2> QED
    BY <1>1, <2>3, <2>4, <2>5, <2>6, ShellAnswered DEF ShellInv, ShellTyped
<1> QED
  BY <1>3, <1>4 DEF Shell!ReadAnswers

\* The store carries a save out.
LEMMA ShellStores ==
  ASSUME ShellInv, NEW i, Shell!StoreSaves(i)
  PROVE  ShellInv'
<1> DEFINE call == first.calls[i]
           scope == call.scope
           value == call.value
           after == [second EXCEPT ![scope] = Append(@, value)]
           mine == Len(second[scope]) + 1
           carried == [call EXCEPT !.written = mine]
<1>1. /\ i \in DOMAIN first.calls /\ value # None
      /\ call.against = Len(second[scope]) /\ second' = after
      /\ first' = [first EXCEPT !.calls[i].written = mine]
  BY DEF Shell!StoreSaves
<1>2. call \in StoreCalls(first.scope, second) /\ i \in 1..Len(first.calls)
  BY <1>1, LenProperties, ElementOfSeq DEF ShellInv
<1>3. scope \in Scopes /\ value \in Preferences
  BY <1>1, <1>2 DEF StoreCalls
<1> HIDE DEF scope, value
<1>4. /\ after \in [Scopes -> Seq(Preferences)]
      /\ \A s \in Scopes : /\ after[s] # <<>> /\ DOMAIN second[s] \subseteq DOMAIN after[s]
                           /\ \A n \in DOMAIN second[s] : after[s][n] = second[s][n]
      /\ Len(second[scope]) \in Nat /\ after[scope][mine] = value
      /\ mine \in DOMAIN after[scope]
  BY <1>3, VersionAdded DEF ShellInv
<1>5. StoreCalls(first.scope, second) \subseteq StoreCalls(first.scope, after)
  BY <1>3, VersionsKept
<1> HIDE DEF after
<1>6. carried \in StoreCalls(first.scope, after)
  <2>1. mine \in Nat
    BY <1>4
  <2>2. /\ call \in [scope : Scopes, value : Preferences \cup {None}, against : Nat,
                     live : BOOLEAN, written : Nat]
        /\ call.live => call.scope = first.scope
    BY <1>2 DEF StoreCalls
  <2>3. /\ carried \in [scope : Scopes, value : Preferences \cup {None}, against : Nat,
                        live : BOOLEAN, written : Nat]
        /\ carried.scope = scope /\ carried.value = value /\ carried.live = call.live
        /\ carried.written = mine
    <3> HIDE DEF mine, call
    <3> QED
      BY <2>1, <2>2 DEF scope, value
  <2> QED
    BY <1>4, <2>2, <2>3 DEF StoreCalls, scope
<1>7. first.calls \in Seq(StoreCalls(first.scope, after))
  BY <1>5, SeqMonotonic DEF ShellInv
<1> HIDE DEF carried
<1>8. [first.calls EXCEPT ![i] = carried] \in Seq(StoreCalls(first.scope, after))
  BY <1>2, <1>6, <1>7, ExceptSeq
<1>9. /\ DOMAIN first' = DOMAIN first /\ first'.scope = first.scope
      /\ first'.value = first.value /\ first'.revision = first.revision
      /\ first'.loaded = first.loaded /\ first'.draft = first.draft
      /\ first'.editing = first.editing /\ first'.busy = first.busy
      /\ first'.error = first.error
      /\ first'.calls = [first.calls EXCEPT ![i] = carried]
  BY <1>1 DEF ShellInv, ShellTyped, carried
<1>10. Shell!PreferencesAreOwn'
  BY <1>1, <1>4, <1>9 DEF ShellInv, ShellTyped, Shell!PreferencesAreOwn
<1> QED
  BY <1>1, <1>4, <1>8, <1>9, <1>10 DEF ShellInv, ShellTyped

\* The page hears that its save was carried out.
LEMMA ShellHears ==
  ASSUME ShellInv, NEW i, Shell!SaveAnswers(i)
  PROVE  ShellInv'
<1> DEFINE call == first.calls[i]
           told == [first EXCEPT !.calls = Shell!Remaining(i)]
<1>1. /\ i \in DOMAIN first.calls /\ call.written # 0 /\ UNCHANGED second
      /\ first' = IF ~call.live THEN told
                  ELSE [told EXCEPT !.busy = FALSE, !.draft = None, !.editing = None,
                                    !.value = call.value, !.revision = call.written]
  BY DEF Shell!SaveAnswers, Shell!Saved
<1>2. call \in StoreCalls(first.scope, second)
  BY <1>1, LenProperties, ElementOfSeq DEF ShellInv
<1>3. CASE ~call.live
  <2>1. /\ DOMAIN first' = DOMAIN first /\ first'.scope = first.scope
        /\ first'.value = first.value /\ first'.revision = first.revision
        /\ first'.loaded = first.loaded /\ first'.draft = first.draft
        /\ first'.editing = first.editing /\ first'.busy = first.busy
        /\ first'.error = first.error
        /\ first'.calls = Shell!Remaining(i)
    BY <1>1, <1>3 DEF ShellInv, ShellTyped
  <2>2. Shell!PreferencesAreOwn'
    BY <1>1, <2>1 DEF ShellInv, Shell!PreferencesAreOwn
  <2> QED
    BY <1>1, <2>1, <2>2, ShellAnswered DEF ShellInv, ShellTyped
<1>4. CASE call.live
  <2>1. /\ call.scope = first.scope /\ call.written \in Nat
        /\ call.written \in DOMAIN second[first.scope]
        /\ second[first.scope][call.written] = call.value
    BY <1>1, <1>2, <1>4 DEF StoreCalls
  <2>2. call.value \in Preferences
    <3>1. second[first.scope] \in Seq(Preferences)
      BY DEF ShellInv, ShellTyped
    <3> QED
      BY <2>1, <3>1, LenProperties, ElementOfSeq
  <2>3. /\ DOMAIN first' = DOMAIN first /\ first'.scope = first.scope
        /\ first'.value = call.value /\ first'.revision = call.written
        /\ first'.draft = None /\ first'.editing = None
        /\ first'.calls = Shell!Remaining(i)
    BY <1>1, <1>4 DEF ShellInv, ShellTyped
  <2>4. Shell!PreferencesAreOwn'
    BY <1>1, <2>1, <2>3 DEF Shell!PreferencesAreOwn
  <2> QED
    BY <1>1, <2>1, <2>2, <2>3, <2>4, ShellAnswered DEF ShellInv, ShellTyped
<1> QED
  BY <1>3, <1>4

\* The page hears that it was not, or nothing.
LEMMA ShellFails ==
  ASSUME ShellInv, NEW i, Shell!SaveFails(i)
  PROVE  ShellInv'
<1>1. i \in DOMAIN first.calls /\ UNCHANGED second
  BY DEF Shell!SaveFails
<1>2. \/ first' = [first EXCEPT !.calls = Shell!Remaining(i)]
      \/ first' = [[first EXCEPT !.calls = Shell!Remaining(i)]
                   EXCEPT !.busy = FALSE, !.error = TRUE]
  BY DEF Shell!SaveFails
<1>3. /\ DOMAIN first' = DOMAIN first /\ first'.scope = first.scope
      /\ first'.value = first.value /\ first'.revision = first.revision
      /\ first'.loaded = first.loaded /\ first'.draft = first.draft
      /\ first'.editing = first.editing
      /\ first'.error = TRUE \/ (first'.error = first.error /\ first'.busy = first.busy)
      /\ first'.calls = Shell!Remaining(i)
  BY <1>2 DEF ShellInv, ShellTyped
<1>4. Shell!PreferencesAreOwn'
  BY <1>1, <1>3 DEF ShellInv, Shell!PreferencesAreOwn
<1> QED
  BY <1>1, <1>3, <1>4, ShellAnswered DEF ShellInv, ShellTyped

\* Another tab saves.
LEMMA ShellElsewhere ==
  ASSUME ShellInv, NEW scope \in Scopes, NEW value \in Preferences,
         Shell!OtherTabSaves(scope, value)
  PROVE  ShellInv'
<1> DEFINE after == [second EXCEPT ![scope] = Append(@, value)]
<1>1. second' = after /\ UNCHANGED first
  BY DEF Shell!OtherTabSaves
<1>2. /\ after \in [Scopes -> Seq(Preferences)]
      /\ \A s \in Scopes : /\ after[s] # <<>> /\ DOMAIN second[s] \subseteq DOMAIN after[s]
                           /\ \A n \in DOMAIN second[s] : after[s][n] = second[s][n]
  BY VersionAdded DEF ShellInv
<1>3. StoreCalls(first.scope, second) \subseteq StoreCalls(first.scope, after)
  BY VersionsKept
<1> HIDE DEF after
<1>4. first.calls \in Seq(StoreCalls(first.scope, after))
  BY <1>3, SeqMonotonic DEF ShellInv
<1> QED
  BY <1>1, <1>2, <1>4 DEF ShellInv, ShellTyped, Shell!PreferencesAreOwn

\* Every step of the Shell keeps it.
LEMMA ShellSteps ==
  ASSUME ShellInv, Shell!Next
  PROVE  ShellInv'
<1> USE DEF ShellInv, ShellTyped
<1>1. ASSUME NEW open \in BOOLEAN, Shell!ChangeOpen(open)
      PROVE  ShellInv'
  BY <1>1, ShellQuietSteps DEF Shell!ChangeOpen
<1>2. CASE Shell!OpenCommand
  BY <1>2, ShellQuietSteps DEF Shell!OpenCommand
<1>3. CASE Shell!CloseCommand
  BY <1>3, ShellQuietSteps DEF Shell!CloseCommand
<1>4. CASE Shell!StartEditing
  BY <1>4, ShellQuietSteps DEF Shell!StartEditing, Shell!Value
<1>5. CASE Shell!CancelEditing
  BY <1>5, ShellQuietSteps DEF Shell!CancelEditing
<1>6. ASSUME NEW value \in Preferences, Shell!Edit(value)
      PROVE  ShellInv'
  BY <1>6, ShellQuietSteps DEF Shell!Edit
<1>7. CASE Shell!SessionChanges
  BY <1>7, ShellQuietSteps DEF Shell!SessionChanges, Shell!Closed
<1>8. CASE Shell!SaveEdits
  BY <1>8, ShellSaves DEF Shell!SaveEdits
<1>9. ASSUME NEW value \in Preferences, Shell!SelectPreset(value)
      PROVE  ShellInv'
  <2> DEFINE s == [first EXCEPT !.draft = value, !.command = FALSE]
  <2>1. first' = Shell!Saving(s, value) /\ UNCHANGED second
    BY <1>9 DEF Shell!SelectPreset
  <2>2. /\ DOMAIN s = DOMAIN first /\ s.scope = first.scope /\ s.value = first.value
        /\ s.revision = first.revision /\ s.loaded = first.loaded /\ s.calls = first.calls
        /\ s.draft = value /\ s.editing = first.editing
    OBVIOUS
  <2> HIDE DEF s
  <2> QED
    BY <2>1, <2>2, ShellSaves
<1>10. CASE Shell!Reload
  BY <1>10, ShellEpochs DEF Shell!Reload
<1>11. ASSUME NEW scope \in Scopes, Shell!ChangeScope(scope)
       PROVE  ShellInv'
  <2> DEFINE s == [Shell!Closed(first) EXCEPT !.scope = scope]
  <2>1. first' = Shell!Epoch(s) /\ UNCHANGED second
    BY <1>11 DEF Shell!ChangeScope
  <2>2. DOMAIN s = DOMAIN first /\ s.scope = scope /\ s.calls = first.calls
    BY DEF Shell!Closed
  <2> HIDE DEF s
  <2> QED
    BY <2>1, <2>2, ShellEpochs
<1> QED
  BY <1>1, <1>2, <1>3, <1>4, <1>5, <1>6, <1>7, <1>8, <1>9, <1>10, <1>11,
     ShellReads, ShellStores, ShellHears, ShellFails, ShellElsewhere DEF Shell!Next

-------------------------------------------------------------------------------
(* The routes of the Shell.                                                    *)

\* The session, and a page mounted exactly where the session may be.
RoutesInv ==
  /\ DOMAIN first = {"state", "access", "scope"} /\ first.state \in Routes!States
  /\ first.access \subseteq RoutePages /\ first.scope \in Scopes /\ IsFiniteSet(fourth)
  /\ third # None <=> Routes!Status(first, second) = None
  /\ third # None => third.page = second /\ third.scope = first.scope

\* The activations there were have earlier keys, and none of them is the one there is.
RoutesLeft ==
  /\ fourth \subseteq [page : RoutePages, scope : Scopes, key : Nat]
  /\ \A a \in fourth : a.key <= Cardinality(fourth)
  /\ third # None => /\ third \in [page : RoutePages, scope : Scopes, key : Nat]
                     /\ third.key <= Cardinality(fourth) + 1 /\ third \notin fourth

\* A page that the session may open is told of as one, and no other.
LEMMA StatusSays ==
  ASSUME NEW s, s.state \in Routes!States, s.access \subseteq RoutePages, NEW p
  PROVE  Routes!Status(s, p) = None <=> Routes!Permitted(s) /\ Routes!CanAccess(s, p)
BY DEF Routes!Status, Routes!RouteAllowed, Routes!Permitted, Routes!CanAccess, Routes!States,
       PagesAssumptions

\* The pages' modules count like everyone.
LEMMA SameCount ==
  ASSUME NEW S
  PROVE  Routes!Cardinality(S) = Cardinality(S)
BY DEF Routes!Cardinality, Cardinality

\* A page is rendered for the session there is then.
LEMMA RoutesRender ==
  ASSUME RoutesInv, NEW s, DOMAIN s = {"state", "access", "scope"}, s.state \in Routes!States,
         s.access \subseteq RoutePages, s.scope \in Scopes, NEW p, Routes!Render(s, p)
  PROVE  RoutesInv'
<1>1. /\ first' = s /\ second' = p /\ third' = Routes!Activation(s, p)
      /\ fourth' = fourth \cup ({third} \ {None, Routes!Activation(s, p)})
  BY DEF Routes!Render
<1>2. IsFiniteSet(fourth') /\ Cardinality(fourth) \in Nat
  BY <1>1, FS_Singleton, FS_Union, FS_Difference, FS_CardinalityType DEF RoutesInv
<1>3. /\ third' # None <=> Routes!Status(s, p) = None
      /\ third' # None => third'.page = p /\ third'.scope = s.scope
  <2>1. CASE Routes!Status(s, p) # None
    BY <1>1, <2>1 DEF Routes!Activation
  <2>2. CASE Routes!Status(s, p) = None /\ Routes!SameScope(s, p)
    BY <1>1, <2>2 DEF Routes!Activation, Routes!SameScope, Routes!SamePage
  <2>3. CASE Routes!Status(s, p) = None /\ ~Routes!SameScope(s, p)
    <3>1. p \in RoutePages
      BY <2>3, StatusSays DEF Routes!CanAccess
    <3>2. third' = [page |-> p, scope |-> s.scope, key |-> Cardinality(fourth) + 1]
      BY <1>1, <2>3, SameCount DEF Routes!Activation
    <3>3. third' \in [page : RoutePages, scope : Scopes, key : Nat]
      BY <1>2, <3>1, <3>2
    <3> QED
      BY <2>3, <3>2, <3>3 DEF PagesAssumptions
  <2> QED
    BY <2>1, <2>2, <2>3
<1>4. Routes!Status(first', second') = Routes!Status(s, p)
  BY <1>1
<1> QED
  BY <1>1, <1>2, <1>3, <1>4 DEF RoutesInv

\* At first nothing is known of the session, and no page is mounted.
LEMMA RoutesStart ==
  ASSUME Routes!Init
  PROVE  RoutesInv /\ RoutesLeft
<1>1. PICK scope \in Scopes : first = [state |-> "loading", access |-> {}, scope |-> scope]
  BY DEF Routes!Init
<1>2. third = None /\ fourth = {} /\ first.state = "loading" /\ first.access = {}
      /\ first.scope = scope /\ DOMAIN first = {"state", "access", "scope"}
  BY <1>1 DEF Routes!Init
<1>3. Routes!Status(first, second) # None
  BY <1>2, StatusSays DEF Routes!States, Routes!Permitted
<1> QED
  BY <1>2, <1>3, FS_EmptySet DEF RoutesInv, RoutesLeft, Routes!States

\* A session as the Shell may know it.
SessionOK(s) ==
  /\ DOMAIN s = {"state", "access", "scope"} /\ s.state \in Routes!States
  /\ s.access \subseteq RoutePages /\ s.scope \in Scopes

\* Every step renders a page for an address and a session.
LEMMA RoutesRendered ==
  ASSUME RoutesInv, Routes!Next
  PROVE  \E s, p : SessionOK(s) /\ Routes!Render(s, p)
<1> USE DEF RoutesInv, SessionOK
<1>1. ASSUME NEW p, Routes!Render(first, p)
      PROVE  \E s, q : SessionOK(s) /\ Routes!Render(s, q)
  <2>1. SessionOK(first)
    OBVIOUS
  <2> QED
    BY <1>1, <2>1
<1>2. ASSUME NEW state \in Routes!States, Routes!SessionChanges(state)
      PROVE  \E s, q : SessionOK(s) /\ Routes!Render(s, q)
  <2> DEFINE s == [first EXCEPT !.state = state]
  <2>1. Routes!Render(s, second)
    BY <1>2 DEF Routes!SessionChanges
  <2>2. SessionOK(s)
    OBVIOUS
  <2> QED
    BY <2>1, <2>2
<1>3. ASSUME NEW p \in RoutePages, Routes!AccessChanges(p)
      PROVE  \E s, q : SessionOK(s) /\ Routes!Render(s, q)
  <2> DEFINE access == IF p \in first.access THEN first.access \ {p}
                       ELSE first.access \cup {p}
             s == [first EXCEPT !.access = access]
  <2>1. Routes!Render(s, second)
    BY <1>3 DEF Routes!AccessChanges
  <2>2. access \subseteq RoutePages
    OBVIOUS
  <2>3. SessionOK(s)
    <3> HIDE DEF access
    <3> QED
      BY <2>2
  <2> QED
    BY <2>1, <2>3
<1>4. ASSUME NEW scope \in Scopes, Routes!ScopeChanges(scope)
      PROVE  \E s, q : SessionOK(s) /\ Routes!Render(s, q)
  <2> DEFINE s == [first EXCEPT !.scope = scope]
  <2>1. Routes!Render(s, second)
    BY <1>4 DEF Routes!ScopeChanges
  <2>2. SessionOK(s)
    OBVIOUS
  <2> QED
    BY <2>1, <2>2
<1> HIDE DEF SessionOK, RoutesInv
<1> QED
  BY <1>1, <1>2, <1>3, <1>4 DEF Routes!Next, Routes!Follow, Routes!Type, Routes!Go

\* Whatever is rendered, the activation there was has been left, and a new one has a key
\* that none had.
LEMMA LeftRender ==
  ASSUME RoutesInv, RoutesLeft, NEW s, SessionOK(s), NEW p, Routes!Render(s, p)
  PROVE  RoutesLeft'
<1> DEFINE n == Cardinality(fourth)
           records == [page : RoutePages, scope : Scopes, key : Nat]
<1>1. /\ third' = Routes!Activation(s, p)
      /\ fourth' = fourth \cup ({third} \ {None, third'})
  BY DEF Routes!Render
<1>2. /\ IsFiniteSet(fourth) /\ n \in Nat /\ fourth \subseteq records
      /\ \A a \in fourth : a.key \in Nat /\ a.key <= n
      /\ third # None => /\ third \in records /\ third.key \in Nat
                         /\ third.key <= n + 1 /\ third \notin fourth
  BY FS_CardinalityType DEF RoutesInv, RoutesLeft
<1>3. third # None => Cardinality(fourth \cup {third}) = n + 1
  BY <1>2, FS_AddElement
<1> HIDE DEF n
<1>4. /\ fourth' \in {fourth, fourth \cup {third}}
      /\ third = None \/ third = third' => fourth' = fourth
      /\ third # None /\ third # third' => fourth' = fourth \cup {third}
  BY <1>1
<1>5. /\ fourth' \subseteq records /\ Cardinality(fourth') \in {n, n + 1}
      /\ \A a \in fourth' : a.key <= Cardinality(fourth')
  <2>1. CASE fourth' = fourth
    BY <1>2, <2>1 DEF n
  <2>2. CASE third # None /\ fourth' = fourth \cup {third}
    <3>1. fourth' \subseteq records
      BY <1>2, <2>2
    <3>2. Cardinality(fourth') = n + 1
      BY <1>3, <2>2
    <3>3. \A a \in fourth' : a.key \in Nat /\ a.key <= n + 1
      BY <1>2, <2>2
    <3> QED
      BY <3>1, <3>2, <3>3
  <2> QED
    BY <1>4, <2>1, <2>2
<1>6. CASE third' = None
  BY <1>5, <1>6 DEF RoutesLeft
<1>7. CASE third' = third
  <2>1. fourth' = fourth
    BY <1>4, <1>7
  <2> QED
    BY <1>7, <2>1 DEF RoutesLeft
<1>8. CASE third' # None /\ third' # third
  <2>1. /\ Routes!Status(s, p) = None
        /\ third' = [page |-> p, scope |-> s.scope, key |-> n + 1]
    BY <1>1, <1>8, SameCount DEF Routes!Activation, n
  <2>2. p \in RoutePages /\ s.scope \in Scopes
    BY <2>1, StatusSays DEF SessionOK, Routes!CanAccess
  <2>3. third' \in records /\ third'.key = n + 1
    BY <1>2, <2>1, <2>2
  <2>4. third' \notin fourth
    BY <1>2, <2>3
  <2> HIDE DEF records
  <2>5. third' \notin fourth'
    BY <1>4, <1>8, <2>4
  <2>6. third'.key <= Cardinality(fourth') + 1
    BY <1>2, <1>5, <2>3
  <2> QED
    BY <1>5, <2>3, <2>5, <2>6 DEF RoutesLeft, records
<1> QED
  BY <1>6, <1>7, <1>8

\* Every step of the Shell's addresses and sessions keeps both.
LEMMA RoutesSteps ==
  ASSUME RoutesInv, RoutesLeft, Routes!Next
  PROVE  RoutesInv' /\ RoutesLeft' /\ Routes!LeftPagesMoveNobody
<1>1. PICK s, p : SessionOK(s) /\ Routes!Render(s, p)
  BY RoutesRendered
<1>2. RoutesInv' /\ RoutesLeft'
  BY <1>1, RoutesRender, LeftRender DEF SessionOK
<1>3. ASSUME NEW a \in fourth, NEW q, Routes!Go(a, q)
      PROVE  FALSE
  <2>1. a = third /\ a # None
    BY <1>3 DEF Routes!Go, Routes!IsCurrent, RoutesLeft, PagesAssumptions
  <2> QED
    BY <2>1 DEF RoutesLeft
<1> QED
  BY <1>2, <1>3 DEF Routes!LeftPagesMoveNobody

\* What can be reached is open.
LEMMA ReachableIsOpen ==
  ASSUME RoutesInv, NEW set, NEW p \in Routes!Reachable(set)
  PROVE  Routes!Status(first, p) = None /\ Routes!RouteAllowed(first, p)
<1>1. Routes!Permitted(first) /\ Routes!CanAccess(first, p)
  BY DEF Routes!Reachable
<1>2. p # None
  BY <1>1 DEF Routes!CanAccess, RoutesInv, PagesAssumptions
<1> QED
  BY <1>1, <1>2, StatusSays DEF Routes!RouteAllowed, RoutesInv

\* It says what the property says: what is offered was found reachable, and a context is
\* drawn for a page that is open.
LEMMA RoutesSay ==
  ASSUME RoutesInv
  PROVE  Routes!NothingOfferedIsClosed
<1>1. third # None => /\ third.page = second /\ third.scope = first.scope
                      /\ Routes!Permitted(first) /\ Routes!CanAccess(first, second)
  BY StatusSays DEF RoutesInv
<1>2. \A p : Routes!RouteAllowed(first, p) => Routes!Status(first, p) = None
  BY StatusSays DEF RoutesInv, Routes!RouteAllowed
<1>3. \A p \in Routes!PageNavigation : p \in Routes!Reachable(Routes!Group)
  BY DEF Routes!PageNavigation, Routes!VisibleTabs
<1>4. \A p \in Routes!Offered : Routes!Status(first, p) = None
  <2>1. \A p \in Routes!Navigation \cup Routes!Entries : Routes!Status(first, p) = None
    BY ReachableIsOpen DEF Routes!Navigation, Routes!Entries
  <2>2. \A p \in Routes!PageNavigation : Routes!Status(first, p) = None
    BY <1>3, ReachableIsOpen
  <2>3. Routes!SettingsReturn => Routes!Status(first, Index) = None
    BY <1>2 DEF Routes!SettingsReturn
  <2> QED
    BY <2>1, <2>2, <2>3 DEF Routes!Offered
<1>5. Routes!Context \in {"tabs", "object", "fallback", "label"}
        => Routes!RouteAllowed(first, second)
  <2>1. Routes!Group # {} => Routes!RouteAllowed(first, second)
    BY DEF Routes!Group
  <2>2. Routes!PageNavigation # {} => Routes!RouteAllowed(first, second)
    <3>1. Routes!PageNavigation \subseteq Routes!Group
      BY <1>3 DEF Routes!Reachable
    <3> QED
      BY <2>1, <3>1
  <2>3. Routes!SettingsReturn => Routes!RouteAllowed(first, second)
    BY <2>1, ReachableIsOpen DEF Routes!SettingsReturn, Routes!Entries
  <2>4. CASE Routes!SettingsReturn \/ Routes!PageNavigation # {}
    BY <2>2, <2>3, <2>4
  <2>5. CASE ~Routes!SettingsReturn /\ Routes!PageNavigation = {}
    BY <2>5 DEF Routes!Context, PagesAssumptions
  <2> QED
    BY <2>4, <2>5
<1> QED
  BY <1>1, <1>2, <1>4, <1>5 DEF Routes!NothingOfferedIsClosed, RoutesInv

-------------------------------------------------------------------------------
(* Admitted pages.                                                             *)

\* A handoff belongs to this admission, and to the journey that it was given with,
\* under way or ended where the person is.
HandoffTravels(p) ==
  p.pending # None =>
    /\ p.pending.admission = p.admission
    /\ LET belongs(t) == /\ t # None /\ t.to = p.pending.href /\ t.value = p.pending.value
                         /\ t.admission = p.pending.admission
       IN  \/ belongs(p.travel)
           \/ belongs(p.arrived) /\ p.travel = None /\ p.pending.href = p.location

\* What holds of the admitted pages at every step.
AdmittedInv ==
  /\ DOMAIN first = {"admission", "mounts", "location", "pending", "travel", "loads", "shown",
                     "styles", "arrived", "live", "runtimes", "cached", "reading"}
  /\ first.admission \in Nat
  /\ first.live /\ Admitted!MountAt(first) # None =>
       Admitted!MountAt(first) \in first.runtimes
  /\ HandoffTravels(first)
  /\ Admitted!PagesAreTheirOwn

\* Where the person is, and under which admission, is all that a page's key depends on.
LEMMA SamePlace ==
  ASSUME NEW p, NEW q, q.location = p.location, q.mounts = p.mounts,
         q.admission = p.admission
  PROVE  /\ Admitted!MountAt(q) = Admitted!MountAt(p) /\ Admitted!Key(q) = Admitted!Key(p)
         /\ q.pending = p.pending => Admitted!HandoffFor(q) = Admitted!HandoffFor(p)
BY DEF Admitted!MountAt, Admitted!Key, Admitted!HandoffFor

\* What rendering does to each part of the page.
LEMMA RenderedParts ==
  ASSUME NEW p, NEW q, q = Admitted!Rendered(p),
         DOMAIN p = {"admission", "mounts", "location", "pending", "travel", "loads", "shown",
                     "styles", "arrived", "live", "runtimes", "cached", "reading"}
  PROVE  /\ DOMAIN q = DOMAIN p /\ q.location = p.location /\ q.mounts = p.mounts
         /\ q.admission = p.admission /\ q.travel = p.travel /\ q.arrived = p.arrived
         /\ q.live = p.live /\ q.cached = p.cached /\ q.pending = Admitted!Kept(p)
         /\ q.runtimes = IF Admitted!Standing(p) THEN p.runtimes \cup {Admitted!MountAt(p)}
                         ELSE p.runtimes
         /\ \/ q.shown = None /\ q.styles = {}
            \/ /\ q.shown = p.shown /\ q.styles = p.styles
               /\ Admitted!Standing(p) /\ Admitted!Key(p) = Admitted!Key(first)
<1> DEFINE now == [p EXCEPT !.pending = Admitted!Kept(p)]
<1>1. /\ DOMAIN now = DOMAIN p /\ now.location = p.location /\ now.mounts = p.mounts
      /\ now.admission = p.admission /\ now.travel = p.travel /\ now.arrived = p.arrived
      /\ now.live = p.live /\ now.cached = p.cached /\ now.pending = Admitted!Kept(p)
      /\ now.runtimes = p.runtimes /\ now.shown = p.shown /\ now.styles = p.styles
  OBVIOUS
<1>2. q = IF ~Admitted!Standing(p) THEN Admitted!Unmounted(now)
          ELSE IF Admitted!Key(p) = Admitted!Key(first) THEN Admitted!Mounted(now)
          ELSE Admitted!Mounted([Admitted!Unmounted(now)
                                 EXCEPT !.loads = @ \cup {Admitted!Key(p)}])
  BY DEF Admitted!Rendered
<1>3. Admitted!MountAt(now) = Admitted!MountAt(p)
  BY <1>1, SamePlace
<1> HIDE DEF now
<1>4. CASE ~Admitted!Standing(p)
  BY <1>1, <1>2, <1>4 DEF Admitted!Unmounted
<1>5. CASE Admitted!Standing(p) /\ Admitted!Key(p) = Admitted!Key(first)
  BY <1>1, <1>2, <1>3, <1>5 DEF Admitted!Mounted
<1>6. CASE Admitted!Standing(p) /\ Admitted!Key(p) # Admitted!Key(first)
  <2> DEFINE gone == Admitted!Unmounted(now)
             asked == [gone EXCEPT !.loads = @ \cup {Admitted!Key(p)}]
  <2>1. /\ DOMAIN gone = DOMAIN p /\ gone.location = p.location /\ gone.mounts = p.mounts
        /\ gone.admission = p.admission /\ gone.travel = p.travel /\ gone.arrived = p.arrived
        /\ gone.live = p.live /\ gone.cached = p.cached /\ gone.pending = Admitted!Kept(p)
        /\ gone.runtimes = p.runtimes /\ gone.shown = None /\ gone.styles = {}
    BY <1>1 DEF Admitted!Unmounted
  <2> HIDE DEF gone
  <2>2. /\ DOMAIN asked = DOMAIN p /\ asked.location = p.location /\ asked.mounts = p.mounts
        /\ asked.admission = p.admission /\ asked.travel = p.travel
        /\ asked.arrived = p.arrived
        /\ asked.live = p.live /\ asked.cached = p.cached /\ asked.pending = Admitted!Kept(p)
        /\ asked.runtimes = p.runtimes /\ asked.shown = None /\ asked.styles = {}
    BY <2>1
  <2>3. q = Admitted!Mounted(asked)
    BY <1>2, <1>6 DEF gone
  <2>4. Admitted!MountAt(asked) = Admitted!MountAt(p)
    BY <2>2, SamePlace
  <2> HIDE DEF asked
  <2> QED
    BY <1>6, <2>2, <2>3, <2>4 DEF Admitted!Mounted
<1> QED
  BY <1>4, <1>5, <1>6

\* A handoff is kept only where it was given for.
LEMMA KeptIsHere ==
  ASSUME NEW p, Admitted!Kept(p) # None
  PROVE  /\ Admitted!Kept(p) = p.pending /\ Admitted!MountAt(p) # None
         /\ p.pending.admission = p.admission /\ p.pending.href = p.location
BY DEF Admitted!Kept, Admitted!KeepMatching, Admitted!HandoffFor

\* Where a handoff is received its value was sent.
LEMMA HandoffCame ==
  ASSUME NEW p, HandoffTravels(p), Admitted!HandoffFor(p) # None
  PROVE  LET came == p.arrived IN
         \/ p.travel # None /\ p.travel.to = p.location
         \/ /\ came # None /\ came.value = Admitted!HandoffFor(p)
            /\ came.to = p.location /\ came.admission = p.admission
BY DEF HandoffTravels, Admitted!HandoffFor

\* A page that is rendered is right, if the runtimes and the journey it is given are.
LEMMA AdmittedRenders ==
  ASSUME AdmittedInv, NEW p, DOMAIN p = DOMAIN first, first' = Admitted!Rendered(p),
         p.admission \in Nat, p.shown = first.shown, p.styles = first.styles,
         \A key \in p.cached : /\ p.live /\ key.admission = p.admission
                               /\ key.mount \in p.runtimes,
         Admitted!Kept(p) # None => HandoffTravels(p)
  PROVE  AdmittedInv'
<1>1. /\ DOMAIN first' = DOMAIN p /\ first'.location = p.location /\ first'.mounts = p.mounts
      /\ first'.admission = p.admission /\ first'.travel = p.travel
      /\ first'.arrived = p.arrived
      /\ first'.live = p.live /\ first'.cached = p.cached
      /\ first'.pending = Admitted!Kept(p)
      /\ first'.runtimes = IF Admitted!Standing(p)
                           THEN p.runtimes \cup {Admitted!MountAt(p)} ELSE p.runtimes
      /\ \/ first'.shown = None /\ first'.styles = {}
         \/ /\ first'.shown = p.shown /\ first'.styles = p.styles
            /\ Admitted!Standing(p) /\ Admitted!Key(p) = Admitted!Key(first)
  <2>1. DOMAIN p = {"admission", "mounts", "location", "pending", "travel", "loads", "shown",
                    "styles", "arrived", "live", "runtimes", "cached", "reading"}
    BY DEF AdmittedInv
  <2> QED
    BY <2>1, RenderedParts
<1>2. /\ Admitted!MountAt(first') = Admitted!MountAt(p)
      /\ Admitted!Key(first') = Admitted!Key(p)
  BY <1>1, SamePlace
<1>3. HandoffTravels(first')
  <2>1. CASE Admitted!Kept(p) = None
    BY <1>1, <2>1 DEF HandoffTravels
  <2>2. CASE Admitted!Kept(p) # None
    BY <1>1, <2>2, KeptIsHere DEF HandoffTravels
  <2> QED
    BY <2>1, <2>2
<1>4. Admitted!HandoffFor(first') # None =>
        LET came == first'.arrived IN
          \/ first'.travel # None /\ first'.travel.to = first'.location
          \/ /\ came # None /\ came.value = Admitted!HandoffFor(first')
             /\ came.to = first'.location /\ came.admission = first'.admission
  BY <1>3, HandoffCame
<1>5. first'.live /\ Admitted!MountAt(first') # None =>
        Admitted!MountAt(first') \in first'.runtimes
  BY <1>1, <1>2 DEF Admitted!Standing
<1>6. /\ first'.shown # None => first'.shown = Admitted!Key(first')
      /\ first'.styles \subseteq {Admitted!Key(first')}
      /\ first'.live /\ first'.shown # None => first'.shown.mount \in first'.runtimes
  <2>1. /\ first.shown # None => first.shown = Admitted!Key(first)
        /\ first.styles \subseteq {Admitted!Key(first)}
    BY DEF AdmittedInv, Admitted!PagesAreTheirOwn
  <2>2. Admitted!Key(p).mount = Admitted!MountAt(p)
    BY DEF Admitted!Key
  <2> QED
    BY <1>1, <1>2, <2>1, <2>2
<1>7. \A key \in first'.cached : /\ first'.live /\ key.admission = first'.admission
                                 /\ key.mount \in first'.runtimes
  BY <1>1
<1> QED
  BY <1>1, <1>3, <1>4, <1>5, <1>6, <1>7 DEF AdmittedInv, Admitted!PagesAreTheirOwn

\* A step that leaves the place, the runtimes and what is shown alone.
LEMMA AdmittedStays ==
  ASSUME AdmittedInv, DOMAIN first' = DOMAIN first, first'.location = first.location,
         first'.mounts = first.mounts, first'.admission = first.admission,
         first'.live = first.live, first'.runtimes = first.runtimes,
         first'.arrived = first.arrived, HandoffTravels(first'),
         \A key \in first'.cached : key \in first.cached \/
           (first.live /\ key = Admitted!Key(first) /\ key.mount # None),
         first'.shown = first.shown \/
           (Admitted!MountAt(first) # None /\ first'.shown = Admitted!Key(first)),
         first'.styles \subseteq first.styles \cup {Admitted!Key(first)}
  PROVE  AdmittedInv'
<1>1. /\ Admitted!MountAt(first') = Admitted!MountAt(first)
      /\ Admitted!Key(first') = Admitted!Key(first)
  BY SamePlace
<1>2. /\ Admitted!Key(first).mount = Admitted!MountAt(first)
      /\ Admitted!Key(first).admission = first.admission
  BY DEF Admitted!Key
<1>3. Admitted!HandoffFor(first') # None =>
        LET came == first'.arrived IN
          \/ first'.travel # None /\ first'.travel.to = first'.location
          \/ /\ came # None /\ came.value = Admitted!HandoffFor(first')
             /\ came.to = first'.location /\ came.admission = first'.admission
  BY HandoffCame
<1>4. /\ first'.live /\ Admitted!MountAt(first') # None =>
           Admitted!MountAt(first') \in first'.runtimes
      /\ first'.shown # None => first'.shown = Admitted!Key(first')
      /\ first'.styles \subseteq {Admitted!Key(first')}
      /\ first'.live /\ first'.shown # None => first'.shown.mount \in first'.runtimes
  BY <1>1, <1>2 DEF AdmittedInv, Admitted!PagesAreTheirOwn
<1>5. \A key \in first'.cached : /\ first'.live /\ key.admission = first'.admission
                                 /\ key.mount \in first'.runtimes
  BY <1>1, <1>2 DEF AdmittedInv, Admitted!PagesAreTheirOwn
<1> QED
  BY <1>3, <1>4, <1>5 DEF AdmittedInv, Admitted!PagesAreTheirOwn

\* At first nobody is admitted.
LEMMA AdmittedStarts ==
  ASSUME Admitted!Init
  PROVE  AdmittedInv
<1>1. /\ DOMAIN first = {"admission", "mounts", "location", "pending", "travel", "loads",
                         "shown", "styles", "arrived", "live", "runtimes", "cached",
                         "reading"}
      /\ first.admission = 0 /\ first.pending = None /\ first.live = FALSE
      /\ first.shown = None /\ first.styles = {} /\ first.cached = {}
  BY DEF Admitted!Init
<1>2. Admitted!HandoffFor(first) = None
  BY <1>1 DEF Admitted!HandoffFor
<1> QED
  BY <1>1, <1>2 DEF AdmittedInv, HandoffTravels, Admitted!PagesAreTheirOwn

\* An admission retires with all its runtimes.
LEMMA AdmittedRetires ==
  ASSUME AdmittedInv, Admitted!Retire
  PROVE  AdmittedInv'
<1>1. /\ DOMAIN first' = DOMAIN first /\ first'.location = first.location
      /\ first'.mounts = first.mounts /\ first'.admission = first.admission
      /\ first'.travel = first.travel /\ first'.arrived = first.arrived
      /\ first'.pending = first.pending /\ first'.live = FALSE /\ first'.cached = {}
      /\ first'.shown = first.shown /\ first'.styles = first.styles
  BY DEF Admitted!Retire, Admitted!Retired, AdmittedInv
<1>2. /\ Admitted!MountAt(first') = Admitted!MountAt(first)
      /\ Admitted!Key(first') = Admitted!Key(first)
      /\ Admitted!HandoffFor(first') = Admitted!HandoffFor(first)
  BY <1>1, SamePlace
<1>3. HandoffTravels(first')
  BY <1>1 DEF AdmittedInv, HandoffTravels
<1> QED
  BY <1>1, <1>2, <1>3 DEF AdmittedInv, Admitted!PagesAreTheirOwn

\* Another admission ends the one before, with its handoffs.
LEMMA AdmittedAdmits ==
  ASSUME AdmittedInv, NEW mounts, Admitted!Admit(mounts)
  PROVE  AdmittedInv'
<1> DEFINE p == [Admitted!Retired(first) EXCEPT !.admission = @ + 1, !.mounts = mounts,
                                               !.live = TRUE]
<1>1. first' = Admitted!Rendered(p)
  BY DEF Admitted!Admit
<1>2. /\ DOMAIN p = DOMAIN first /\ p.admission = first.admission + 1
      /\ p.shown = first.shown /\ p.styles = first.styles /\ p.cached = {}
      /\ p.pending = first.pending
  BY DEF Admitted!Retired, AdmittedInv
<1> HIDE DEF p
<1>3. Admitted!Kept(p) = None
  BY <1>2, KeptIsHere DEF AdmittedInv, HandoffTravels
<1> QED
  BY <1>1, <1>2, <1>3, AdmittedRenders DEF AdmittedInv

\* Who signs out leaves every page.
LEMMA AdmittedSignsOut ==
  ASSUME AdmittedInv, Admitted!SignOut
  PROVE  AdmittedInv'
<1> DEFINE p == [Admitted!Retired(first) EXCEPT !.mounts = {}]
<1>1. first' = Admitted!Rendered(p)
  BY DEF Admitted!SignOut
<1>2. /\ DOMAIN p = DOMAIN first /\ p.admission = first.admission /\ p.mounts = {}
      /\ p.shown = first.shown /\ p.styles = first.styles /\ p.cached = {}
  BY DEF Admitted!Retired, AdmittedInv
<1> HIDE DEF p
<1>3. Admitted!Kept(p) = None
  BY <1>2, KeptIsHere DEF Admitted!MountAt
<1> QED
  BY <1>1, <1>2, <1>3, AdmittedRenders DEF AdmittedInv

\* A journey ends where it was going, or the person goes elsewhere.
LEMMA AdmittedGoes ==
  ASSUME AdmittedInv, NEW location, NEW arrived,
         first' = Admitted!Rendered([first EXCEPT !.location = location, !.travel = None,
                                                  !.arrived = arrived]),
         \/ first.travel # None /\ location = first.travel.to /\ arrived = first.travel
         \/ location # first.location /\ ~(first.travel # None /\ first.travel.to = location)
  PROVE  AdmittedInv'
<1> DEFINE p == [first EXCEPT !.location = location, !.travel = None, !.arrived = arrived]
<1>1. first' = Admitted!Rendered(p)
  OBVIOUS
<1>2. /\ DOMAIN p = DOMAIN first /\ p.admission = first.admission
      /\ p.shown = first.shown /\ p.styles = first.styles /\ p.cached = first.cached
      /\ p.live = first.live /\ p.runtimes = first.runtimes
      /\ p.pending = first.pending /\ p.travel = None /\ p.arrived = arrived
      /\ p.location = location
  BY DEF AdmittedInv
<1> HIDE DEF p
<1>3. Admitted!Kept(p) # None => HandoffTravels(p)
  <2> SUFFICES ASSUME Admitted!Kept(p) # None
               PROVE  HandoffTravels(p)
    OBVIOUS
  <2>1. first.pending # None /\ first.pending.href = location
    BY <1>2, KeptIsHere
  <2> QED
    BY <1>2, <2>1 DEF AdmittedInv, HandoffTravels
<1> QED
  BY <1>1, <1>2, <1>3, AdmittedRenders DEF AdmittedInv, Admitted!PagesAreTheirOwn

\* Pages go nowhere that they have nothing to hand over to.
LEMMA AdmittedTravels ==
  ASSUME AdmittedInv, NEW to \in Admitted!Locations, NEW value \in {None, "handoff"}, NEW pending,
         \/ pending = None
         \/ pending = [admission |-> first.admission, href |-> to, value |-> value],
         Admitted!Travel(to, value, pending)
  PROVE  AdmittedInv'
<1> DEFINE travel == [to |-> to, value |-> value, admission |-> first.admission]
<1>1. first' = [f \in DOMAIN first |->
                  IF f \in {"pending", "travel"}
                  THEN [pending |-> pending, travel |-> travel][f] ELSE first[f]]
  BY DEF Admitted!Travel, Admitted!Set
<1>2. travel # None /\ travel.to = to /\ travel.value = value
      /\ travel.admission = first.admission
  BY DEF AdmittedInv, PagesAssumptions
<1> HIDE DEF travel
<1>3. /\ DOMAIN first' = DOMAIN first /\ first'.location = first.location
      /\ first'.mounts = first.mounts /\ first'.admission = first.admission
      /\ first'.live = first.live /\ first'.runtimes = first.runtimes
      /\ first'.arrived = first.arrived /\ first'.cached = first.cached
      /\ first'.shown = first.shown /\ first'.styles = first.styles
      /\ first'.pending = pending /\ first'.travel = travel
  BY <1>1 DEF AdmittedInv
<1>4. HandoffTravels(first')
  BY <1>2, <1>3 DEF HandoffTravels
<1> QED
  BY <1>3, <1>4, AdmittedStays

\* A module that has loaded is shown where it is still asked for.
LEMMA AdmittedLoads ==
  ASSUME AdmittedInv, NEW key, Admitted!Loaded(key) \/ Admitted!NotLoaded(key)
  PROVE  AdmittedInv'
<1>1. \/ first' = [f \in DOMAIN first |->
                     IF f \in {"loads"} THEN [loads |-> first.loads \ {key}][f] ELSE first[f]]
      \/ /\ Admitted!StillActive(key)
         /\ first' = [f \in DOMAIN first |->
              IF f \in {"loads", "shown", "styles"}
              THEN [loads |-> first.loads \ {key}, shown |-> key,
                    styles |-> first.styles \cup {key}][f] ELSE first[f]]
  BY DEF Admitted!Loaded, Admitted!NotLoaded, Admitted!Set
<1>2. Admitted!StillActive(key) => key = Admitted!Key(first) /\ Admitted!MountAt(first) # None
  BY DEF Admitted!StillActive, Admitted!Active, Admitted!Live, Admitted!Key
<1>3. /\ DOMAIN first' = DOMAIN first /\ first'.location = first.location
      /\ first'.mounts = first.mounts /\ first'.admission = first.admission
      /\ first'.live = first.live /\ first'.runtimes = first.runtimes
      /\ first'.arrived = first.arrived /\ first'.cached = first.cached
      /\ first'.pending = first.pending /\ first'.travel = first.travel
      /\ \/ first'.shown = first.shown /\ first'.styles = first.styles
         \/ /\ first'.shown = Admitted!Key(first) /\ Admitted!MountAt(first) # None
            /\ first'.styles = first.styles \cup {Admitted!Key(first)}
  BY <1>1, <1>2 DEF AdmittedInv
<1>4. HandoffTravels(first')
  BY <1>3 DEF AdmittedInv, HandoffTravels
<1> QED
  BY <1>3, <1>4, AdmittedStays

\* What a page reads is kept by the runtime that it is of.
LEMMA AdmittedReads ==
  ASSUME AdmittedInv, (\E key : Admitted!Read(key)) \/ Admitted!ReadAnswers
  PROVE  AdmittedInv'
<1>1. \/ \E key : first' = [f \in DOMAIN first |->
                     IF f \in {"reading"} THEN [reading |-> key][f] ELSE first[f]]
      \/ \E keys :
           /\ \A key \in keys : Admitted!Live(key)
           /\ first' = [f \in DOMAIN first |->
                IF f \in {"reading", "cached"}
                THEN [reading |-> None, cached |-> first.cached \cup keys][f] ELSE first[f]]
  <2>1. CASE \E key : Admitted!Read(key)
    <3>1. PICK key : Admitted!Read(key)
      BY <2>1
    <3>2. first' = [f \in DOMAIN first |->
                     IF f \in {"reading"} THEN [reading |-> key][f] ELSE first[f]]
      BY <3>1 DEF Admitted!Read, Admitted!Set
    <3> QED
      BY <3>2
  <2>2. CASE Admitted!ReadAnswers
    <3> DEFINE keys == IF Admitted!Live(first.reading) THEN {first.reading} ELSE {}
    <3>1. first' = [f \in DOMAIN first |->
                IF f \in {"reading", "cached"}
                THEN [reading |-> None, cached |-> first.cached \cup keys][f] ELSE first[f]]
      BY <2>2 DEF Admitted!ReadAnswers, Admitted!Set
    <3>2. \A key \in keys : Admitted!Live(key)
      OBVIOUS
    <3> HIDE DEF keys
    <3> QED
      BY <3>1, <3>2
  <2> QED
    BY <2>1, <2>2
<1>2. \A key : Admitted!Live(key) =>
        first.live /\ key = Admitted!Key(first) /\ key.mount # None
  BY DEF Admitted!Live
<1>3. /\ DOMAIN first' = DOMAIN first /\ first'.location = first.location
      /\ first'.mounts = first.mounts /\ first'.admission = first.admission
      /\ first'.live = first.live /\ first'.runtimes = first.runtimes
      /\ first'.arrived = first.arrived
      /\ first'.pending = first.pending /\ first'.travel = first.travel
      /\ first'.shown = first.shown /\ first'.styles = first.styles
      /\ \A key \in first'.cached : key \in first.cached \/
           (first.live /\ key = Admitted!Key(first) /\ key.mount # None)
  <2>1. CASE \E key : first' = [f \in DOMAIN first |->
                     IF f \in {"reading"} THEN [reading |-> key][f] ELSE first[f]]
    BY <2>1 DEF AdmittedInv
  <2>2. CASE ~\E key : first' = [f \in DOMAIN first |->
                     IF f \in {"reading"} THEN [reading |-> key][f] ELSE first[f]]
    <3>1. PICK keys :
           /\ \A key \in keys : Admitted!Live(key)
           /\ first' = [f \in DOMAIN first |->
                IF f \in {"reading", "cached"}
                THEN [reading |-> None, cached |-> first.cached \cup keys][f] ELSE first[f]]
      BY <1>1, <2>2
    <3>2. /\ DOMAIN first' = DOMAIN first /\ first'.cached = first.cached \cup keys
          /\ first'.location = first.location
          /\ first'.mounts = first.mounts /\ first'.admission = first.admission
          /\ first'.live = first.live /\ first'.runtimes = first.runtimes
          /\ first'.arrived = first.arrived
          /\ first'.pending = first.pending /\ first'.travel = first.travel
          /\ first'.shown = first.shown /\ first'.styles = first.styles
      BY <3>1 DEF AdmittedInv
    <3> QED
      BY <1>2, <3>1, <3>2
  <2> QED
    BY <2>1, <2>2
<1>4. HandoffTravels(first')
  BY <1>3 DEF AdmittedInv, HandoffTravels
<1> QED
  BY <1>3, <1>4, AdmittedStays

\* It says what the property says.
LEMMA AdmittedSays ==
  ASSUME AdmittedInv
  PROVE  Admitted!PagesAreTheirOwn
BY DEF AdmittedInv

\* Every step of admissions and their pages keeps it.
LEMMA AdmittedSteps ==
  ASSUME AdmittedInv, Admitted!Next
  PROVE  AdmittedInv'
<1>1. CASE Admitted!Refresh
  BY <1>1, AdmittedAdmits DEF Admitted!Refresh
<1>2. CASE Admitted!Arrive
  BY <1>2, AdmittedGoes DEF Admitted!Arrive
<1>3. ASSUME NEW location \in Admitted!Locations, Admitted!Visit(location)
      PROVE  AdmittedInv'
  BY <1>3, AdmittedGoes DEF Admitted!Visit
<1>4. ASSUME NEW key \in Admitted!Keys, NEW segment \in Segments, Admitted!Go(key, segment)
      PROVE  AdmittedInv'
  <2>1. <<key.mount, segment>> \in Admitted!Locations
    BY DEF Admitted!Keys, Admitted!Locations, Admitted!Hrefs
  <2> QED
    BY <1>4, <2>1, AdmittedTravels DEF Admitted!Go
<1>5. ASSUME NEW key \in Admitted!Keys, Admitted!OpenSettings(key)
      PROVE  AdmittedInv'
  BY <1>5, AdmittedTravels DEF Admitted!OpenSettings, Admitted!Locations
<1>6. ASSUME NEW key \in Admitted!Keys, NEW href \in Admitted!Hrefs,
             NEW value \in {None, "handoff"}, Admitted!OpenWorkspace(key, href, value)
      PROVE  AdmittedInv'
  <2>1. href \in Admitted!Locations
    BY DEF Admitted!Locations
  <2>2. PICK pending :
          /\ Admitted!Travel(href, value, pending)
          /\ \/ pending = None
             \/ pending = [admission |-> first.admission, href |-> href, value |-> value]
    BY <1>6 DEF Admitted!OpenWorkspace
  <2> QED
    BY <2>1, <2>2, AdmittedTravels
<1> QED
  BY <1>1, <1>2, <1>3, <1>4, <1>5, <1>6, AdmittedAdmits, AdmittedSignsOut, AdmittedRetires,
     AdmittedLoads, AdmittedReads DEF Admitted!Next

-------------------------------------------------------------------------------
(* The audit page.                                                             *)

\* A read of records, or of one record; one of a record that is still waited for is of
\* the record that was asked for last.
AuditReadOK(r, asked) ==
  \/ /\ DOMAIN r = {"kind", "event", "late"} /\ r.kind = "get"
     /\ ~r.late => r.event = asked
  \/ /\ DOMAIN r = {"kind", "filter", "cursor", "late"} /\ r.kind = "query"
     /\ r.filter \in Filters /\ r.cursor \in Nat

\* The page shows what its last question was answered with.
AuditInv ==
  /\ DOMAIN first = {"page", "filter", "cursor", "pending", "open", "asked", "detail", "error"}
  /\ first.filter \in Filters /\ first.cursor \in Nat
  /\ \A r \in second : AuditReadOK(r, first.asked)
  /\ Lists!ShowsWhatWasAsked

\* It says what the property says.
LEMMA AuditSays ==
  ASSUME AuditInv
  PROVE  Lists!ShowsWhatWasAsked
BY DEF AuditInv

\* At first the records are asked for.
LEMMA AuditStarts ==
  ASSUME Lists!AuditInit
  PROVE  AuditInv
<1>1. /\ DOMAIN first = {"page", "filter", "cursor", "pending", "open", "asked", "detail",
                         "error"}
      /\ first.page = None /\ first.filter = NoFilter /\ first.cursor = 0
      /\ first.open = FALSE
  BY DEF Lists!AuditInit
<1>2. second = {[kind |-> "query", filter |-> NoFilter, cursor |-> 0, late |-> FALSE]}
  BY DEF Lists!AuditInit, Lists!List
<1>3. \A r \in second : AuditReadOK(r, first.asked)
  BY <1>2 DEF AuditReadOK, PagesAssumptions, Lists!PagesAssumption
<1> QED
  BY <1>1, <1>3 DEF AuditInv, Lists!ShowsWhatWasAsked, PagesAssumptions,
                    Lists!PagesAssumption

\* A read that is given up says nothing any more.
LEMMA AuditGivesUp ==
  ASSUME NEW r, NEW asked, AuditReadOK(r, asked), NEW other
  PROVE  /\ AuditReadOK(Lists!Late(r), other)
         /\ r.kind # "get" => AuditReadOK(r, other)
<1>1. /\ DOMAIN Lists!Late(r) = DOMAIN r
      /\ "late" \in DOMAIN r => Lists!Late(r).late = TRUE
      /\ \A f \in DOMAIN r : f # "late" => Lists!Late(r)[f] = r[f]
  BY DEF Lists!Late
<1> QED
  BY <1>1 DEF AuditReadOK

\* The records are asked for anew.
LEMMA AuditLoads ==
  ASSUME AuditInv, NEW filter \in Filters, NEW cursor \in Nat,
         Lists!LoadRecords(filter, cursor)
  PROVE  AuditInv'
<1>1. /\ DOMAIN first' = DOMAIN first /\ first'.filter = first.filter
      /\ first'.cursor = first.cursor /\ first'.page = None /\ first'.open = FALSE
      /\ first'.asked = first.asked
  BY DEF Lists!LoadRecords, AuditInv
<1>2. second' = {Lists!Late(r) : r \in second} \cup {Lists!List(filter, cursor)}
  BY DEF Lists!LoadRecords
<1>3. AuditReadOK(Lists!List(filter, cursor), first.asked)
  BY DEF Lists!List, AuditReadOK
<1>4. \A r \in second' : AuditReadOK(r, first.asked)
  BY <1>2, <1>3, AuditGivesUp DEF AuditInv
<1> QED
  BY <1>1, <1>4 DEF AuditInv, Lists!ShowsWhatWasAsked

\* A record is asked for.
LEMMA AuditInspects ==
  ASSUME AuditInv, NEW event, Lists!Inspect(event), first.page # None
  PROVE  AuditInv'
<1>1. /\ DOMAIN first' = DOMAIN first /\ first'.filter = first.filter
      /\ first'.cursor = first.cursor /\ first'.page = first.page
      /\ first'.asked = event /\ first'.detail = None
  BY DEF Lists!Inspect, AuditInv
<1>2. second' = {IF r.kind = "get" THEN Lists!Late(r) ELSE r : r \in second}
                  \cup {Lists!Get(event)}
  BY DEF Lists!Inspect
<1>3. AuditReadOK(Lists!Get(event), event)
  BY DEF Lists!Get, AuditReadOK
<1>4. \A r \in second' : AuditReadOK(r, event)
  BY <1>2, <1>3, AuditGivesUp DEF AuditInv
<1> QED
  BY <1>1, <1>4 DEF AuditInv, Lists!ShowsWhatWasAsked

\* The record is closed.
LEMMA AuditCloses ==
  ASSUME AuditInv, Lists!Close
  PROVE  AuditInv'
<1>1. /\ DOMAIN first' = DOMAIN first /\ first'.filter = first.filter
      /\ first'.cursor = first.cursor /\ first'.page = first.page
      /\ first'.asked = first.asked /\ first'.open = FALSE
  BY DEF Lists!Close, AuditInv
<1>2. second' = {IF r.kind = "get" THEN Lists!Late(r) ELSE r : r \in second}
  BY DEF Lists!Close
<1>3. \A r \in second' : AuditReadOK(r, first.asked)
  BY <1>2, AuditGivesUp DEF AuditInv
<1> QED
  BY <1>1, <1>3 DEF AuditInv, Lists!ShowsWhatWasAsked

\* A read is answered, in time or not.
LEMMA AuditAnswers ==
  ASSUME AuditInv, NEW r \in second, Lists!RecordsAnswer(r)
  PROVE  AuditInv'
<1>1. second' = second \ {r} /\ AuditReadOK(r, first.asked)
  BY DEF Lists!RecordsAnswer, AuditInv
<1>2. CASE first' = first
  BY <1>1, <1>2 DEF AuditInv, Lists!ShowsWhatWasAsked
<1>3. CASE r.kind = "get" /\ ~r.late /\ first' = [first EXCEPT !.detail = r.event]
  <2>1. /\ DOMAIN first' = DOMAIN first /\ first'.filter = first.filter
        /\ first'.cursor = first.cursor /\ first'.page = first.page
        /\ first'.asked = first.asked /\ first'.open = first.open
        /\ first'.detail = r.event
    BY <1>3 DEF AuditInv
  <2>2. r.event = first.asked
    BY <1>1, <1>3 DEF AuditReadOK
  <2> QED
    BY <1>1, <2>1, <2>2 DEF AuditInv, Lists!ShowsWhatWasAsked
<1>4. CASE /\ r.kind # "get"
           /\ first' = [first EXCEPT !.page = [filter |-> r.filter, cursor |-> r.cursor],
                                     !.filter = r.filter, !.cursor = r.cursor,
                                     !.pending = FALSE]
  <2>1. r.filter \in Filters /\ r.cursor \in Nat
    BY <1>1, <1>4 DEF AuditReadOK
  <2>2. /\ DOMAIN first' = DOMAIN first /\ first'.filter = r.filter
        /\ first'.cursor = r.cursor /\ first'.page = [filter |-> r.filter, cursor |-> r.cursor]
        /\ first'.asked = first.asked /\ first'.open = first.open
        /\ first'.detail = first.detail
    BY <1>4 DEF AuditInv
  <2>3. first'.page # None
    BY <2>1, <2>2 DEF PagesAssumptions
  <2> QED
    BY <1>1, <2>1, <2>2, <2>3 DEF AuditInv, Lists!ShowsWhatWasAsked
<1>5. CASE first' = [first EXCEPT !.error = TRUE, !.pending = FALSE]
  <2>1. /\ DOMAIN first' = DOMAIN first /\ first'.filter = first.filter
        /\ first'.cursor = first.cursor /\ first'.page = first.page
        /\ first'.asked = first.asked /\ first'.open = first.open
        /\ first'.detail = first.detail
    BY <1>5 DEF AuditInv
  <2> QED
    BY <1>1, <2>1 DEF AuditInv, Lists!ShowsWhatWasAsked
<1> QED
  BY <1>2, <1>3, <1>4, <1>5 DEF Lists!RecordsAnswer, Lists!Timely

\* Every step of the audit page keeps it.
LEMMA AuditSteps ==
  ASSUME AuditInv, Lists!AuditNext
  PROVE  AuditInv'
<1>1. ASSUME NEW filter \in Filters, Lists!Apply(filter)
      PROVE  AuditInv'
  BY <1>1, AuditLoads DEF Lists!Apply
<1>2. CASE Lists!FirstPage
  BY <1>2, AuditLoads DEF Lists!FirstPage, AuditInv
<1>3. CASE Lists!NextPage
  BY <1>3, AuditLoads DEF Lists!NextPage, AuditInv
<1>4. ASSUME NEW event \in Records, Lists!InspectRow(event) \/ Lists!InspectRelated(event)
      PROVE  AuditInv'
  <2>1. Lists!Inspect(event) /\ first.page # None
    BY <1>4 DEF Lists!InspectRow, Lists!InspectRelated, AuditInv, Lists!ShowsWhatWasAsked
  <2> QED
    BY <2>1, AuditInspects
<1> QED
  BY <1>1, <1>2, <1>3, <1>4, AuditCloses, AuditAnswers DEF Lists!AuditNext

-------------------------------------------------------------------------------
(* The Auth pages.                                                             *)

\* The records and the page.
AuthTyped ==
  /\ first \in [Authorizing!Ids -> [revision : Nat, revoked : BOOLEAN]]
  /\ DOMAIN second = {"view", "id", "mount", "load", "seen", "rows", "selected", "inspected",
                      "asked", "outcome", "query", "went"}
  /\ second.view \in Authorizing!Views /\ second.id \in Authorizing!Subject(second.view)
  /\ second.mount \in Nat /\ second.rows \in Nat
  /\ second.load \in {"loading", "error", "ready"}
  /\ second.inspected # None =>
       DOMAIN second.inspected = {"id", "revoked"} /\ second.inspected.id \in Authorizing!Ids

\* What the page p shows of the records r; a page that is not ready has nothing on it.
AuthShows(p, r) ==
  /\ p.load # "ready" => /\ p.asked = None /\ p.selected = {}
                         /\ p.outcome = "idle" /\ p.inspected = None
  /\ p.view = "session" /\ p.load = "ready" =>
       /\ p.seen \in [revision : Nat, revoked : BOOLEAN]
       /\ p.seen.revoked => r[p.id].revoked
       /\ p.asked # None => p.asked.revision = p.seen.revision
       /\ p.outcome = "revoked" => r[p.id].revoked
  /\ p.went # None => p.went = p.id

\* A call is about what its page shows, and a read is of the page there is.
AuthCall(c, p, r) ==
  /\ DOMAIN c = {"kind", "id", "revision", "mount", "done", "lost"}
  /\ c.kind \in Authorizing!Reads \cup Authorizing!Writes /\ c.lost \in BOOLEAN
  /\ c.mount \in Nat /\ c.mount <= p.mount
  /\ c.kind \in Authorizing!Reads => c.mount = p.mount /\ ~c.lost
  /\ c.kind \in {"revoke", "disconnect"} => c.id \in Authorizing!Ids
  /\ c.kind = "revoke" /\ c.done = "changed" => r[c.id].revoked
  /\ c.mount = p.mount =>
       /\ c.kind = "load" => p.load = "loading"
       /\ c.kind = "more" => p.view = "sessions"
       /\ c.kind = "revoke" => p.view = "session" /\ c.id = p.id
       /\ c.kind \in {"approve", "deny"} => p.view = "consent" /\ c.id = p.id
       /\ c.kind \in {"disconnect", "refresh"} => p.view = "applications"
       /\ c.kind \in {"disconnect", "refresh"} /\ ~c.lost => p.inspected # None
       /\ c.kind # "load" /\ ~c.lost => p.outcome = "running"
       /\ c.kind = "revoke" /\ c.lost => p.outcome = "error"

\* The page waits for one call at a time, and while it waits there is one.
AuthWaits ==
  /\ \A c, d \in third :
       c.mount = second.mount /\ d.mount = second.mount /\ ~c.lost /\ ~d.lost => c = d
  /\ second.outcome = "running" =>
       \E c \in third : c.mount = second.mount /\ c.kind # "load" /\ ~c.lost

\* What holds of the Auth pages at every step.
AuthInv ==
  /\ AuthTyped /\ AuthShows(second, first) /\ (\A c \in third : AuthCall(c, second, first))
  /\ AuthWaits /\ Authorizing!AsksAboutWhatIsOpen

\* It says what the property says.
LEMMA AuthSays ==
  ASSUME AuthInv
  PROVE  Authorizing!AsksAboutWhatIsOpen
BY DEF AuthInv

\* At first the page asks for what it shows.
LEMMA AuthStarts ==
  ASSUME Authorizing!Init
  PROVE  AuthInv
<1>1. first \in [Authorizing!Ids -> [revision : Nat, revoked : BOOLEAN]]
  BY DEF Authorizing!Init
<1>2. PICK view \in Authorizing!Views : \E id \in Authorizing!Subject(view) :
        second = Authorizing!Fresh(view, id, 1)
  BY DEF Authorizing!Init
<1>3. PICK id \in Authorizing!Subject(view) : second = Authorizing!Fresh(view, id, 1)
  BY <1>2
<1>4. /\ DOMAIN second = {"view", "id", "mount", "load", "seen", "rows", "selected",
                          "inspected", "asked", "outcome", "query", "went"}
      /\ second.view = view /\ second.id = id /\ second.mount = 1 /\ second.load = "loading"
      /\ second.rows = 0 /\ second.selected = {} /\ second.inspected = None
      /\ second.asked = None /\ second.outcome = "idle" /\ second.went = None
  BY <1>3 DEF Authorizing!Fresh
<1> DEFINE call == Authorizing!Call("load", second.id, None)
<1>5. /\ DOMAIN call = {"kind", "id", "revision", "mount", "done", "lost"}
      /\ call.kind = "load" /\ call.mount = 1 /\ call.lost \in BOOLEAN /\ ~call.lost
  BY <1>4 DEF Authorizing!Call
<1>6. third = {call}
  BY DEF Authorizing!Init
<1> HIDE DEF call
<1>7. AuthTyped /\ AuthShows(second, first)
  BY <1>1, <1>4 DEF AuthTyped, AuthShows
<1>8. AuthCall(call, second, first)
  BY <1>4, <1>5 DEF AuthCall, Authorizing!Reads, Authorizing!Writes
<1>9. AuthWaits
  BY <1>4, <1>6 DEF AuthWaits
<1>10. Authorizing!AsksAboutWhatIsOpen
  BY <1>4 DEF Authorizing!AsksAboutWhatIsOpen
<1> QED
  BY <1>6, <1>7, <1>8, <1>9, <1>10 DEF AuthInv

\* The person selects, opens a drawer or a dialog and closes it.
LEMMA AuthStays ==
  ASSUME AuthInv, first' = first, third' = third, DOMAIN second' = DOMAIN second,
         second'.view = second.view, second'.id = second.id, second'.mount = second.mount,
         second'.load = second.load, second'.seen = second.seen, second'.rows = second.rows,
         second'.outcome = second.outcome, second'.went = second.went,
         second'.selected \subseteq 1..second.rows,
         second.load # "ready" =>
           second'.asked = None /\ second'.selected = {} /\ second'.inspected = None,
         second'.inspected # None => /\ DOMAIN second'.inspected = {"id", "revoked"}
                                     /\ second'.inspected.id \in Authorizing!Ids,
         second.outcome = "running" => second'.inspected = second.inspected,
         second'.asked # None =>
           \/ /\ second.view = "session" /\ second'.asked.id = second.id
              /\ second'.asked.revision = second.seen.revision
           \/ /\ second.view = "applications" /\ second'.inspected # None
              /\ second'.asked.id = second'.inspected.id
  PROVE  AuthInv'
<1> USE DEF AuthInv
<1>1. AuthTyped'
  BY DEF AuthTyped
<1>2. AuthShows(second', first')
  BY DEF AuthShows
<1>3. \A c \in third' : AuthCall(c, second', first')
  <2>1. ASSUME NEW c \in third
        PROVE  AuthCall(c, second', first')
    <3>1. AuthCall(c, second, first)
      OBVIOUS
    <3>2. c.mount = second.mount /\ c.kind \in {"disconnect", "refresh"} /\ ~c.lost
            => second'.inspected # None
      BY <3>1 DEF AuthCall
    <3> QED
      BY <3>1, <3>2 DEF AuthCall
  <2> QED
    BY <2>1
<1>4. AuthWaits'
  BY DEF AuthWaits
<1>5. Authorizing!AsksAboutWhatIsOpen'
  <2>1. /\ second.view = "session" /\ second.load = "ready" =>
             (Authorizing!Revocation = "revoked" => first[second.id].revoked)
        /\ second.outcome = "running" =>
             \E c \in third : c.mount = second.mount /\ c.kind # "load"
    BY DEF Authorizing!AsksAboutWhatIsOpen
  <2>2. (Authorizing!Revocation)' = Authorizing!Revocation
    BY DEF Authorizing!Revocation
  <2> QED
    BY <2>1, <2>2 DEF Authorizing!AsksAboutWhatIsOpen
<1> QED
  BY <1>1, <1>2, <1>3, <1>4, <1>5

\* The page sends a call, when it waits for none.
LEMMA AuthSends ==
  ASSUME AuthInv, first' = first, second.load = "ready", second.outcome # "running",
         second.view = "session" => second.outcome # "error",
         DOMAIN second' = DOMAIN second,
         second'.view = second.view, second'.id = second.id, second'.mount = second.mount,
         second'.load = second.load, second'.seen = second.seen, second'.rows = second.rows,
         second'.selected = second.selected, second'.inspected = second.inspected,
         second'.asked = second.asked, second'.outcome = "running",
         second'.went = second.went,
         NEW c, third' = third \cup {c}, AuthCall(c, second', first),
         c.mount = second.mount, c.kind # "load", ~c.lost
  PROVE  /\ AuthInv'
         /\ \A d \in third : d.mount = second.mount => d.lost /\ d.kind # "revoke"
<1> USE DEF AuthInv
<1>1. AuthTyped'
  BY DEF AuthTyped
<1>2. AuthShows(second', first')
  BY DEF AuthShows
<1>3. \A d \in third : d.mount = second.mount => d.lost /\ d.kind # "revoke"
  BY DEF AuthCall
<1>4. \A d \in third' : AuthCall(d, second', first')
  <2>1. ASSUME NEW d \in third
        PROVE  AuthCall(d, second', first')
    <3>1. AuthCall(d, second, first)
      OBVIOUS
    <3> QED
      BY <1>3, <3>1 DEF AuthCall
  <2> QED
    BY <2>1
<1>5. AuthWaits'
  BY <1>3 DEF AuthWaits
<1>6. Authorizing!AsksAboutWhatIsOpen'
  BY DEF Authorizing!AsksAboutWhatIsOpen, Authorizing!Revocation, AuthShows
<1> QED
  BY <1>1, <1>2, <1>3, <1>4, <1>5, <1>6

\* Another page: of the calls under way only writes are left.
LEMMA AuthOpens ==
  ASSUME AuthInv, NEW view \in Authorizing!Views, NEW id \in Authorizing!Subject(view),
         Authorizing!Open(view, id)
  PROVE  AuthInv'
<1> USE DEF AuthInv
<1>1. /\ DOMAIN second' = {"view", "id", "mount", "load", "seen", "rows", "selected",
                           "inspected", "asked", "outcome", "query", "went"}
      /\ second'.view = view /\ second'.id = id /\ second'.mount = second.mount + 1
      /\ second'.load = "loading" /\ second'.rows = 0 /\ second'.selected = {}
      /\ second'.inspected = None /\ second'.asked = None /\ second'.outcome = "idle"
      /\ second'.went = None /\ first' = first
  BY DEF Authorizing!Open, Authorizing!Fresh
<1> DEFINE call == [Authorizing!Call("load", id, None) EXCEPT !.mount = second.mount + 1]
<1>2. /\ DOMAIN call = {"kind", "id", "revision", "mount", "done", "lost"}
      /\ call.kind = "load" /\ call.mount = second.mount + 1
      /\ call.lost \in BOOLEAN /\ ~call.lost
  BY DEF Authorizing!Call
<1>3. third' = {c \in third : c.kind \in Authorizing!Writes} \cup {call}
  BY DEF Authorizing!Open
<1> HIDE DEF call
<1>4. second.mount \in Nat
  BY DEF AuthTyped
<1>5. AuthTyped' /\ AuthShows(second', first')
  BY <1>1, <1>4 DEF AuthTyped, AuthShows
<1>6. AuthCall(call, second', first')
  BY <1>1, <1>2, <1>4 DEF AuthCall, Authorizing!Reads, Authorizing!Writes
<1>7. ASSUME NEW c \in third, c.kind \in Authorizing!Writes
      PROVE  AuthCall(c, second', first') /\ c.mount # second'.mount
  <2>1. AuthCall(c, second, first)
    OBVIOUS
  <2>2. c.kind \notin Authorizing!Reads
    BY <1>7 DEF Authorizing!Reads, Authorizing!Writes
  <2>3. c.mount \in Nat /\ c.mount <= second.mount
    BY <2>1 DEF AuthCall
  <2> QED
    BY <1>1, <1>4, <2>1, <2>2, <2>3 DEF AuthCall
<1>8. AuthWaits'
  BY <1>1, <1>2, <1>3, <1>7 DEF AuthWaits
<1>9. Authorizing!AsksAboutWhatIsOpen'
  BY <1>1 DEF Authorizing!AsksAboutWhatIsOpen
<1> QED
  BY <1>3, <1>5, <1>6, <1>7, <1>8, <1>9

\* The service carries something out: what was revoked stays so.
LEMMA AuthServes ==
  ASSUME AuthInv, second' = second,
         first' \in [Authorizing!Ids -> [revision : Nat, revoked : BOOLEAN]],
         \A i \in Authorizing!Ids : first[i].revoked => first'[i].revoked
  PROVE  /\ AuthTyped' /\ AuthShows(second', first')
         /\ \A c \in third : AuthCall(c, second', first')
         /\ AuthWaits /\ third' = third => AuthInv'
<1> USE DEF AuthInv
<1>1. AuthTyped'
  BY DEF AuthTyped
<1>2. second.view = "session" => second.id \in Authorizing!Ids
  BY DEF AuthTyped, Authorizing!Subject, Authorizing!Lists
<1>3. AuthShows(second', first')
  BY <1>2 DEF AuthShows
<1>4. ASSUME NEW c \in third
      PROVE  AuthCall(c, second', first')
  <2>1. AuthCall(c, second, first)
    OBVIOUS
  <2> QED
    BY <2>1 DEF AuthCall
<1>5. ASSUME third' = third
      PROVE  AuthWaits' /\ Authorizing!AsksAboutWhatIsOpen'
  BY <1>2, <1>3, <1>5 DEF AuthWaits, Authorizing!AsksAboutWhatIsOpen, Authorizing!Revocation,
     AuthShows
<1> QED
  BY <1>1, <1>3, <1>4, <1>5

\* A record with one more revision, or revoked.
LEMMA RecordRevoked ==
  ASSUME NEW r \in [revision : Nat, revoked : BOOLEAN]
  PROVE  /\ Authorizing!Revoked(r) \in [revision : Nat, revoked : BOOLEAN]
         /\ Authorizing!Revoked(r).revoked
BY DEF Authorizing!Revoked

\* A write is carried out.
LEMMA AuthPerforms ==
  ASSUME AuthInv, NEW c \in third, Authorizing!Perform(c)
  PROVE  AuthInv'
<1> USE DEF AuthInv
<1> DEFINE result == IF c.kind # "revoke" THEN "changed"
                     ELSE IF first[c.id].revision # c.revision THEN "refused"
                     ELSE IF first[c.id].revoked THEN "unchanged" ELSE "changed"
           q == [c EXCEPT !.done = result]
<1>1. AuthCall(c, second, first)
  OBVIOUS
<1>2. /\ c.kind \in Authorizing!Writes /\ second' = second
      /\ third' = (third \ {c}) \cup {q}
      /\ first' = IF result = "changed" /\ c.kind \in {"revoke", "disconnect"}
                  THEN [first EXCEPT ![c.id] = Authorizing!Revoked(first[c.id])] ELSE first
  BY DEF Authorizing!Perform
<1>3. /\ DOMAIN q = {"kind", "id", "revision", "mount", "done", "lost"}
      /\ q.kind = c.kind /\ q.id = c.id /\ q.mount = c.mount /\ q.lost = c.lost
      /\ q.done = result
  BY <1>1 DEF AuthCall
<1> HIDE DEF result, q
<1>4. first \in [Authorizing!Ids -> [revision : Nat, revoked : BOOLEAN]]
  BY DEF AuthTyped
<1>5. /\ first' \in [Authorizing!Ids -> [revision : Nat, revoked : BOOLEAN]]
      /\ \A i \in Authorizing!Ids : first[i].revoked => first'[i].revoked
      /\ c.kind = "revoke" /\ result = "changed" => first'[c.id].revoked
  <2>1. CASE result = "changed" /\ c.kind \in {"revoke", "disconnect"}
    <3>1. c.id \in Authorizing!Ids
      BY <1>1, <2>1 DEF AuthCall
    <3>2. /\ Authorizing!Revoked(first[c.id]) \in [revision : Nat, revoked : BOOLEAN]
          /\ Authorizing!Revoked(first[c.id]).revoked
      BY <1>4, <3>1, RecordRevoked
    <3>3. first' = [first EXCEPT ![c.id] = Authorizing!Revoked(first[c.id])]
      BY <1>2, <2>1
    <3> HIDE DEF Authorizing!Ids
    <3> QED
      BY <1>4, <3>1, <3>2, <3>3
  <2>2. CASE ~(result = "changed" /\ c.kind \in {"revoke", "disconnect"})
    BY <1>2, <1>4, <2>2
  <2> QED
    BY <2>1, <2>2
<1>6. /\ AuthTyped' /\ AuthShows(second', first')
      /\ \A d \in third : AuthCall(d, second', first')
  BY <1>2, <1>5, AuthServes
<1>7. AuthCall(q, second', first')
  <2>1. AuthCall(c, second', first')
    BY <1>6
  <2> QED
    BY <1>3, <1>5, <2>1 DEF AuthCall
<1>8. AuthWaits'
  <2>1. \A x, y \in third' :
          x.mount = second.mount /\ y.mount = second.mount /\ ~x.lost /\ ~y.lost => x = y
    BY <1>2, <1>3 DEF AuthWaits
  <2>2. second.outcome = "running" =>
          \E x \in third' : x.mount = second.mount /\ x.kind # "load" /\ ~x.lost
    BY <1>2, <1>3 DEF AuthWaits
  <2> QED
    BY <1>2, <2>1, <2>2 DEF AuthWaits
<1>9. Authorizing!AsksAboutWhatIsOpen'
  BY <1>2, <1>6, <1>8 DEF AuthWaits, Authorizing!AsksAboutWhatIsOpen, Authorizing!Revocation,
     AuthShows
<1> QED
  BY <1>2, <1>6, <1>7, <1>8, <1>9

\* Somebody else changes a record.
LEMMA AuthElsewhere ==
  ASSUME AuthInv, NEW id \in Authorizing!Ids, Authorizing!Elsewhere(id)
  PROVE  AuthInv'
<1>1. first \in [Authorizing!Ids -> [revision : Nat, revoked : BOOLEAN]]
  BY DEF AuthInv, AuthTyped
<1>2. /\ Authorizing!Revoked(first[id]) \in [revision : Nat, revoked : BOOLEAN]
      /\ Authorizing!Revoked(first[id]).revoked
  BY <1>1, RecordRevoked
<1> HIDE DEF Authorizing!Ids
<1>3. /\ first' \in [Authorizing!Ids -> [revision : Nat, revoked : BOOLEAN]]
      /\ \A i \in Authorizing!Ids : first[i].revoked => first'[i].revoked
  BY <1>1, <1>2 DEF Authorizing!Elsewhere
<1>4. second' = second /\ third' = third
  BY DEF Authorizing!Elsewhere
<1> QED
  BY <1>3, <1>4, AuthServes DEF AuthInv

\* An answer nobody waits for.
LEMMA AuthDrops ==
  ASSUME AuthInv, NEW c \in third, c.lost \/ c.mount # second.mount,
         first' = first, second' = second,
         \/ third' = third \ {c}
         \/ third' = (third \ {c}) \cup {[c EXCEPT !.lost = TRUE]}
  PROVE  AuthInv'
<1> USE DEF AuthInv
<1> DEFINE q == [c EXCEPT !.lost = TRUE]
<1>1. AuthCall(c, second, first)
  OBVIOUS
<1>2. /\ DOMAIN q = {"kind", "id", "revision", "mount", "done", "lost"}
      /\ q.kind = c.kind /\ q.id = c.id /\ q.mount = c.mount /\ q.lost = TRUE
      /\ q.done = c.done
  BY <1>1 DEF AuthCall
<1>3. third' = third \ {c} \/ third' = (third \ {c}) \cup {q}
  OBVIOUS
<1> HIDE DEF q
<1>4. AuthCall(q, second, first)
  BY <1>1, <1>2 DEF AuthCall
<1>5. AuthTyped' /\ AuthShows(second', first')
  BY DEF AuthTyped
<1>6. AuthWaits'
  BY <1>2, <1>3 DEF AuthWaits
<1>7. Authorizing!AsksAboutWhatIsOpen'
  BY <1>6 DEF AuthWaits, Authorizing!AsksAboutWhatIsOpen, Authorizing!Revocation
<1> QED
  BY <1>3, <1>4, <1>5, <1>6, <1>7

\* The page is loaded, or cannot be.
LEMMA AuthLoads ==
  ASSUME AuthInv, NEW c \in third, c.kind = "load",
         first' = first, third' = third \ {c}, DOMAIN second' = DOMAIN second,
         second'.view = second.view, second'.id = second.id, second'.mount = second.mount,
         second'.load \in {"ready", "error"}, second'.rows \in Nat,
         second'.selected = second.selected, second'.inspected = second.inspected,
         second'.asked = second.asked, second'.outcome = "idle",
         second'.went = second.went,
         second'.load = "ready" /\ second.view = "session" => second'.seen = first[second.id]
  PROVE  AuthInv'
<1> USE DEF AuthInv
<1>1. c.mount = second.mount /\ ~c.lost /\ second.load = "loading"
  BY DEF AuthCall, Authorizing!Reads
<1>2. /\ second.asked = None /\ second.selected = {} /\ second.outcome = "idle"
      /\ second.inspected = None
  BY <1>1 DEF AuthShows
<1>3. AuthTyped'
  BY DEF AuthTyped
<1>4. second.view = "session" => first[second.id] \in [revision : Nat, revoked : BOOLEAN]
  BY DEF AuthTyped, Authorizing!Subject, Authorizing!Lists
<1>5. AuthShows(second', first')
  BY <1>2, <1>4 DEF AuthShows
<1>6. ASSUME NEW d \in third'
      PROVE  AuthCall(d, second', first')
  <2>1. AuthCall(d, second, first) /\ d \in third /\ d # c
    OBVIOUS
  <2>2. d.mount = second.mount => d.lost
    BY <1>1, <2>1 DEF AuthWaits
  <2> QED
    BY <1>2, <2>1, <2>2 DEF AuthCall, Authorizing!Reads
<1>7. AuthWaits'
  BY DEF AuthWaits
<1>8. Authorizing!AsksAboutWhatIsOpen'
  BY <1>2, <1>5 DEF Authorizing!AsksAboutWhatIsOpen, Authorizing!Revocation, AuthShows
<1> QED
  BY <1>3, <1>5, <1>6, <1>7, <1>8

\* The page hears of what it waited for.
LEMMA AuthConcludes ==
  ASSUME AuthInv, NEW c \in third, c.kind # "load", c.mount = second.mount, ~c.lost,
         first' = first, DOMAIN second' = DOMAIN second,
         second'.view = second.view, second'.id = second.id, second'.mount = second.mount,
         second'.load = second.load, second'.outcome # "running",
         second.view = "session" =>
           /\ second'.seen = second.seen
           /\ second'.outcome = "revoked" => first[second.id].revoked,
         second'.rows \in Nat, second.rows <= second'.rows,
         second'.selected = second.selected,
         second'.inspected # None => /\ DOMAIN second'.inspected = {"id", "revoked"}
                                     /\ second'.inspected.id \in Authorizing!Ids,
         second'.asked = None \/ (second'.asked = second.asked
                                   /\ second'.inspected = second.inspected),
         second'.went # None => second'.went = second.id,
         \/ third' = third \ {c}
         \/ /\ third' = (third \ {c}) \cup {[c EXCEPT !.lost = TRUE]}
            /\ c.kind \in Authorizing!Writes
            /\ c.kind = "revoke" => second'.outcome = "error"
  PROVE  AuthInv'
<1> USE DEF AuthInv
<1>1. AuthCall(c, second, first)
  OBVIOUS
<1>2. second.outcome = "running" /\ second.load = "ready"
  BY <1>1 DEF AuthCall, AuthShows, AuthTyped
<1>3. AuthTyped'
  BY DEF AuthTyped
<1>4. AuthShows(second', first')
  BY <1>2 DEF AuthShows
<1> DEFINE q == [c EXCEPT !.lost = TRUE]
<1>5. /\ DOMAIN q = {"kind", "id", "revision", "mount", "done", "lost"}
      /\ q.kind = c.kind /\ q.id = c.id /\ q.mount = c.mount /\ q.lost = TRUE
      /\ q.done = c.done
  BY <1>1 DEF AuthCall
<1>6. \/ third' = third \ {c}
      \/ /\ third' = (third \ {c}) \cup {q} /\ c.kind \in Authorizing!Writes
         /\ c.kind = "revoke" => second'.outcome = "error"
  OBVIOUS
<1> HIDE DEF q
<1>7. ASSUME NEW d \in third, d # c
      PROVE  AuthCall(d, second', first') /\ (d.mount = second.mount => d.lost)
  <2>1. AuthCall(d, second, first)
    OBVIOUS
  <2>2. d.mount = second.mount => d.lost
    BY <1>7 DEF AuthWaits
  <2>3. d.mount = second.mount => d.kind \notin Authorizing!Reads /\ d.kind # "revoke"
    BY <1>2, <2>1, <2>2 DEF AuthCall
  <2> QED
    BY <2>1, <2>2, <2>3 DEF AuthCall, Authorizing!Reads
<1>8. third' = (third \ {c}) \cup {q} => AuthCall(q, second', first')
  <2>1. ASSUME c.kind \in Authorizing!Writes, c.kind = "revoke" => second'.outcome = "error"
        PROVE  AuthCall(q, second', first')
    <3>1. q.kind \notin Authorizing!Reads
      BY <1>5, <2>1 DEF Authorizing!Reads, Authorizing!Writes
    <3> QED
      BY <1>1, <1>5, <2>1, <3>1 DEF AuthCall, Authorizing!Reads
  <2>2. third \ {c} = (third \ {c}) \cup {q} => q \in third \ {c}
    OBVIOUS
  <2> QED
    BY <1>6, <1>7, <2>1, <2>2
<1>9. \A d \in third' : AuthCall(d, second', first')
  BY <1>6, <1>7, <1>8
<1>10. AuthWaits'
  BY <1>5, <1>6, <1>7 DEF AuthWaits
<1>11. Authorizing!AsksAboutWhatIsOpen'
  <2>1. second'.selected \subseteq 1..second'.rows
    <3>1. second.selected \subseteq 1..second.rows /\ second.rows \in Nat
      BY DEF Authorizing!AsksAboutWhatIsOpen, AuthTyped
    <3> QED
      BY <3>1
  <2>2. second'.asked # None =>
          \/ second'.view = "session" /\ second'.asked.id = second'.id
          \/ /\ second'.view = "applications" /\ second'.inspected # None
             /\ second'.asked.id = second'.inspected.id
    BY DEF Authorizing!AsksAboutWhatIsOpen
  <2>3. second'.view = "session" /\ second'.load = "ready" =>
          ((Authorizing!Revocation)' = "revoked" => first'[second'.id].revoked)
    BY <1>4 DEF Authorizing!Revocation, AuthShows
  <2> QED
    BY <2>1, <2>2, <2>3 DEF Authorizing!AsksAboutWhatIsOpen
<1> QED
  BY <1>3, <1>4, <1>9, <1>10, <1>11

\* What the person does on the page without a call.
LEMMA AuthBrowses ==
  ASSUME AuthInv,
         \/ Authorizing!Search \/ Authorizing!AskRevoke \/ Authorizing!Cancel
         \/ Authorizing!CloseGrant \/ Authorizing!AskDisconnect
         \/ Authorizing!CancelDisconnect
         \/ \E ids \in SUBSET Authorizing!Ids : Authorizing!Select(ids)
         \/ \E id \in Authorizing!Ids : Authorizing!InspectGrant(id)
  PROVE  AuthInv' /\ third' = third /\ second'.went = second.went /\ second'.id = second.id
<1> USE DEF Authorizing!Show, Authorizing!Keep, Authorizing!Page
<1>0. /\ DOMAIN second = {"view", "id", "mount", "load", "seen", "rows", "selected",
                          "inspected", "asked", "outcome", "query", "went"}
      /\ second.inspected # None => /\ DOMAIN second.inspected = {"id", "revoked"}
                                    /\ second.inspected.id \in Authorizing!Ids
      /\ second.selected \subseteq 1..second.rows
      /\ second.load # "ready" =>
           second.asked = None /\ second.selected = {} /\ second.inspected = None
      /\ second.asked # None =>
           \/ /\ second.view = "session" /\ second.asked.id = second.id
              /\ second.asked.revision = second.seen.revision
           \/ /\ second.view = "applications" /\ second.inspected # None
              /\ second.asked.id = second.inspected.id
  BY DEF AuthInv, AuthTyped, AuthShows, Authorizing!AsksAboutWhatIsOpen
<1> DEFINE Same == /\ first' = first /\ third' = third /\ DOMAIN second' = DOMAIN second
                   /\ second'.view = second.view /\ second'.id = second.id
                   /\ second'.mount = second.mount /\ second'.load = second.load
                   /\ second'.seen = second.seen /\ second'.rows = second.rows
                   /\ second'.outcome = second.outcome /\ second'.went = second.went
<1>1. CASE Authorizing!Search
  <2>1. /\ Same /\ second'.selected = second.selected
        /\ second'.inspected = second.inspected /\ second'.asked = second.asked
    BY <1>0, <1>1 DEF Authorizing!Search
  <2> QED
    BY <1>0, <2>1, AuthStays
<1>2. CASE Authorizing!AskRevoke
  <2>1. /\ Same /\ second'.selected = second.selected
        /\ second'.inspected = second.inspected
        /\ second'.asked.id = second.id /\ second'.asked.revision = second.seen.revision
        /\ second.view = "session" /\ second.load = "ready"
    BY <1>0, <1>2 DEF Authorizing!AskRevoke
  <2> QED
    BY <1>0, <2>1, AuthStays
<1>3. CASE Authorizing!Cancel \/ Authorizing!CancelDisconnect
  <2>1. /\ Same /\ second'.selected = second.selected
        /\ second'.inspected = second.inspected /\ second'.asked = None
    BY <1>0, <1>3 DEF Authorizing!Cancel, Authorizing!CancelDisconnect
  <2> QED
    BY <1>0, <2>1, AuthStays
<1>4. CASE Authorizing!CloseGrant
  <2>1. /\ Same /\ second'.selected = second.selected /\ second.outcome # "running"
        /\ second'.inspected = None /\ second'.asked = None
    BY <1>0, <1>4 DEF Authorizing!CloseGrant
  <2> QED
    BY <1>0, <2>1, AuthStays
<1>5. CASE Authorizing!AskDisconnect
  <2>1. /\ Same /\ second'.selected = second.selected
        /\ second'.inspected = second.inspected /\ second.inspected # None
        /\ second'.asked.id = second.inspected.id
        /\ second.view = "applications" /\ second.load = "ready"
    BY <1>0, <1>5 DEF Authorizing!AskDisconnect
  <2> QED
    BY <1>0, <2>1, AuthStays
<1>6. ASSUME NEW ids \in SUBSET Authorizing!Ids, Authorizing!Select(ids)
      PROVE  AuthInv' /\ third' = third /\ second'.went = second.went /\ second'.id = second.id
  <2>1. /\ Same /\ second'.selected = ids /\ ids \subseteq 1..second.rows
        /\ second'.inspected = second.inspected /\ second'.asked = second.asked
        /\ second.load = "ready"
    BY <1>0, <1>6 DEF Authorizing!Select
  <2> QED
    BY <1>0, <2>1, AuthStays
<1>7. ASSUME NEW id \in Authorizing!Ids, Authorizing!InspectGrant(id)
      PROVE  AuthInv' /\ third' = third /\ second'.went = second.went /\ second'.id = second.id
  <2>1. /\ Same /\ second'.selected = second.selected
        /\ DOMAIN second'.inspected = {"id", "revoked"} /\ second'.inspected.id = id
        /\ second'.asked = second.asked
        /\ second.load = "ready" /\ second.view = "applications" /\ second.inspected = None
    BY <1>0, <1>7 DEF Authorizing!InspectGrant
  <2>2. second.outcome # "running"
    <3>1. ASSUME NEW c \in third, c.mount = second.mount, c.kind # "load", ~c.lost
          PROVE  FALSE
      BY <2>1, <3>1 DEF AuthInv, AuthCall, Authorizing!Reads, Authorizing!Writes
    <3> QED
      BY <3>1 DEF AuthInv, AuthWaits
  <2>3. second.asked = None
    BY <1>0, <2>1
  <2> QED
    BY <1>0, <2>1, <2>2, <2>3, AuthStays
<1> QED
  BY <1>1, <1>2, <1>3, <1>4, <1>5, <1>6, <1>7

\* What a step of the page sends is what the page shows, and nothing is in doubt.
AuthActs ==
  /\ Authorizing!LooksBeforeRevoking
  /\ Authorizing!ActsOnWhatIsShown

\* A step without new calls.
LEMMA NothingNew ==
  ASSUME \A c \in third' : c \in third \/ c.lost \/ c.done # "no" \/ c.kind \notin Authorizing!Writes,
         second'.went # None => second'.went = second'.id
  PROVE  AuthActs
BY DEF AuthActs, Authorizing!LooksBeforeRevoking, Authorizing!ActsOnWhatIsShown,
   Authorizing!New

\* The page calls.
LEMMA AuthCalls ==
  ASSUME AuthInv,
         \/ Authorizing!LoadMore \/ Authorizing!Revoke \/ Authorizing!Disconnect
         \/ \E kind \in {"approve", "deny"} : Authorizing!Decide(kind)
  PROVE  AuthInv' /\ AuthActs
<1> USE DEF Authorizing!Show, Authorizing!Keep, Authorizing!Page, Authorizing!Send
<1>0. /\ DOMAIN second = {"view", "id", "mount", "load", "seen", "rows", "selected",
                          "inspected", "asked", "outcome", "query", "went"}
      /\ second.inspected # None => second.inspected.id \in Authorizing!Ids
      /\ second.mount \in Nat
      /\ second.view = "session" => second.id \in Authorizing!Ids
      /\ second.asked # None =>
           \/ /\ second.view = "session" /\ second.asked.id = second.id
              /\ second.load = "ready" => second.asked.revision = second.seen.revision
           \/ /\ second.view = "applications" /\ second.inspected # None
              /\ second.asked.id = second.inspected.id
      /\ second.went # None => second.went = second.id
  BY DEF AuthInv, AuthTyped, AuthShows, Authorizing!AsksAboutWhatIsOpen,
     Authorizing!Subject, Authorizing!Lists
<1> DEFINE Sends(c) ==
      /\ first' = first /\ third' = third \cup {c} /\ DOMAIN second' = DOMAIN second
      /\ second.load = "ready" /\ second.outcome # "running"
      /\ second.view = "session" => second.outcome # "error"
      /\ second'.view = second.view /\ second'.id = second.id
      /\ second'.mount = second.mount /\ second'.load = second.load
      /\ second'.seen = second.seen /\ second'.rows = second.rows
      /\ second'.selected = second.selected /\ second'.inspected = second.inspected
      /\ second'.asked = second.asked /\ second'.outcome = "running"
      /\ second'.went = second.went
<1>1. ASSUME NEW kind \in {"more", "revoke", "disconnect", "approve", "deny"}, NEW id,
             NEW revision, Sends(Authorizing!Call(kind, id, revision)),
             kind = "more" => second.view = "sessions",
             kind = "revoke" => /\ second.view = "session" /\ id = second.id
                                /\ revision = second.seen.revision,
             kind \in {"approve", "deny"} => second.view = "consent" /\ id = second.id,
             kind = "disconnect" => /\ second.view = "applications" /\ second.inspected # None
                                    /\ id = second.inspected.id
      PROVE  AuthInv' /\ AuthActs
  <2> DEFINE c == Authorizing!Call(kind, id, revision)
  <2>1. /\ DOMAIN c = {"kind", "id", "revision", "mount", "done", "lost"}
        /\ c.kind = kind /\ c.id = id /\ c.revision = revision /\ c.mount = second.mount
        /\ c.done = "no" /\ c.lost \in BOOLEAN /\ ~c.lost
    BY DEF Authorizing!Call
  <2>2. Sends(c)
    BY <1>1
  <2> HIDE DEF c
  <2>3. c.kind \in {"revoke", "disconnect"} => c.id \in Authorizing!Ids
    BY <1>0, <1>1, <2>1
  <2>4. AuthCall(c, second', first)
    BY <1>0, <1>1, <2>1, <2>2, <2>3 DEF AuthCall, Authorizing!Reads, Authorizing!Writes
  <2>5. AuthInv' /\ \A d \in third : d.mount = second.mount => d.lost /\ d.kind # "revoke"
    BY <1>1, <2>1, <2>2, <2>4, AuthSends
  <2>6. Authorizing!New \subseteq {c}
    BY <2>2 DEF Authorizing!New
  <2>7. \A d \in third : d.mount = second.mount => d.lost
    BY <2>5
  <2>8. c.kind = "revoke" =>
          \A d \in third : d.kind \in Authorizing!Writes /\ d.mount = second.mount => FALSE
    <3>1. ASSUME NEW d \in third, d.kind \in Authorizing!Writes, d.mount = second.mount,
                 second.view = "session"
          PROVE  d.kind = "revoke"
      <4>1. AuthCall(d, second, first)
        BY DEF AuthInv
      <4> QED
        BY <3>1, <4>1 DEF AuthCall, Authorizing!Writes
    <3> QED
      BY <1>1, <2>1, <2>5, <3>1
  <2>9. Authorizing!LooksBeforeRevoking
    BY <2>1, <2>6, <2>7, <2>8 DEF Authorizing!LooksBeforeRevoking
  <2>10. Authorizing!ActsOnWhatIsShown
    BY <1>0, <1>1, <2>1, <2>2, <2>6 DEF Authorizing!ActsOnWhatIsShown
  <2> QED
    BY <2>5, <2>9, <2>10 DEF AuthActs
<1>2. CASE Authorizing!LoadMore
  <2>1. Sends(Authorizing!Call("more", None, None)) /\ second.view = "sessions"
    BY <1>0, <1>2 DEF Authorizing!LoadMore
  <2> HIDE DEF Sends
  <2> QED
    BY <1>1, <2>1
<1>3. CASE Authorizing!Revoke
  <2>1. /\ Sends(Authorizing!Call("revoke", second.asked.id, second.asked.revision))
        /\ second.view = "session" /\ second.asked # None
    BY <1>0, <1>3 DEF Authorizing!Revoke
  <2>2. second.asked.id = second.id /\ second.asked.revision = second.seen.revision
    BY <1>0, <2>1
  <2> HIDE DEF Sends
  <2> QED
    BY <1>1, <2>1, <2>2
<1>4. CASE Authorizing!Disconnect
  <2>1. /\ Sends(Authorizing!Call("disconnect", second.asked.id, None))
        /\ second.view = "applications" /\ second.asked # None
    BY <1>0, <1>4 DEF Authorizing!Disconnect
  <2>2. second.asked.id = second.inspected.id /\ second.inspected # None
    BY <1>0, <2>1
  <2> HIDE DEF Sends
  <2> QED
    BY <1>1, <2>1, <2>2
<1>5. ASSUME NEW kind \in {"approve", "deny"}, Authorizing!Decide(kind)
      PROVE  AuthInv' /\ AuthActs
  <2>1. Sends(Authorizing!Call(kind, second.id, None)) /\ second.view = "consent"
    BY <1>0, <1>5 DEF Authorizing!Decide
  <2> HIDE DEF Sends
  <2> QED
    BY <1>1, <2>1
<1> QED
  BY <1>2, <1>3, <1>4, <1>5

\* A connection is gone: the list is read again, and the page waits for that.
LEMMA AuthDisconnected ==
  ASSUME AuthInv, NEW c \in third, c.kind = "disconnect", c.mount = second.mount, ~c.lost,
         first' = first, DOMAIN second' = DOMAIN second,
         \A f \in DOMAIN second : f # "went" => second'[f] = second[f],
         second'.went = None,
         third' = (third \ {c}) \cup {Authorizing!Call("refresh", None, None)}
  PROVE  AuthInv'
<1> USE DEF AuthInv
<1> DEFINE q == Authorizing!Call("refresh", None, None)
<1>1. /\ DOMAIN q = {"kind", "id", "revision", "mount", "done", "lost"}
      /\ q.kind = "refresh" /\ q.mount = second.mount /\ q.lost \in BOOLEAN /\ ~q.lost
  BY DEF Authorizing!Call
<1>2. third' = (third \ {c}) \cup {q}
  OBVIOUS
<1> HIDE DEF q
<1>3. /\ second'.view = second.view /\ second'.id = second.id
      /\ second'.mount = second.mount /\ second'.load = second.load
      /\ second'.seen = second.seen /\ second'.rows = second.rows
      /\ second'.selected = second.selected /\ second'.inspected = second.inspected
      /\ second'.asked = second.asked /\ second'.outcome = second.outcome
  BY DEF AuthTyped
<1>4. AuthCall(c, second, first)
  OBVIOUS
<1>5. /\ second.outcome = "running" /\ second.view = "applications"
      /\ second.inspected # None /\ second.mount \in Nat
  BY <1>4 DEF AuthCall, AuthTyped
<1>6. AuthTyped'
  BY <1>3 DEF AuthTyped
<1>7. AuthShows(second', first')
  BY <1>3, <1>5 DEF AuthShows
<1>8. AuthCall(q, second', first')
  BY <1>1, <1>3, <1>5 DEF AuthCall, Authorizing!Reads, Authorizing!Writes
<1>9. ASSUME NEW d \in third
      PROVE  AuthCall(d, second', first')
  <2>1. AuthCall(d, second, first)
    OBVIOUS
  <2> QED
    BY <1>3, <2>1 DEF AuthCall
<1>10. AuthWaits'
  BY <1>1, <1>2, <1>3 DEF AuthWaits
<1>11. Authorizing!AsksAboutWhatIsOpen'
  BY <1>1, <1>2, <1>3, <1>5 DEF Authorizing!AsksAboutWhatIsOpen, Authorizing!Revocation
<1> QED
  BY <1>2, <1>6, <1>7, <1>8, <1>9, <1>10, <1>11

\* An answer.
LEMMA AuthAnswers ==
  ASSUME AuthInv, NEW c \in third, Authorizing!Answer(c)
  PROVE  AuthInv' /\ (second'.went # None => second'.went = second'.id)
<1> USE DEF Authorizing!Show, Authorizing!Keep, Authorizing!Update, Authorizing!Heard
<1>0. /\ DOMAIN second = {"view", "id", "mount", "load", "seen", "rows", "selected",
                          "inspected", "asked", "outcome", "query", "went"}
      /\ second.view \in Authorizing!Views /\ second.rows \in Nat
      /\ second.inspected # None => /\ DOMAIN second.inspected = {"id", "revoked"}
                                    /\ second.inspected.id \in Authorizing!Ids
      /\ AuthCall(c, second, first)
  BY DEF AuthInv, AuthTyped
<1>1. first' = first
  BY DEF Authorizing!Answer
<1>s. SUFFICES AuthInv'
  BY DEF AuthInv, AuthShows
<1>2. CASE ~Authorizing!Heard(c)
  <2>1. second' = second /\ third' = third \ {c}
    BY <1>2 DEF Authorizing!Answer
  <2>2. c.lost \/ c.mount # second.mount
    BY <1>2
  <2> QED
    BY <1>1, <2>1, <2>2, AuthDrops
<1>3. CASE Authorizing!Heard(c) /\ c.kind = "load"
  <2>1. third' = third \ {c} /\ Authorizing!Show(Authorizing!Loaded(c))
    BY <1>3 DEF Authorizing!Answer, Authorizing!Reads
  <2>2. second.outcome = "idle"
    BY <1>0, <1>3 DEF AuthInv, AuthCall, AuthShows
  <2>3. /\ DOMAIN second' = DOMAIN second
        /\ second'.view = second.view /\ second'.id = second.id
        /\ second'.mount = second.mount /\ second'.load = "ready"
        /\ second'.selected = second.selected /\ second'.inspected = second.inspected
        /\ second'.asked = second.asked /\ second'.outcome = "idle"
        /\ second'.went = second.went /\ second'.rows \in Nat
        /\ second.view = "session" => second'.seen = first[second.id]
    <3>1. CASE second.view = "sessions"
      <4>1. Authorizing!Loaded(c) = [load |-> "ready", rows |-> 1, outcome |-> "idle"]
        BY <1>3, <3>1 DEF Authorizing!Loaded
      <4> QED
        BY <1>0, <2>1, <2>2, <3>1, <4>1
    <3>2. CASE second.view = "session"
      <4>1. Authorizing!Loaded(c) = [load |-> "ready", seen |-> first[second.id]]
        BY <1>3, <3>2 DEF Authorizing!Loaded
      <4> QED
        BY <1>0, <2>1, <2>2, <3>2, <4>1
    <3>3. CASE second.view = "applications"
      <4>1. Authorizing!Loaded(c) = [load |-> "ready", seen |-> first]
        BY <1>3, <3>3 DEF Authorizing!Loaded
      <4> QED
        BY <1>0, <2>1, <2>2, <3>3, <4>1
    <3>4. CASE second.view \notin {"sessions", "session", "applications"}
      <4>1. Authorizing!Loaded(c) = [load |-> "ready"]
        BY <1>0, <1>3, <3>4 DEF Authorizing!Loaded, Authorizing!Views, Authorizing!Lists
      <4> QED
        BY <1>0, <2>1, <2>2, <3>4, <4>1
    <3> QED
      BY <3>1, <3>2, <3>3, <3>4
  <2> QED
    BY <1>1, <1>3, <2>1, <2>3, AuthLoads
<1> DEFINE Same == /\ DOMAIN second' = DOMAIN second
                   /\ second'.view = second.view /\ second'.id = second.id
                   /\ second'.mount = second.mount /\ second'.load = second.load
                   /\ second'.selected = second.selected
<1>4. CASE Authorizing!Heard(c) /\ c.kind = "more"
  <2>1. third' = third \ {c} /\ Authorizing!Show(Authorizing!Loaded(c))
    BY <1>4 DEF Authorizing!Answer, Authorizing!Reads
  <2>2. Authorizing!Loaded(c) = [rows |-> second.rows + 1, outcome |-> "idle"]
    BY <1>4 DEF Authorizing!Loaded
  <2>3. /\ Same /\ second'.rows = second.rows + 1 /\ second'.outcome = "idle"
        /\ second'.inspected = second.inspected /\ second'.asked = second.asked
        /\ second'.went = second.went /\ second'.seen = second.seen
    BY <1>0, <2>1, <2>2
  <2>4. second.went # None => second.went = second.id
    BY DEF AuthInv, AuthShows
  <2> QED
    BY <1>0, <1>1, <1>4, <2>1, <2>3, <2>4, AuthConcludes
<1>5. CASE Authorizing!Heard(c) /\ c.kind = "refresh"
  <2>1. third' = third \ {c} /\ Authorizing!Show(Authorizing!Loaded(c))
    BY <1>5 DEF Authorizing!Answer, Authorizing!Reads
  <2> DEFINE grant == [second.inspected EXCEPT
               !.revoked = @ \/ first[second.inspected.id].revoked]
  <2>2. Authorizing!Loaded(c) =
          [seen |-> first, asked |-> None, outcome |-> "idle", inspected |-> grant]
    BY <1>5 DEF Authorizing!Loaded
  <2>3. second.inspected # None /\ second.view = "applications"
    BY <1>0, <1>5 DEF AuthCall
  <2>4. DOMAIN grant = {"id", "revoked"} /\ grant.id \in Authorizing!Ids
    BY <1>0, <2>3
  <2> HIDE DEF grant
  <2>5. /\ Same /\ second'.rows = second.rows /\ second'.outcome = "idle"
        /\ second'.inspected = grant /\ second'.asked = None
        /\ second'.went = second.went
    BY <1>0, <2>1, <2>2
  <2>6. second.went # None => second.went = second.id
    BY DEF AuthInv, AuthShows
  <2> QED
    BY <1>0, <1>1, <1>5, <2>1, <2>3, <2>4, <2>5, <2>6, AuthConcludes
<1>6. CASE Authorizing!Heard(c) /\ c.kind = "revoke"
  <2>1. /\ third' = third \ {c} /\ Authorizing!Show(Authorizing!Told(c))
        /\ c.done \in {"changed", "unchanged"}
    BY <1>6 DEF Authorizing!Answer, Authorizing!Reads
  <2>2. Authorizing!Told(c) =
          [outcome |-> IF c.done = "changed" THEN "revoked" ELSE "unchanged", asked |-> None]
    BY <1>6 DEF Authorizing!Told
  <2>3. /\ Same /\ second'.rows = second.rows /\ second'.inspected = second.inspected
        /\ second'.outcome = (IF c.done = "changed" THEN "revoked" ELSE "unchanged")
        /\ second'.asked = None /\ second'.went = second.went /\ second'.seen = second.seen
    BY <1>0, <2>1, <2>2
  <2>4. second.went # None => second.went = second.id
    BY DEF AuthInv, AuthShows
  <2>5. c.id = second.id /\ (c.done = "changed" => first[second.id].revoked)
    BY <1>0, <1>6 DEF AuthCall
  <2> QED
    BY <1>0, <1>1, <1>6, <2>1, <2>3, <2>4, <2>5, AuthConcludes
<1>7. CASE Authorizing!Heard(c) /\ c.kind \in {"approve", "deny"}
  <2>1. third' = third \ {c} /\ Authorizing!Show(Authorizing!Told(c))
    BY <1>7 DEF Authorizing!Answer, Authorizing!Reads
  <2>2. Authorizing!Told(c) = [outcome |-> "idle", went |-> c.id]
    BY <1>7 DEF Authorizing!Told
  <2>3. /\ Same /\ second'.rows = second.rows /\ second'.inspected = second.inspected
        /\ second'.outcome = "idle" /\ second'.asked = second.asked
        /\ second'.went = c.id /\ second'.seen = second.seen
    BY <1>0, <2>1, <2>2
  <2>4. c.id = second.id
    BY <1>0, <1>7 DEF AuthCall
  <2> QED
    BY <1>0, <1>1, <1>7, <2>1, <2>3, <2>4, AuthConcludes
<1>8. CASE Authorizing!Heard(c) /\ c.kind = "disconnect"
  <2>1. /\ third' = (third \ {c}) \cup {Authorizing!Call("refresh", None, None)}
        /\ Authorizing!Show(Authorizing!Told(c))
    BY <1>8 DEF Authorizing!Answer, Authorizing!Reads
  <2>2. Authorizing!Told(c) = [went |-> None]
    BY <1>8 DEF Authorizing!Told
  <2>3. /\ DOMAIN second' = DOMAIN second /\ second'.went = None
        /\ \A f \in DOMAIN second : f # "went" => second'[f] = second[f]
    BY <1>0, <2>1, <2>2
  <2> QED
    BY <1>1, <1>8, <2>1, <2>3, AuthDisconnected
<1> QED
  BY <1>0, <1>2, <1>3, <1>4, <1>5, <1>6, <1>7, <1>8
     DEF AuthCall, Authorizing!Reads, Authorizing!Writes

\* No answer, or a refusal.
LEMMA AuthFails ==
  ASSUME AuthInv, NEW c \in third, Authorizing!Fail(c)
  PROVE  AuthInv' /\ (second'.went # None => second'.went = second'.id)
<1> USE DEF Authorizing!Show, Authorizing!Keep, Authorizing!Update, Authorizing!Heard
<1>0. /\ DOMAIN second = {"view", "id", "mount", "load", "seen", "rows", "selected",
                          "inspected", "asked", "outcome", "query", "went"}
      /\ second.rows \in Nat
      /\ second.inspected # None => /\ DOMAIN second.inspected = {"id", "revoked"}
                                    /\ second.inspected.id \in Authorizing!Ids
      /\ AuthCall(c, second, first)
      /\ second.went # None => second.went = second.id
  BY DEF AuthInv, AuthTyped, AuthShows
<1>1. /\ first' = first
      /\ \/ third' = third \ {c}
         \/ /\ third' = (third \ {c}) \cup {[c EXCEPT !.lost = TRUE]}
            /\ c.kind \in Authorizing!Writes
  BY DEF Authorizing!Fail
<1>s. SUFFICES AuthInv'
  BY DEF AuthInv, AuthShows
<1>2. CASE ~Authorizing!Heard(c)
  <2>1. second' = second
    BY <1>2 DEF Authorizing!Fail
  <2>2. c.lost \/ c.mount # second.mount
    BY <1>2
  <2> QED
    BY <1>1, <2>1, <2>2, AuthDrops
<1> DEFINE Same == /\ DOMAIN second' = DOMAIN second
                   /\ second'.view = second.view /\ second'.id = second.id
                   /\ second'.mount = second.mount /\ second'.seen = second.seen
                   /\ second'.selected = second.selected /\ second'.rows = second.rows
                   /\ second'.inspected = second.inspected /\ second'.went = second.went
<1>3. CASE Authorizing!Heard(c) /\ c.kind = "load"
  <2>1. Authorizing!Show([load |-> "error"])
    BY <1>3 DEF Authorizing!Fail, Authorizing!Failed
  <2>2. second.outcome = "idle"
    BY <1>0, <1>3 DEF AuthInv, AuthCall, AuthShows
  <2>3. /\ Same /\ second'.load = "error" /\ second'.asked = second.asked
        /\ second'.outcome = "idle"
    BY <1>0, <2>1, <2>2
  <2>4. third' = third \ {c}
    BY <1>1, <1>3 DEF Authorizing!Writes
  <2> QED
    BY <1>0, <1>1, <1>3, <2>3, <2>4, AuthLoads
<1>4. CASE Authorizing!Heard(c) /\ c.kind = "revoke"
  <2>1. Authorizing!Show([outcome |-> "error", asked |-> None])
    BY <1>4 DEF Authorizing!Fail, Authorizing!Failed
  <2>2. /\ Same /\ second'.load = second.load /\ second'.asked = None
        /\ second'.outcome = "error"
    BY <1>0, <2>1
  <2> QED
    BY <1>0, <1>1, <1>4, <2>2, AuthConcludes
<1>5. CASE Authorizing!Heard(c) /\ c.kind \notin {"load", "revoke"}
  <2>1. Authorizing!Show([outcome |-> "error"])
    BY <1>5 DEF Authorizing!Fail, Authorizing!Failed
  <2>2. /\ Same /\ second'.load = second.load /\ second'.asked = second.asked
        /\ second'.outcome = "error"
    BY <1>0, <2>1
  <2> QED
    BY <1>0, <1>1, <1>5, <2>2, AuthConcludes
<1> QED
  BY <1>2, <1>3, <1>4, <1>5

\* Every step of the Auth pages keeps it, and sends what the page shows.
LEMMA AuthSteps ==
  ASSUME AuthInv, Authorizing!Next
  PROVE  AuthInv' /\ AuthActs
<1>0. second.went # None => second.went = second.id
  BY DEF AuthInv, AuthShows
<1>1. ASSUME NEW view \in Authorizing!Views, NEW id \in Authorizing!Subject(view),
             Authorizing!Open(view, id)
      PROVE  AuthInv' /\ AuthActs
  <2>1. second'.went = None
    BY <1>1 DEF Authorizing!Open, Authorizing!Fresh
  <2>2. [Authorizing!Call("load", id, None) EXCEPT !.mount = second.mount + 1].kind = "load"
    BY DEF Authorizing!Call
  <2>3. \A c \in third' : c \in third \/ c.kind = "load"
    BY <1>1, <2>2 DEF Authorizing!Open
  <2> QED
    BY <1>1, <2>1, <2>3, AuthOpens, NothingNew DEF Authorizing!Writes
<1>2. CASE Authorizing!Return
  <2>1. /\ "sessions" \in Authorizing!Views /\ None \in Authorizing!Subject("sessions")
        /\ Authorizing!Open("sessions", None)
    BY <1>2 DEF Authorizing!Return, Authorizing!Views, Authorizing!Subject, Authorizing!Lists
  <2> QED
    BY <1>1, <2>1
<1>3. ASSUME NEW id \in Authorizing!Ids, Authorizing!Inspect(id)
      PROVE  AuthInv' /\ AuthActs
  <2>1. /\ "session" \in Authorizing!Views /\ id \in Authorizing!Subject("session")
        /\ Authorizing!Open("session", id)
    BY <1>3 DEF Authorizing!Inspect, Authorizing!Views, Authorizing!Subject, Authorizing!Lists
  <2> QED
    BY <1>1, <2>1
<1>4. CASE \/ Authorizing!Search \/ Authorizing!AskRevoke \/ Authorizing!Cancel
           \/ Authorizing!CloseGrant \/ Authorizing!AskDisconnect
           \/ Authorizing!CancelDisconnect
           \/ \E ids \in SUBSET Authorizing!Ids : Authorizing!Select(ids)
           \/ \E id \in Authorizing!Ids : Authorizing!InspectGrant(id)
  BY <1>0, <1>4, AuthBrowses, NothingNew
<1>5. ASSUME NEW id \in Authorizing!Ids, Authorizing!Elsewhere(id)
      PROVE  AuthInv' /\ AuthActs
  <2>1. second' = second /\ third' = third
    BY <1>5 DEF Authorizing!Elsewhere
  <2> QED
    BY <1>0, <1>5, <2>1, AuthElsewhere, NothingNew
<1>6. ASSUME NEW c \in third, Authorizing!Perform(c)
      PROVE  AuthInv' /\ AuthActs
  <2> DEFINE result == IF c.kind # "revoke" THEN "changed"
                       ELSE IF first[c.id].revision # c.revision THEN "refused"
                       ELSE IF first[c.id].revoked THEN "unchanged" ELSE "changed"
             q == [c EXCEPT !.done = result]
  <2>1. second' = second /\ third' = (third \ {c}) \cup {q}
    BY <1>6 DEF Authorizing!Perform
  <2>2. result # "no"
    OBVIOUS
  <2> HIDE DEF result
  <2>3. q.done # "no"
    <3>1. "done" \in DOMAIN c
      BY DEF AuthInv, AuthCall
    <3> QED
      BY <2>2, <3>1
  <2> HIDE DEF q
  <2> QED
    BY <1>0, <1>6, <2>1, <2>3, AuthPerforms, NothingNew
<1>7. ASSUME NEW c \in third, Authorizing!Answer(c)
      PROVE  AuthInv' /\ AuthActs
  <2>1. Authorizing!Call("refresh", None, None).kind = "refresh"
    BY DEF Authorizing!Call
  <2>2. \A d \in third' : d \in third \/ d.kind = "refresh"
    BY <1>7, <2>1 DEF Authorizing!Answer
  <2> QED
    BY <1>7, <2>2, AuthAnswers, NothingNew DEF Authorizing!Writes
<1>8. ASSUME NEW c \in third, Authorizing!Fail(c)
      PROVE  AuthInv' /\ AuthActs
  <2>1. "lost" \in DOMAIN c
    BY DEF AuthInv, AuthCall
  <2>2. [c EXCEPT !.lost = TRUE].lost
    BY <2>1
  <2>3. \A d \in third' : d \in third \/ d.lost
    BY <1>8, <2>2 DEF Authorizing!Fail
  <2> QED
    BY <1>8, <2>3, AuthFails, NothingNew
<1> QED
  BY <1>1, <1>2, <1>3, <1>4, <1>5, <1>6, <1>7, <1>8, AuthCalls DEF Authorizing!Next

-------------------------------------------------------------------------------
(* The task page.                                                              *)

\* What the page asks for.
TaskCalls ==
  [kind : {"list", "get", "retry", "cancel", "reconcile", "relist"}, job : Jobs \cup {None},
   late : BOOLEAN, lost : BOOLEAN]

\* A write and the reads that follow it.
Submission(r) == ~r.lost /\ r.kind \in {"retry", "cancel", "reconcile", "relist"}

\* A read of a job that the dialog waits for.
Reading(r) == r.kind = "get" /\ ~r.late

\* The queue, the page and its calls.
TasksTyped ==
  /\ first \in [Jobs -> Tasks!States]
  /\ DOMAIN third = {"online", "rows", "loading", "selected", "reading", "failed", "action",
                     "busy", "unsure"}
  /\ third.busy \in BOOLEAN /\ third.reading \in BOOLEAN /\ third.failed \in BOOLEAN
  /\ third.selected # None => third.selected.job \in Jobs
  /\ third.rows # None => third.rows \in [Jobs -> Tasks!States]
  /\ fourth \subseteq TaskCalls /\ \A r \in fourth : r.lost => Tasks!Write(r)

\* There is one submission at a time, and no read of a job beside it.
OneSubmission ==
  /\ \A r, q \in fourth : Submission(r) /\ Submission(q) => r = q
  /\ \A r \in fourth : Reading(r) => third.reading
  /\ third.busy => ~third.reading

\* A job in doubt is being read, or could not be.
DoubtIsShown ==
  third.selected # None /\ third.selected.job \in third.unsure =>
    /\ third.busy \/ third.failed \/ third.reading
    /\ \A r \in fourth : r.kind = "relist" => third.failed

\* What holds of the task page at every step.
TasksInv == TasksTyped /\ OneSubmission /\ DoubtIsShown /\ Tasks!DialogKeepsItsJob

\* It says what the property says.
LEMMA TasksSay ==
  ASSUME TasksInv
  PROVE  Tasks!DialogKeepsItsJob
BY DEF TasksInv

\* At first the list is asked for.
LEMMA TasksStart ==
  ASSUME Tasks!Init
  PROVE  TasksInv
<1>1. /\ DOMAIN third = {"online", "rows", "loading", "selected", "reading", "failed",
                         "action", "busy", "unsure"}
      /\ third.busy = FALSE /\ third.reading = FALSE /\ third.failed = FALSE
      /\ third.selected = None /\ third.rows = None
  BY DEF Tasks!Init
<1>2. first \in [Jobs -> Tasks!States]
  BY DEF Tasks!Init, Tasks!States, Tasks!Active
<1>3. fourth = {[kind |-> "list", job |-> None, late |-> FALSE, lost |-> FALSE]}
  BY DEF Tasks!Init
<1>4. \A r \in fourth : r \in TaskCalls /\ r.kind = "list" /\ ~r.lost
  <2> DEFINE call == [kind |-> "list", job |-> None, late |-> FALSE, lost |-> FALSE]
  <2>1. call \in TaskCalls /\ call.kind = "list" /\ call.lost = FALSE
    BY DEF TaskCalls
  <2> HIDE DEF call
  <2>2. fourth = {call}
    BY <1>3 DEF call
  <2> QED
    BY <2>1, <2>2
<1> QED
  BY <1>1, <1>2, <1>4 DEF TasksInv, TasksTyped, OneSubmission, DoubtIsShown,
     Tasks!DialogKeepsItsJob, Submission, Reading, Tasks!Write

\* A read begun anew takes the place of the one under way, and of nothing else.
LEMMA Outran ==
  ASSUME NEW kind \in {"list", "get"}, NEW set \in SUBSET TaskCalls,
         \A r \in set : r.lost => Tasks!Write(r)
  PROVE  LET after == Tasks!Outrun(kind, set)
         IN  /\ after \subseteq TaskCalls /\ \A r \in after : r.lost => Tasks!Write(r)
             /\ \A r : Submission(r) => (r \in after <=> r \in set)
             /\ \A r \in after : r.kind = kind => r.late
             /\ \A r \in after : r.kind # kind => r \in set
<1> DEFINE late(r) == [r EXCEPT !.late = TRUE]
<1>1. Tasks!Outrun(kind, set) = {IF r.kind = kind THEN late(r) ELSE r : r \in set}
  BY DEF Tasks!Outrun
<1>2. \A r \in set : /\ late(r) \in TaskCalls /\ late(r).kind = r.kind
                     /\ late(r).lost = r.lost /\ late(r).late = TRUE
  BY DEF TaskCalls
<1> HIDE DEF late
<1>3. ASSUME NEW r \in Tasks!Outrun(kind, set)
      PROVE  \/ r \in set /\ r.kind # kind
             \/ r \in TaskCalls /\ r.kind = kind /\ r.late /\ ~r.lost
  <2>1. PICK q \in set : r = IF q.kind = kind THEN late(q) ELSE q
    BY <1>1
  <2> QED
    BY <1>2, <2>1 DEF Tasks!Write
<1>4. \A r \in set : r.kind # kind => r \in Tasks!Outrun(kind, set)
  BY <1>1
<1>5. /\ Tasks!Outrun(kind, set) \subseteq TaskCalls
      /\ \A r \in Tasks!Outrun(kind, set) : r.lost => Tasks!Write(r)
      /\ \A r \in Tasks!Outrun(kind, set) : r.kind = kind => r.late
      /\ \A r \in Tasks!Outrun(kind, set) : r.kind # kind => r \in set
  BY <1>3
<1>6. \A r : Submission(r) => r.kind # kind
  BY DEF Submission
<1>7. \A r : Submission(r) => (r \in Tasks!Outrun(kind, set) <=> r \in set)
  BY <1>4, <1>5, <1>6
<1> QED
  BY <1>5, <1>7

\* A call that the page makes.
LEMMA Requested ==
  ASSUME NEW kind \in {"list", "get", "retry", "cancel", "reconcile", "relist"},
         NEW job \in Jobs \cup {None}
  PROVE  LET r == Tasks!Request(kind, job)
         IN  /\ r \in TaskCalls /\ r.kind = kind /\ r.job = job /\ ~r.late /\ ~r.lost
             /\ kind \in {"list", "get"} => ~Submission(r)
BY DEF Tasks!Request, TaskCalls, Submission

\* Asking for a read makes no submission, and leaves none out.
LEMMA Asked ==
  ASSUME NEW kind \in {"list", "get"}, NEW job \in Jobs \cup {None},
         NEW set \in SUBSET TaskCalls, \A r \in set : r.lost => Tasks!Write(r)
  PROVE  LET after == Tasks!Ask(kind, job, set)
         IN  /\ after \subseteq TaskCalls /\ \A r \in after : r.lost => Tasks!Write(r)
             /\ \A r : Submission(r) => (r \in after <=> r \in set)
             /\ \A r \in after : Reading(r) => \/ kind = "get" /\ r.job = job
                                               \/ kind = "list" /\ r \in set
<1>1. Tasks!Ask(kind, job, set) = Tasks!Outrun(kind, set) \cup {Tasks!Request(kind, job)}
  BY DEF Tasks!Ask
<1> QED
  BY <1>1, Outran, Requested DEF Reading

\* The steps that neither begin nor end a submission.
LEMMA TasksQuietSteps ==
  ASSUME TasksInv, first' \in [Jobs -> Tasks!States], DOMAIN third' = DOMAIN third,
         third'.busy = third.busy, third'.reading \in BOOLEAN, third'.failed \in BOOLEAN,
         third'.busy => /\ third'.selected = third.selected
                        /\ ~third'.reading /\ third'.failed = third.failed,
         third'.selected # None => third'.selected.job \in Jobs,
         third'.rows # None => third'.rows \in [Jobs -> Tasks!States],
         fourth' \subseteq TaskCalls, \A r \in fourth' : r.lost => Tasks!Write(r),
         \A r : Submission(r) => (r \in fourth' <=> r \in fourth),
         \A r \in fourth' : Reading(r) =>
           third'.reading /\ third'.selected # None /\ third'.selected.job = r.job,
         third'.selected # None /\ third'.selected.job \in third'.unsure =>
           \/ third'.failed \/ third'.reading
           \/ third'.busy /\ third'.selected.job \in third.unsure
  PROVE  TasksInv'
<1> USE DEF TasksInv
<1>1. TasksTyped'
  BY DEF TasksTyped
<1>2. OneSubmission'
  BY DEF OneSubmission
<1>3. \A r \in fourth' : r.kind \in {"reconcile", "relist"} => ~r.lost
  BY DEF Tasks!Write
<1>4. Tasks!DialogKeepsItsJob'
  <2>1. third.busy <=> \E r \in fourth : Submission(r)
    BY DEF Tasks!DialogKeepsItsJob, Submission
  <2>2. third'.busy <=> \E r \in fourth' : Submission(r)
    BY <2>1
  <2>3. ASSUME NEW r \in fourth', ~r.lost /\ (Tasks!Write(r) \/ r.kind = "reconcile")
        PROVE  third'.selected # None /\ third'.selected.job = r.job
    <3>1. Submission(r)
      BY <2>3 DEF Submission, Tasks!Write
    <3>2. third.selected # None /\ third.selected.job = r.job /\ third.busy
      BY <2>1, <2>3, <3>1 DEF Tasks!DialogKeepsItsJob
    <3> QED
      BY <3>2
  <2>4. third'.busy => third'.selected # None
    BY DEF Tasks!DialogKeepsItsJob
  <2> QED
    BY <2>2, <2>3, <2>4 DEF Tasks!DialogKeepsItsJob, Submission, Reading
<1>5. DoubtIsShown'
  <2>1. ASSUME NEW r \in fourth', r.kind = "relist"
        PROVE  Submission(r) /\ r \in fourth /\ third.busy
    <3>1. Submission(r)
      BY <1>3, <2>1 DEF Submission
    <3> QED
      BY <3>1 DEF Tasks!DialogKeepsItsJob, Submission
  <2>2. third'.busy => third'.selected = third.selected /\ third'.failed = third.failed
                       /\ ~third'.reading
    OBVIOUS
  <2> QED
    BY <2>1, <2>2 DEF DoubtIsShown
<1> QED
  BY <1>1, <1>2, <1>4, <1>5

\* The dialog is opened, read, asked in and closed.
LEMMA TasksPage ==
  ASSUME TasksInv,
         Tasks!Load \/ Tasks!CheckStatus \/ Tasks!Refresh \/ Tasks!Connection
           \/ Tasks!Back \/ Tasks!Close \/ (\E job \in Jobs : Tasks!View(job) \/ Tasks!Work(job))
           \/ (\E action \in {"retry", "cancel"} : Tasks!AskAction(action))
  PROVE  TasksInv'
<1> USE DEF TasksInv, TasksTyped
<1>0. /\ \A r \in fourth : r.lost => Tasks!Write(r)
      /\ \A r \in fourth : Reading(r) =>
           third.reading /\ third.selected # None /\ third.selected.job = r.job
      /\ third.selected # None /\ third.selected.job \in third.unsure =>
           third.busy \/ third.failed \/ third.reading
      /\ third.busy => ~third.reading
  BY DEF OneSubmission, DoubtIsShown, Tasks!DialogKeepsItsJob, Reading
<1>1. CASE Tasks!Load
  <2>1. /\ DOMAIN third' = DOMAIN third /\ third'.rows = third.rows
        /\ third'.busy = third.busy
        /\ third'.reading = third.reading /\ third'.failed = third.failed
        /\ third'.selected = third.selected /\ third'.unsure = third.unsure
        /\ fourth' = Tasks!Ask("list", None, fourth) /\ first' = first
    BY <1>1 DEF Tasks!Load, Tasks!Sent
  <2>2. /\ fourth' \subseteq TaskCalls /\ \A r \in fourth' : r.lost => Tasks!Write(r)
        /\ \A r : Submission(r) => (r \in fourth' <=> r \in fourth)
        /\ \A r \in fourth' : Reading(r) => r \in fourth
    BY <1>0, <2>1, Asked
  <2> QED
    BY <1>0, <2>1, <2>2, TasksQuietSteps
<1>2. CASE Tasks!CheckStatus
  <2>1. /\ DOMAIN third' = DOMAIN third /\ third'.rows = third.rows
        /\ third'.busy = third.busy /\ third.busy = FALSE
        /\ third'.reading = TRUE /\ third'.failed = FALSE
        /\ third'.selected = third.selected /\ third.selected # None
        /\ fourth' = Tasks!Ask("get", third.selected.job, fourth) /\ first' = first
    BY <1>2 DEF Tasks!CheckStatus, Tasks!Sent
  <2>2. /\ fourth' \subseteq TaskCalls /\ \A r \in fourth' : r.lost => Tasks!Write(r)
        /\ \A r : Submission(r) => (r \in fourth' <=> r \in fourth)
        /\ \A r \in fourth' : Reading(r) => r.job = third.selected.job
    BY <1>0, <2>1, Asked
  <2> QED
    BY <1>0, <2>1, <2>2, TasksQuietSteps
<1>3. CASE Tasks!Refresh
  <2>1. CASE third.selected = None
    <3>1. /\ DOMAIN third' = DOMAIN third /\ third'.rows = third.rows
        /\ third'.busy = third.busy
          /\ third'.reading = third.reading /\ third'.failed = third.failed
          /\ third'.selected = third.selected /\ third'.unsure = third.unsure
          /\ fourth' = Tasks!Ask("list", None, fourth) /\ first' = first
      BY <1>3, <2>1 DEF Tasks!Refresh, Tasks!Sent
    <3>2. /\ fourth' \subseteq TaskCalls /\ \A r \in fourth' : r.lost => Tasks!Write(r)
          /\ \A r : Submission(r) => (r \in fourth' <=> r \in fourth)
          /\ \A r \in fourth' : Reading(r) => r \in fourth
      BY <1>0, <3>1, Asked
    <3> QED
      BY <1>0, <3>1, <3>2, TasksQuietSteps
  <2>2. CASE third.selected # None
    <3> DEFINE listed == Tasks!Ask("list", None, fourth)
    <3>1. /\ DOMAIN third' = DOMAIN third /\ third'.rows = third.rows
        /\ third'.busy = third.busy /\ third.busy = FALSE
          /\ third'.reading = TRUE /\ third'.failed = FALSE
          /\ third'.selected = third.selected
          /\ fourth' = Tasks!Ask("get", third.selected.job, listed) /\ first' = first
      BY <1>3, <2>2 DEF Tasks!Refresh, Tasks!MayRefresh, Tasks!Sent
    <3>2. /\ listed \subseteq TaskCalls /\ \A r \in listed : r.lost => Tasks!Write(r)
          /\ \A r : Submission(r) => (r \in listed <=> r \in fourth)
      BY <1>0, Asked
    <3> HIDE DEF listed
    <3>3. third.selected.job \in Jobs
      BY <2>2
    <3>4. /\ fourth' \subseteq TaskCalls /\ \A r \in fourth' : r.lost => Tasks!Write(r)
          /\ \A r : Submission(r) => (r \in fourth' <=> r \in listed)
          /\ \A r \in fourth' : Reading(r) => r.job = third.selected.job
      BY <3>1, <3>2, <3>3, Asked
    <3> QED
      BY <2>2, <3>1, <3>2, <3>4, TasksQuietSteps
  <2> QED
    BY <2>1, <2>2
<1>4. CASE Tasks!Connection \/ Tasks!Back
              \/ \E action \in {"retry", "cancel"} : Tasks!AskAction(action)
  <2>1. /\ DOMAIN third' = DOMAIN third /\ third'.rows = third.rows
        /\ third'.busy = third.busy
        /\ third'.reading = third.reading /\ third'.failed = third.failed
        /\ third'.selected = third.selected /\ third'.unsure = third.unsure
        /\ fourth' = fourth /\ first' = first
    BY <1>4 DEF Tasks!Connection, Tasks!Back, Tasks!AskAction
  <2> QED
    BY <1>0, <2>1, TasksQuietSteps
<1>5. CASE Tasks!Close
  <2>1. /\ DOMAIN third' = DOMAIN third /\ third'.rows = third.rows
        /\ third'.busy = third.busy /\ third.busy = FALSE
        /\ third'.reading = third.reading /\ third'.failed = third.failed
        /\ third'.selected = None
        /\ fourth' = Tasks!Outrun("get", fourth) /\ first' = first
    BY <1>5 DEF Tasks!Close
  <2>2. /\ fourth' \subseteq TaskCalls /\ \A r \in fourth' : r.lost => Tasks!Write(r)
        /\ \A r : Submission(r) => (r \in fourth' <=> r \in fourth)
        /\ \A r \in fourth' : ~Reading(r)
    BY <1>0, <2>1, Outran DEF Reading
  <2> QED
    BY <1>0, <2>1, <2>2, TasksQuietSteps
<1>6. ASSUME NEW job \in Jobs, Tasks!View(job)
      PROVE  TasksInv'
  <2>1. /\ DOMAIN third' = DOMAIN third /\ third'.rows = third.rows
        /\ third'.busy = third.busy
        /\ third'.reading = TRUE /\ third'.failed = FALSE /\ third.selected = None
        /\ third.rows # None
        /\ third'.selected = [job |-> job, state |-> third.rows[job]]
        /\ fourth' = Tasks!Ask("get", job, fourth) /\ first' = first
    BY <1>6 DEF Tasks!View, Tasks!Sent
  <2>2. /\ fourth' \subseteq TaskCalls /\ \A r \in fourth' : r.lost => Tasks!Write(r)
        /\ \A r : Submission(r) => (r \in fourth' <=> r \in fourth)
        /\ \A r \in fourth' : Reading(r) => r.job = job
    BY <1>0, <2>1, Asked
  <2>3. third.busy = FALSE
    BY <2>1 DEF Tasks!DialogKeepsItsJob
  <2>4. third.rows[job] \in Tasks!States
    BY <2>1
  <2>5. third'.selected.job = job
    BY <2>1
  <2>6. third'.selected # None
    BY <2>1, <2>4 DEF PagesAssumptions
  <2> QED
    BY <1>0, <2>1, <2>2, <2>3, <2>5, <2>6, TasksQuietSteps
<1>7. ASSUME NEW job \in Jobs, Tasks!Work(job)
      PROVE  TasksInv'
  <2>1. third' = third /\ fourth' = fourth /\ first' \in [Jobs -> Tasks!States]
    BY <1>7 DEF Tasks!Work, Tasks!States
  <2> QED
    BY <1>0, <2>1, TasksQuietSteps
<1> QED
  BY <1>1, <1>2, <1>3, <1>4, <1>5, <1>6, <1>7

\* A write and its reads come to an end: what is in doubt could not be read.
LEMMA TasksEnds ==
  ASSUME TasksInv, NEW r \in fourth, Submission(r),
         first' \in [Jobs -> Tasks!States], DOMAIN third' = DOMAIN third,
         third'.busy = FALSE, third'.reading = third.reading, third'.failed \in BOOLEAN,
         third'.selected = third.selected,
         third'.rows # None => third'.rows \in [Jobs -> Tasks!States],
         fourth' \subseteq TaskCalls,
         \A q \in fourth' : q \in fourth \ {r} \/ (q.lost /\ Tasks!Write(q)),
         third'.selected # None /\ third'.selected.job \in third'.unsure => third'.failed
  PROVE  TasksInv'
<1> USE DEF TasksInv
<1>1. TasksTyped'
  BY DEF TasksTyped
<1>2. \A q \in fourth' : ~Submission(q) /\ (Reading(q) => q \in fourth) /\ q.kind # "relist"
  BY DEF OneSubmission, TasksTyped, Submission, Reading, Tasks!Write
<1>3. third.busy
  BY DEF Tasks!DialogKeepsItsJob, Submission
<1>4. \A q \in fourth' : ~Reading(q)
  BY <1>2, <1>3 DEF OneSubmission
<1>5. OneSubmission'
  BY <1>2, <1>4 DEF OneSubmission
<1>6. DoubtIsShown'
  BY <1>2 DEF DoubtIsShown
<1>7. Tasks!DialogKeepsItsJob'
  BY <1>2, <1>4 DEF Tasks!DialogKeepsItsJob, Submission, Reading, Tasks!Write
<1> QED
  BY <1>1, <1>5, <1>6, <1>7

\* The page waits for one call of its own, and shows the job that it is about.
LEMMA TasksTurn ==
  ASSUME TasksInv, NEW q \in fourth', Submission(q), third.reading = FALSE,
         first' \in [Jobs -> Tasks!States], DOMAIN third' = DOMAIN third,
         third'.busy = TRUE, third'.reading = FALSE, third'.failed \in BOOLEAN,
         third'.selected # None, third'.selected.job \in Jobs,
         q.kind # "relist" => q.job = third'.selected.job,
         third'.rows # None => third'.rows \in [Jobs -> Tasks!States],
         fourth' \subseteq TaskCalls,
         \A r \in fourth' : \/ r = q
                            \/ r \in fourth /\ ~Submission(r)
                            \/ r.kind = "list" /\ ~r.lost,
         q.kind = "relist" /\ third'.selected.job \in third'.unsure => third'.failed
  PROVE  TasksInv'
<1> USE DEF TasksInv
<1>1. TasksTyped'
  BY DEF TasksTyped, Submission
<1>2. \A r \in fourth' : r = q \/ ~Submission(r)
  BY DEF Submission
<1>3. \A r \in fourth' : ~Reading(r)
  BY DEF OneSubmission, Reading, Submission
<1>4. OneSubmission'
  BY <1>2, <1>3 DEF OneSubmission
<1>5. \A r \in fourth' : r.kind = "relist" => r = q
  BY DEF Submission, TasksTyped, Tasks!Write
<1>6. DoubtIsShown'
  BY <1>5 DEF DoubtIsShown
<1>7. Tasks!DialogKeepsItsJob'
  BY <1>2, <1>3 DEF Tasks!DialogKeepsItsJob, Submission, Reading, Tasks!Write
<1> QED
  BY <1>1, <1>4, <1>6, <1>7

\* An answer to a read.
LEMMA TasksReads ==
  ASSUME TasksInv, NEW r \in fourth, Tasks!ReadAnswers(r)
  PROVE  TasksInv'
<1> USE DEF TasksInv, TasksTyped
<1>0. /\ \A q \in fourth : q.lost => Tasks!Write(q)
      /\ \A q \in fourth : Reading(q) =>
           third.reading /\ third.selected # None /\ third.selected.job = q.job
      /\ third.selected # None /\ third.selected.job \in third.unsure =>
           third.busy \/ third.failed \/ third.reading
      /\ third.busy => ~third.reading
  BY DEF OneSubmission, DoubtIsShown, Tasks!DialogKeepsItsJob, Reading
<1>1. r.kind \in {"list", "get"} /\ fourth' = fourth \ {r} /\ first' = first
  BY DEF Tasks!ReadAnswers
<1>2. /\ fourth' \subseteq TaskCalls
      /\ \A q : Submission(q) => (q \in fourth' <=> q \in fourth)
  BY <1>1 DEF Submission
<1>3. CASE r.late
  <2>1. third' = third
    BY <1>3 DEF Tasks!ReadAnswers, Tasks!Timely
  <2> QED
    BY <1>0, <1>1, <1>2, <2>1, TasksQuietSteps
<1>4. CASE r.kind = "list" /\ ~r.late
  <2>1. /\ DOMAIN third' = DOMAIN third /\ third'.busy = third.busy
        /\ third'.reading = third.reading /\ third'.failed = third.failed
        /\ third'.selected = third.selected /\ third'.unsure = third.unsure
        /\ third'.rows = first \/ third'.rows = third.rows
    <3>1. \/ third' = [third EXCEPT !.rows = first, !.loading = FALSE]
          \/ third' = [third EXCEPT !.loading = FALSE]
      BY <1>4 DEF Tasks!ReadAnswers, Tasks!Timely, Tasks!Shown, Tasks!Unread
    <3>2. CASE third' = [third EXCEPT !.rows = first, !.loading = FALSE]
      BY <3>2
    <3>3. CASE third' = [third EXCEPT !.loading = FALSE]
      BY <3>3
    <3> QED
      BY <3>1, <3>2, <3>3
  <2> QED
    BY <1>0, <1>1, <1>2, <2>1, TasksQuietSteps
<1>5. CASE r.kind = "get" /\ ~r.late
  <2>1. Reading(r) /\ ~third.busy /\ third.selected # None /\ third.selected.job = r.job
    BY <1>0, <1>5 DEF Reading
  <2>2. r.job \in Jobs
    BY <2>1
  <2>3. \A q \in fourth' : ~Reading(q)
    <3>1. ASSUME NEW q \in fourth', Reading(q)
          PROVE  q = r
      <4>1. q.kind = r.kind /\ q.late = r.late /\ q.job = r.job
        BY <1>0, <1>1, <2>1, <3>1 DEF Reading, TaskCalls
      <4>2. q.lost = r.lost
        BY <1>0, <1>1, <2>1, <3>1 DEF Reading, TaskCalls, Tasks!Write
      <4> QED
        BY <1>1, <4>1, <4>2 DEF TaskCalls
    <3> QED
      BY <1>1, <3>1
  <2>4. CASE third' = Tasks!Shown(r)
    <3>1. /\ DOMAIN third' = DOMAIN third /\ third'.busy = third.busy
          /\ third'.reading = FALSE /\ third'.failed = third.failed
          /\ third'.selected = [job |-> r.job, state |-> first[r.job]]
          /\ third'.unsure = third.unsure \ {r.job}
          /\ third'.rows = IF third.rows = None THEN None
                           ELSE [third.rows EXCEPT ![r.job] = first[r.job]]
      BY <1>5, <2>4 DEF Tasks!Shown
    <3>2. third'.rows # None => third'.rows \in [Jobs -> Tasks!States]
      BY <2>2, <3>1
    <3>3. third'.selected # None /\ third'.selected.job = r.job
      BY <2>2, <3>1 DEF PagesAssumptions
    <3> QED
      BY <1>0, <1>1, <1>2, <2>1, <2>2, <2>3, <3>1, <3>2, <3>3, TasksQuietSteps
  <2>5. CASE third' = Tasks!Unread(r)
    <3>1. /\ DOMAIN third' = DOMAIN third /\ third'.busy = third.busy
          /\ third'.reading = FALSE /\ third'.failed = TRUE
          /\ third'.selected = third.selected /\ third'.rows = third.rows
      BY <1>5, <2>5 DEF Tasks!Unread
    <3> QED
      BY <1>0, <1>1, <1>2, <2>1, <2>2, <2>3, <3>1, TasksQuietSteps
  <2> QED
    BY <1>5, <2>4, <2>5 DEF Tasks!ReadAnswers, Tasks!Timely
<1> QED
  BY <1>1, <1>3, <1>4, <1>5

\* An answer to a write, or none.
LEMMA TasksWrites ==
  ASSUME TasksInv, NEW r \in fourth, Tasks!WriteAnswers(r) \/ Tasks!WriteLost(r)
  PROVE  TasksInv'
<1> USE DEF TasksInv, TasksTyped
<1>1. Tasks!Write(r) /\ r \in TaskCalls
  BY DEF Tasks!WriteAnswers, Tasks!WriteLost
<1>2. first' \in [Jobs -> Tasks!States]
  BY DEF Tasks!WriteAnswers, Tasks!WriteLost, Tasks!Carried, Tasks!States, Tasks!Active
<1>3. CASE r.lost
  <2>1. third' = third /\ fourth' = fourth \ {r}
    BY <1>3 DEF Tasks!WriteAnswers, Tasks!WriteLost
  <2>2. \A q : Submission(q) => (q \in fourth' <=> q \in fourth)
    BY <1>3, <2>1 DEF Submission
  <2>3. \A q \in fourth : Reading(q) =>
           third.reading /\ third.selected # None /\ third.selected.job = q.job
    BY DEF OneSubmission, Tasks!DialogKeepsItsJob, Reading
  <2>4. /\ third.busy => ~third.reading
        /\ third.selected # None /\ third.selected.job \in third.unsure =>
             third.busy \/ third.failed \/ third.reading
    BY DEF OneSubmission, DoubtIsShown
  <2> QED
    BY <1>2, <2>1, <2>2, <2>3, <2>4, TasksQuietSteps
<1>4. CASE ~r.lost
  <2>1. Submission(r) /\ third.busy /\ third.selected # None /\ third.selected.job = r.job
    BY <1>1, <1>4 DEF Submission, Tasks!DialogKeepsItsJob, Tasks!Write
  <2>2. third.reading = FALSE
    BY <2>1 DEF OneSubmission
  <2>3. CASE /\ DOMAIN third' = DOMAIN third /\ third'.busy = FALSE /\ third'.failed = TRUE
             /\ third'.reading = third.reading /\ third'.selected = third.selected
             /\ third'.rows = third.rows
             /\ \/ fourth' = fourth \ {r}
                \/ fourth' = (fourth \ {r}) \cup {[r EXCEPT !.lost = TRUE]}
    <3> DEFINE lost == [r EXCEPT !.lost = TRUE]
    <3>1. lost \in TaskCalls /\ lost.lost = TRUE /\ Tasks!Write(lost)
      BY <1>1 DEF TaskCalls, Tasks!Write
    <3>2. fourth' \subseteq (fourth \ {r}) \cup {lost}
      BY <2>3
    <3> HIDE DEF lost
    <3> QED
      BY <1>2, <2>1, <2>3, <3>1, <3>2, TasksEnds
  <2>4. CASE /\ third' = [third EXCEPT !.action = None]
             /\ fourth' = (fourth \ {r}) \cup {Tasks!Request("reconcile", r.job)}
    <3> DEFINE q == Tasks!Request("reconcile", r.job)
    <3>1. q \in TaskCalls /\ q.kind = "reconcile" /\ q.job = r.job /\ ~q.lost
      BY <1>1, Requested DEF TaskCalls
    <3>2. Submission(q)
      BY <3>1 DEF Submission
    <3> HIDE DEF q
    <3>3. /\ DOMAIN third' = DOMAIN third /\ third'.busy = third.busy
          /\ third'.failed = third.failed /\ third'.reading = third.reading
          /\ third'.selected = third.selected /\ third'.rows = third.rows
      BY <2>4
    <3>4. fourth' = (fourth \ {r}) \cup {q}
      BY <2>4 DEF q
    <3>5. \A x \in fourth' : x = q \/ (x \in fourth /\ ~Submission(x))
      BY <2>1, <3>4 DEF OneSubmission
    <3> QED
      BY <1>2, <2>1, <2>2, <3>1, <3>2, <3>3, <3>4, <3>5, TasksTurn
  <2>5. ASSUME Tasks!WriteAnswers(r)
        PROVE  TasksInv'
    <3>1. CASE r.kind = "retry" /\ first[r.job] # "failed"
      <4>1. /\ DOMAIN third' = DOMAIN third /\ third'.busy = FALSE /\ third'.failed = TRUE
            /\ third'.reading = third.reading /\ third'.selected = third.selected
            /\ third'.rows = third.rows /\ fourth' = fourth \ {r}
        <5>1. /\ third' = [third EXCEPT !.action = None, !.failed = TRUE, !.busy = FALSE,
                                        !.unsure = @ \cup {r.job}]
              /\ fourth' = fourth \ {r}
          BY <1>4, <2>5, <3>1 DEF Tasks!WriteAnswers
        <5> QED
          BY <5>1
      <4> QED
        BY <2>3, <4>1
    <3>2. CASE ~(r.kind = "retry" /\ first[r.job] # "failed")
      BY <1>4, <2>4, <2>5, <3>2 DEF Tasks!WriteAnswers
    <3> QED
      BY <3>1, <3>2
  <2>6. ASSUME Tasks!WriteLost(r)
        PROVE  TasksInv'
    <3>1. /\ DOMAIN third' = DOMAIN third /\ third'.busy = FALSE /\ third'.failed = TRUE
          /\ third'.reading = third.reading /\ third'.selected = third.selected
          /\ third'.rows = third.rows
      BY <2>6 DEF Tasks!WriteLost, Tasks!Unconfirmed
    <3>2. \/ fourth' = fourth \ {r}
          \/ fourth' = (fourth \ {r}) \cup {[r EXCEPT !.lost = TRUE]}
      BY <2>6 DEF Tasks!WriteLost
    <3> QED
      BY <2>3, <3>1, <3>2
  <2> QED
    BY <2>5, <2>6
<1> QED
  BY <1>3, <1>4

\* The job is read back after its write.
LEMMA TasksReconcile ==
  ASSUME TasksInv, NEW r \in fourth, Tasks!Reconciled(r)
  PROVE  TasksInv'
<1> USE DEF TasksInv, TasksTyped
<1>1. r \in TaskCalls /\ r.kind = "reconcile" /\ ~r.lost
  BY DEF Tasks!Reconciled, Tasks!Write
<1>2. /\ Submission(r) /\ third.busy /\ third.selected # None
      /\ third.selected.job = r.job /\ r.job \in Jobs
  BY <1>1 DEF Submission, Tasks!DialogKeepsItsJob
<1>3. third.reading = FALSE
  BY <1>2 DEF OneSubmission
<1> DEFINE q == Tasks!Request("relist", None)
           rest == Tasks!Outrun("list", fourth \ {r})
<1>4. q \in TaskCalls /\ q.kind = "relist" /\ ~q.lost
  BY Requested
<1>5. Submission(q)
  BY <1>4 DEF Submission
<1>6. /\ rest \subseteq TaskCalls /\ \A x \in rest : x.lost => Tasks!Write(x)
      /\ \A x \in rest : x.kind # "list" => x \in fourth \ {r}
  BY Outran
<1>7. fourth' = rest \cup {q} /\ first' = first
  BY DEF Tasks!Reconciled
<1> HIDE DEF q, rest
<1>8. \A x \in fourth' : x = q \/ (x \in fourth /\ ~Submission(x)) \/ (x.kind = "list" /\ ~x.lost)
  BY <1>2, <1>6, <1>7 DEF OneSubmission, Tasks!Write
<1>9. CASE third' = [third EXCEPT !.failed = TRUE, !.loading = TRUE]
  <2>1. /\ DOMAIN third' = DOMAIN third /\ third'.busy = third.busy
        /\ third'.failed = TRUE /\ third'.reading = third.reading
        /\ third'.selected = third.selected /\ third'.rows = third.rows
    BY <1>9
  <2> QED
    BY <1>2, <1>3, <1>4, <1>5, <1>6, <1>7, <1>8, <2>1, TasksTurn
<1>10. CASE third' = [third EXCEPT !.selected = [job |-> r.job, state |-> first[r.job]],
                                   !.unsure = @ \ {r.job}, !.loading = TRUE]
  <2>1. /\ DOMAIN third' = DOMAIN third /\ third'.busy = third.busy
        /\ third'.failed = third.failed /\ third'.reading = third.reading
        /\ third'.selected = [job |-> r.job, state |-> first[r.job]]
        /\ third'.rows = third.rows /\ third'.unsure = third.unsure \ {r.job}
    BY <1>10
  <2>2. third'.selected # None /\ third'.selected.job = r.job
    BY <1>2, <2>1 DEF PagesAssumptions
  <2> QED
    BY <1>2, <1>3, <1>4, <1>5, <1>6, <1>7, <1>8, <2>1, <2>2, TasksTurn
<1> QED
  BY <1>9, <1>10 DEF Tasks!Reconciled

\* The list is read back after it, and the page is free again.
LEMMA TasksRelist ==
  ASSUME TasksInv, NEW r \in fourth, Tasks!Relisted(r)
  PROVE  TasksInv'
<1> USE DEF TasksInv, TasksTyped
<1>1. r.kind = "relist" /\ ~r.lost /\ fourth' = fourth \ {r} /\ first' = first
  BY DEF Tasks!Relisted, Tasks!Write
<1>2. Submission(r)
  BY <1>1 DEF Submission
<1>3. /\ DOMAIN third' = DOMAIN third /\ third'.busy = FALSE
      /\ third'.failed = third.failed /\ third'.reading = third.reading
      /\ third'.selected = third.selected /\ third'.unsure = third.unsure
      /\ third'.rows = first \/ third'.rows = third.rows
  BY DEF Tasks!Relisted
<1>4. third.selected # None /\ third.selected.job \in third.unsure => third.failed
  BY <1>1 DEF DoubtIsShown
<1> QED
  BY <1>1, <1>2, <1>3, <1>4, TasksEnds

\* A retry or a cancellation is asked for.
LEMMA TasksExecute ==
  ASSUME TasksInv, Tasks!Execute
  PROVE  /\ TasksInv'
         /\ third.selected # None /\ third.selected.job \notin third.unsure
         /\ fourth' \ fourth \subseteq
              {Tasks!Request(third.action, third.selected.job)}
<1> USE DEF TasksInv, TasksTyped
<1>1. /\ third.busy = FALSE /\ third.reading = FALSE /\ third.failed = FALSE
      /\ third.selected # None /\ third.action \in {"retry", "cancel"}
  BY DEF Tasks!Execute, Tasks!Settled, Tasks!Offered, Tasks!Active
<1> DEFINE q == Tasks!Request(third.action, third.selected.job)
<1>2. /\ q \in TaskCalls /\ q.kind \in {"retry", "cancel"} /\ ~q.lost
      /\ q.job = third.selected.job
  BY <1>1, Requested
<1>3. Submission(q)
  BY <1>2 DEF Submission
<1>4. fourth' = fourth \cup {q} /\ first' = first
  BY DEF Tasks!Execute, Tasks!Sent
<1> HIDE DEF q
<1>5. /\ DOMAIN third' = DOMAIN third /\ third'.busy = TRUE
      /\ third'.failed = third.failed /\ third'.reading = third.reading
      /\ third'.selected = third.selected /\ third'.rows = third.rows
  BY DEF Tasks!Execute
<1>6. \A x \in fourth : ~Submission(x)
  BY <1>1 DEF Submission, Tasks!DialogKeepsItsJob
<1>7. \A x \in fourth' : x = q \/ (x \in fourth /\ ~Submission(x))
  BY <1>4, <1>6
<1>8. TasksInv'
  BY <1>1, <1>2, <1>3, <1>4, <1>5, <1>7, TasksTurn
<1>9. third.selected.job \notin third.unsure
  BY <1>1 DEF DoubtIsShown
<1> QED
  BY <1>1, <1>4, <1>8, <1>9 DEF q

\* Every step of the page keeps it.
LEMMA TasksSteps ==
  ASSUME TasksInv, Tasks!Next
  PROVE  TasksInv'
<1>1. ASSUME NEW r \in fourth, Tasks!Answers(r)
      PROVE  TasksInv'
  BY <1>1, TasksReads, TasksWrites, TasksReconcile, TasksRelist DEF Tasks!Answers
<1> QED
  BY <1>1, TasksPage, TasksExecute DEF Tasks!Next

\* Only the button makes a write, and nothing is in doubt then.
LEMMA TasksLook ==
  ASSUME TasksInv, Tasks!Next
  PROVE  Tasks!LooksBeforeRepeating
<1> DEFINE New == \A r \in fourth' : Tasks!Write(r) /\ ~r.lost => r \in fourth
<1>0. New => Tasks!LooksBeforeRepeating
  BY DEF Tasks!LooksBeforeRepeating
<1>1. fourth \subseteq TaskCalls /\ (\A r \in fourth : r.lost => Tasks!Write(r))
      /\ (third.selected # None => third.selected.job \in Jobs)
  BY DEF TasksInv, TasksTyped
<1>2. ASSUME NEW kind \in {"list", "get"}, NEW job \in Jobs \cup {None},
             NEW set \in SUBSET TaskCalls, \A r \in set : r.lost => Tasks!Write(r),
             fourth' = Tasks!Ask(kind, job, set),
             \A r : Submission(r) => (r \in set <=> r \in fourth)
      PROVE  New
  <2>1. \A r : Submission(r) => (r \in fourth' <=> r \in set)
    BY <1>2, Asked
  <2> QED
    BY <1>2, <2>1 DEF Submission, Tasks!Write
<1>3. CASE Tasks!Execute
  <2>1. /\ third.selected.job \notin third.unsure
        /\ fourth' \ fourth \subseteq {Tasks!Request(third.action, third.selected.job)}
    BY <1>3, TasksExecute
  <2> QED
    BY <2>1 DEF Tasks!LooksBeforeRepeating, Tasks!Request
<1>4. CASE Tasks!Load
  BY <1>0, <1>1, <1>2, <1>4 DEF Tasks!Load, Tasks!Sent
<1>5. CASE Tasks!CheckStatus
  BY <1>0, <1>1, <1>2, <1>5 DEF Tasks!CheckStatus, Tasks!Sent
<1>6. CASE Tasks!Refresh
  <2> DEFINE listed == Tasks!Ask("list", None, fourth)
  <2>1. /\ listed \subseteq TaskCalls /\ \A r \in listed : r.lost => Tasks!Write(r)
        /\ \A r : Submission(r) => (r \in listed <=> r \in fourth)
    BY <1>1, Asked
  <2>2. CASE third.selected = None
    BY <1>0, <1>1, <1>2, <1>6, <2>2 DEF Tasks!Refresh, Tasks!Sent
  <2>3. CASE third.selected # None
    <3>1. fourth' = Tasks!Ask("get", third.selected.job, listed)
      BY <1>6, <2>3 DEF Tasks!Refresh, Tasks!Sent
    <3> HIDE DEF listed
    <3> QED
      BY <1>0, <1>1, <1>2, <2>1, <2>3, <3>1
  <2> QED
    BY <2>2, <2>3
<1>7. CASE Tasks!Connection \/ Tasks!Back
              \/ \E action \in {"retry", "cancel"} : Tasks!AskAction(action)
  BY <1>0, <1>7 DEF Tasks!Connection, Tasks!Back, Tasks!AskAction
<1>8. CASE Tasks!Close
  <2>1. \A r : Submission(r) => (r \in fourth' <=> r \in fourth)
    BY <1>1, <1>8, Outran DEF Tasks!Close
  <2> QED
    BY <1>0, <2>1 DEF Submission, Tasks!Write
<1>9. ASSUME NEW job \in Jobs, Tasks!View(job)
      PROVE  Tasks!LooksBeforeRepeating
  BY <1>0, <1>1, <1>2, <1>9 DEF Tasks!View, Tasks!Sent
<1>10. ASSUME NEW job \in Jobs, Tasks!Work(job)
       PROVE  Tasks!LooksBeforeRepeating
  BY <1>0, <1>10 DEF Tasks!Work
<1>11. ASSUME NEW r \in fourth, Tasks!Answers(r)
       PROVE  Tasks!LooksBeforeRepeating
  <2>1. CASE Tasks!ReadAnswers(r) \/ Tasks!Relisted(r)
    BY <1>0, <2>1 DEF Tasks!ReadAnswers, Tasks!Relisted
  <2>2. CASE Tasks!Reconciled(r)
    <3>1. fourth' = Tasks!Outrun("list", fourth \ {r}) \cup {Tasks!Request("relist", None)}
      BY <2>2 DEF Tasks!Reconciled
    <3>2. \A x \in Tasks!Outrun("list", fourth \ {r}) : Submission(x) => x \in fourth
      BY <1>1, Outran
    <3>3. Tasks!Request("relist", None).kind = "relist"
      BY DEF Tasks!Request
    <3>4. New
      BY <3>1, <3>2, <3>3 DEF Tasks!Write, Submission
    <3> QED
      BY <1>0, <3>4
  <2>3. CASE Tasks!WriteAnswers(r)
    <3>1. fourth' \subseteq fourth \cup {Tasks!Request("reconcile", r.job)}
      BY <2>3 DEF Tasks!WriteAnswers
    <3> QED
      BY <1>0, <3>1 DEF Tasks!Request, Tasks!Write
  <2>4. CASE Tasks!WriteLost(r)
    <3>1. fourth' \subseteq fourth \cup {[r EXCEPT !.lost = TRUE]}
      BY <2>4 DEF Tasks!WriteLost
    <3>2. [r EXCEPT !.lost = TRUE].lost = TRUE
      BY <1>1 DEF TaskCalls
    <3> QED
      BY <1>0, <3>1, <3>2
  <2> QED
    BY <1>11, <2>1, <2>2, <2>3, <2>4 DEF Tasks!Answers
<1> QED
  BY <1>3, <1>4, <1>5, <1>6, <1>7, <1>8, <1>9, <1>10, <1>11 DEF Tasks!Next

-------------------------------------------------------------------------------
(* The administration pages.                                                   *)

\* A write names what the operator saw, unless it replaces nothing.
RequestOK(r) ==
  /\ DOMAIN r = {"kind", "at", "seen", "expected"}
  /\ r.kind = "tokensIssue" \/ (r.expected \in Nat /\ r.seen = r.expected)

\* The server and the page.
DeskTyped ==
  /\ DOMAIN first = {"revision", "rights", "orphan"} /\ first.revision \in Nat
  /\ DOMAIN second = {"route", "info", "rows", "query", "open", "base", "created", "asking",
                      "sent", "run", "filled", "blocked", "delivery", "ready", "doubt"}
  /\ DOMAIN second.rows = {"data", "busy", "failed"} /\ second.rows.data \in Nat \cup {None}
  /\ DOMAIN second.info = {"data", "busy", "failed"}

\* A doubt blocks its page until rows that were asked for afterwards are there. On another
\* page none have been shown yet, and only a write that needs none of them is asked for.
DoubtBlocks ==
  /\ second.doubt \in {"none", "here", "left"}
  /\ second.doubt = "here" =>
       second.blocked /\ (second.run = "reloading" /\ ~second.rows.busy => second.rows.failed)
  /\ second.doubt = "left" =>
       /\ second.rows.busy \/ ~Administration!Shown(second.rows)
       /\ second.asking # None => second.asking.kind \in Administration!FromOlderRows

\* The editor of a role starts from the rows it hangs below.
EditsTheRows == second.open = "role" => second.base = second.rows.data

\* What is asked for and what is sent.
RequestsOK ==
  /\ second.asking # None => RequestOK(second.asking)
  /\ second.run = "sent" => RequestOK(second.sent)

\* What holds of the administration pages at every step.
DeskInv == DeskTyped /\ DoubtBlocks /\ EditsTheRows /\ RequestsOK

\* A step of the pages decides on what is, and repeats nothing unseen.
DeskActs == Administration!LooksBeforeRepeating /\ Administration!DecidedOnWhatIs

\* At first nothing is asked for.
LEMMA DeskStarts ==
  ASSUME Administration!Init
  PROVE  DeskInv
<1>1. PICK route \in Administration!Routes : \E q \in Administration!DirectoryLocation(route) :
        second = Administration!Fresh(route, Administration!Unread, Administration!Unread, q, "none")
  BY DEF Administration!Init
<1>2. PICK q : second =
        Administration!Fresh(route, Administration!Unread, Administration!Unread, q, "none")
  BY <1>1
<1>3. first = [revision |-> 0, rights |-> "full", orphan |-> None]
  BY DEF Administration!Init
<1> QED
  BY <1>2, <1>3 DEF DeskInv, DeskTyped, DoubtBlocks, EditsTheRows, RequestsOK,
     Administration!Fresh, Administration!Unread

\* A step that leaves the write under way alone, or ends it.
LEMMA DeskGoesOn ==
  ASSUME second'.run # "sent" \/ (second'.run = second.run /\ second'.sent = second.sent)
  PROVE  DeskActs
BY DEF DeskActs, Administration!LooksBeforeRepeating, Administration!DecidedOnWhatIs

\* A step beside the rows and the write.
LEMMA DeskKept ==
  ASSUME DeskInv, DOMAIN first' = DOMAIN first, first'.revision \in Nat,
         DOMAIN second' = DOMAIN second, second'.rows = second.rows,
         DOMAIN second'.info = DOMAIN second.info,
         second'.run = second.run, second'.sent = second.sent,
         second'.doubt = second.doubt, second'.blocked = second.blocked,
         second'.open = "role" => second'.base = second.rows.data,
         second'.asking # None => RequestOK(second'.asking),
         \/ second'.asking \in {None, second.asking}
         \/ second'.doubt # "left"
         \/ second'.asking.kind \in Administration!FromOlderRows
  PROVE  DeskInv' /\ DeskActs
<1>1. DeskTyped' /\ DoubtBlocks' /\ EditsTheRows' /\ RequestsOK'
  BY DEF DeskInv, DeskTyped, DoubtBlocks, EditsTheRows, RequestsOK
<1> QED
  BY <1>1, DeskGoesOn DEF DeskInv

\* Another page, or the page built anew.
LEMMA DeskFresh ==
  ASSUME DeskInv, DOMAIN first' = DOMAIN first, first'.revision \in Nat,
         NEW route, NEW info, NEW rows, NEW query,
         DOMAIN info = DOMAIN second.info, DOMAIN rows = DOMAIN second.rows,
         rows.data \in Nat \cup {None},
         DOMAIN second' = DOMAIN second, second'.info = info, second'.rows = rows,
         second'.asking = None, second'.run = "idle", second'.doubt \in {"none", "left"},
         rows.busy, second'.open # "role"
  PROVE  DeskInv' /\ DeskActs
<1>1. DeskTyped' /\ DoubtBlocks' /\ EditsTheRows' /\ RequestsOK'
  BY DEF DeskInv, DeskTyped, DoubtBlocks, EditsTheRows, RequestsOK
<1> QED
  BY <1>1, DeskGoesOn DEF DeskInv

\* Drawers and forms are opened, filled in and closed.
LEMMA DeskForms ==
  ASSUME DeskInv,
         \/ Administration!OpenMember \/ Administration!OpenRole \/ Administration!OpenIssue
         \/ Administration!OpenToken \/ Administration!OpenEvent
         \/ Administration!PickIdentity \/ Administration!DescribeRole
         \/ Administration!ChangePermissions \/ Administration!ChooseScopes
         \/ Administration!Close \/ Administration!CreatorCloses
         \/ Administration!DismissCredential \/ Administration!Cancel
  PROVE  DeskInv' /\ DeskActs
<1>0. /\ first.revision \in Nat
      /\ second.open = "role" => second.base = second.rows.data
      /\ second.asking # None => RequestOK(second.asking)
      /\ DOMAIN second = {"route", "info", "rows", "query", "open", "base", "created",
                          "asking", "sent", "run", "filled", "blocked", "delivery", "ready",
                          "doubt"}
  BY DEF DeskInv, DeskTyped, EditsTheRows, RequestsOK
<1> DEFINE Kept ==
      /\ first' = first /\ DOMAIN second' = DOMAIN second /\ second'.rows = second.rows
      /\ second'.info = second.info /\ second'.run = second.run /\ second'.sent = second.sent
      /\ second'.doubt = second.doubt /\ second'.blocked = second.blocked
      /\ second'.open = "role" => second'.base = second.rows.data
      /\ second'.asking = second.asking \/ second'.asking = None
<1>s. SUFFICES Kept
  BY <1>0, DeskKept
<1>1. ASSUME NEW drawer, second' = Administration!Opened(drawer), first' = first
      PROVE  Kept
  BY <1>0, <1>1 DEF Administration!Opened
<1>2. CASE Administration!OpenMember
  BY <1>1, <1>2 DEF Administration!OpenMember, Administration!Open
<1>3. CASE Administration!OpenRole
  <2>1. CASE second' = Administration!Opened("role") /\ first' = first
    BY <1>1, <2>1
  <2>2. ASSUME NEW kept \in BOOLEAN, first' = first,
               second' = [Administration!Opened("creator") EXCEPT !.filled = kept]
        PROVE  Kept
    BY <1>0, <2>2 DEF Administration!Opened
  <2> QED
    BY <1>3, <2>1, <2>2 DEF Administration!OpenRole, Administration!Open
<1>4. CASE Administration!OpenIssue \/ Administration!OpenToken \/ Administration!OpenEvent
  BY <1>1, <1>4 DEF Administration!OpenIssue, Administration!OpenToken,
     Administration!OpenEvent, Administration!Open
<1>5. ASSUME NEW drawer, NEW filled, Administration!Form(drawer, filled)
      PROVE  Kept
  BY <1>0, <1>5 DEF Administration!Form
<1>6. CASE Administration!PickIdentity \/ Administration!DescribeRole
           \/ Administration!ChangePermissions \/ Administration!ChooseScopes
  BY <1>5, <1>6 DEF Administration!PickIdentity, Administration!DescribeRole,
     Administration!ChangePermissions, Administration!ChooseScopes
<1>7. CASE Administration!Close
  BY <1>0, <1>7 DEF Administration!Close
<1>8. CASE Administration!CreatorCloses
  BY <1>0, <1>8 DEF Administration!CreatorCloses
<1>9. CASE Administration!DismissCredential
  BY <1>0, <1>9 DEF Administration!DismissCredential
<1>10. CASE Administration!Cancel
  BY <1>0, <1>10 DEF Administration!Cancel
<1> QED
  BY <1>2, <1>3, <1>4, <1>6, <1>7, <1>8, <1>9, <1>10

\* A write is asked for on the rows it hangs below.
LEMMA DeskAsks ==
  ASSUME DeskInv,
         \/ Administration!AskMembership \/ Administration!AskRemoval
         \/ Administration!AskDisable \/ Administration!AskSession \/ Administration!AskSave
         \/ Administration!AskCreate \/ Administration!AskIssue \/ Administration!AskToken
  PROVE  DeskInv' /\ DeskActs
<1>0. /\ first.revision \in Nat
      /\ second.open = "role" => second.base = second.rows.data
      /\ second.rows.data \in Nat \cup {None}
      /\ DOMAIN second = {"route", "info", "rows", "query", "open", "base", "created",
                          "asking", "sent", "run", "filled", "blocked", "delivery", "ready",
                          "doubt"}
  BY DEF DeskInv, DeskTyped, EditsTheRows
<1>1. PICK kind \in DOMAIN Administration!Writes :
        /\ Administration!AskFor(kind)
        /\ kind \in Administration!FromOlderRows \/ ~second.rows.busy
  BY DEF Administration!FromOlderRows, Administration!AskMembership, Administration!AskRemoval, Administration!AskDisable,
     Administration!AskSession, Administration!AskSave, Administration!AskCreate,
     Administration!AskIssue, Administration!AskToken, Administration!Writes
<1> DEFINE r == Administration!Wanted(kind)
<1>2. /\ first' = first /\ DOMAIN second' = DOMAIN second /\ second'.rows = second.rows
      /\ second'.info = second.info /\ second'.run = second.run /\ second'.sent = second.sent
      /\ second'.doubt = second.doubt /\ second'.blocked = second.blocked
      /\ second'.open = second.open /\ second'.base = second.base
      /\ second'.asking = r
  BY <1>0, <1>1 DEF Administration!AskFor, Administration!Confirm
<1>3. RequestOK(r)
  <2>1. CASE kind = "tokensIssue"
    BY <2>1 DEF RequestOK, Administration!Wanted
  <2>2. CASE kind # "tokensIssue"
    <3>1. second.open \in Administration!Writes[kind] /\ Administration!Drawn(second.open)
      BY <1>1 DEF Administration!AskFor
    <3>2. second.open \notin {"issue", "event"} /\ (kind = "rolesSave" => second.open = "role")
      BY <2>2, <3>1 DEF Administration!Writes
    <3>3. second.rows.data # None
      BY <3>1, <3>2 DEF Administration!Drawn, Administration!Shown
    <3>4. /\ DOMAIN r = {"kind", "at", "seen", "expected"} /\ r.expected = second.rows.data
          /\ r.seen = IF kind = "rolesSave" THEN second.base ELSE second.rows.data
      BY <2>2 DEF Administration!Wanted
    <3> HIDE DEF r
    <3> QED
      BY <1>0, <3>2, <3>3, <3>4 DEF RequestOK
  <2> QED
    BY <2>1, <2>2
<1>4. second.doubt = "left" => kind \in Administration!FromOlderRows
  <2>1. SUFFICES ASSUME second.doubt = "left", kind \notin Administration!FromOlderRows
                 PROVE  FALSE
    OBVIOUS
  <2>2. second.open \in {"add", "member", "user"} /\ Administration!Drawn(second.open)
    BY <1>1, <2>1 DEF Administration!AskFor, Administration!Writes, Administration!FromOlderRows
  <2>3. Administration!Shown(second.rows)
    BY <2>2 DEF Administration!Drawn
  <2> QED
    BY <1>1, <2>1, <2>3 DEF DeskInv, DoubtBlocks
<1>5. r.kind = kind
  BY DEF Administration!Wanted
<1> HIDE DEF r
<1> QED
  BY <1>0, <1>2, <1>3, <1>4, <1>5, DeskKept

\* A write is sent; its page is in no doubt then.
LEMMA DeskSends ==
  ASSUME DeskInv, Administration!Execute
  PROVE  DeskInv' /\ DeskActs
<1> USE DEF DeskInv, DeskTyped
<1>1. /\ first' = first /\ DOMAIN second' = DOMAIN second /\ second'.rows = second.rows
      /\ second'.info = second.info /\ second'.run = "sent" /\ second'.sent = second.asking
      /\ second'.doubt = second.doubt /\ second'.blocked = second.blocked
      /\ second'.open = second.open /\ second'.base = second.base
      /\ second'.asking = second.asking
      /\ second.asking # None /\ ~second.blocked /\ second.run = "idle"
  BY DEF Administration!Execute, Administration!Pending
<1>2. /\ second.doubt # "here"
      /\ second.doubt = "left" => second.asking.kind \in Administration!FromOlderRows
  BY <1>1 DEF DoubtBlocks
<1>3. DeskTyped' /\ DoubtBlocks' /\ EditsTheRows' /\ RequestsOK'
  BY <1>1, <1>2 DEF DoubtBlocks, EditsTheRows, RequestsOK
<1>4. DeskActs
  BY <1>1, <1>2 DEF DeskActs, Administration!LooksBeforeRepeating,
     Administration!DecidedOnWhatIs
<1> QED
  BY <1>3, <1>4

\* A write ends, and what it leaves is read again.
LEMMA DeskEnds ==
  ASSUME DeskInv,
         \/ Administration!Succeeds \/ Administration!Invalid \/ Administration!Fails
         \/ Administration!Settle \/ Administration!Reload \/ Administration!ReloadEnds
  PROVE  DeskInv' /\ DeskActs
<1> USE DEF DeskInv, DeskTyped
<1> DEFINE Asks == /\ second'.info = Administration!Asked(second.info)
                   /\ second'.rows = Administration!Asked(second.rows)
           Same == /\ DOMAIN first' = DOMAIN first /\ first'.revision = first.revision
                   /\ DOMAIN second' = DOMAIN second /\ second'.open = second.open
                   /\ second'.base = second.base
                   /\ second'.asking = second.asking \/ second'.asking = None
<1>1. /\ DOMAIN Administration!Asked(second.rows) = DOMAIN second.rows
      /\ Administration!Asked(second.rows).data = second.rows.data
      /\ Administration!Asked(second.rows).busy = TRUE
      /\ DOMAIN Administration!Asked(second.info) = DOMAIN second.info
  BY DEF Administration!Asked
<1>2. CASE Administration!Succeeds
  <2>1. /\ Asks /\ Same /\ second'.run = "settling" /\ second'.doubt = second.doubt
        /\ second'.blocked = second.blocked
    BY <1>2 DEF Administration!Succeeds, Administration!Invalidated
  <2>2. DeskTyped' /\ DoubtBlocks' /\ EditsTheRows' /\ RequestsOK'
    BY <1>1, <2>1 DEF DoubtBlocks, EditsTheRows, RequestsOK
  <2> QED
    BY <2>1, <2>2, DeskGoesOn
<1>3. CASE Administration!Invalid
  <2>1. /\ Same /\ second'.run = "idle" /\ second'.doubt = second.doubt
        /\ second'.blocked = second.blocked /\ second'.rows = second.rows
        /\ second'.info = second.info
    BY <1>3 DEF Administration!Invalid
  <2>2. DeskTyped' /\ DoubtBlocks' /\ EditsTheRows' /\ RequestsOK'
    BY <2>1 DEF DoubtBlocks, EditsTheRows, RequestsOK
  <2> QED
    BY <2>1, <2>2, DeskGoesOn
<1>4. CASE Administration!Fails
  <2>1. /\ Asks /\ Same /\ second'.run = "settling" /\ second'.blocked = TRUE
        /\ second'.doubt = "here"
    BY <1>4 DEF Administration!Fails, Administration!Invalidated
  <2>2. DeskTyped' /\ DoubtBlocks' /\ EditsTheRows' /\ RequestsOK'
    BY <1>1, <2>1 DEF DoubtBlocks, EditsTheRows, RequestsOK
  <2> QED
    BY <2>1, <2>2, DeskGoesOn
<1>5. CASE Administration!Settle
  <2>1. /\ Same /\ second'.run = "idle" /\ second'.doubt = second.doubt
        /\ second'.blocked = second.blocked /\ second'.rows = second.rows
        /\ second'.info = second.info
    BY <1>5 DEF Administration!Settle
  <2>2. DeskTyped' /\ DoubtBlocks' /\ EditsTheRows' /\ RequestsOK'
    BY <2>1 DEF DoubtBlocks, EditsTheRows, RequestsOK
  <2> QED
    BY <2>1, <2>2, DeskGoesOn
<1>6. CASE Administration!Reload
  <2>1. /\ Asks /\ Same /\ second'.run = "reloading" /\ second'.doubt = second.doubt
        /\ second'.blocked = second.blocked
    BY <1>6 DEF Administration!Reload, Administration!Invalidated
  <2>2. DeskTyped' /\ DoubtBlocks' /\ EditsTheRows' /\ RequestsOK'
    BY <1>1, <2>1 DEF DoubtBlocks, EditsTheRows, RequestsOK
  <2> QED
    BY <2>1, <2>2, DeskGoesOn
<1>7. CASE Administration!ReloadEnds
  <2>1. /\ Same /\ second'.run = "idle" /\ second'.doubt = second.doubt
        /\ second'.rows = second.rows /\ second'.info = second.info
        /\ second.run = "reloading" /\ ~second.rows.busy
        /\ second.rows.failed => second'.blocked = second.blocked
    BY <1>7 DEF Administration!ReloadEnds
  <2>2. second.doubt = "here" => second.rows.failed
    BY <2>1 DEF DoubtBlocks
  <2>3. DeskTyped' /\ DoubtBlocks' /\ EditsTheRows' /\ RequestsOK'
    BY <2>1, <2>2 DEF DoubtBlocks, EditsTheRows, RequestsOK
  <2> QED
    BY <2>1, <2>3, DeskGoesOn
<1> QED
  BY <1>2, <1>3, <1>4, <1>5, <1>6, <1>7

\* Rows are asked for, and answered.
LEMMA DeskReads ==
  ASSUME DeskInv,
         \/ Administration!SearchDirectory \/ Administration!NextIdentities
         \/ Administration!NextSessions \/ Administration!NextTokens
         \/ Administration!Refetch \/ Administration!RowsAnswer
  PROVE  DeskInv' /\ DeskActs
<1> USE DEF DeskInv, DeskTyped
<1> DEFINE Same == /\ first' = first /\ DOMAIN second' = DOMAIN second
                   /\ second'.open = second.open /\ second'.asking = second.asking
                   /\ second'.run = second.run /\ second'.sent = second.sent
                   /\ second'.blocked = second.blocked
<1>1. /\ DOMAIN Administration!Asked(second.rows) = DOMAIN second.rows
      /\ Administration!Asked(second.rows).data = second.rows.data
      /\ Administration!Asked(second.rows).busy = TRUE
      /\ DOMAIN Administration!Asked(second.info) = DOMAIN second.info
  BY DEF Administration!Asked
<1>2. ASSUME NEW query, Administration!Turn(query), second.open # "role"
      PROVE  DeskInv' /\ DeskActs
  <2>1. /\ Same /\ second'.rows = Administration!Unread /\ second'.info = second.info
        /\ second'.doubt = second.doubt
    BY <1>2 DEF Administration!Turn
  <2>2. DeskTyped' /\ DoubtBlocks' /\ EditsTheRows' /\ RequestsOK'
    BY <1>2, <2>1 DEF DoubtBlocks, EditsTheRows, RequestsOK, Administration!Unread
  <2> QED
    BY <2>1, <2>2, DeskGoesOn
<1>3. CASE Administration!SearchDirectory \/ Administration!NextIdentities
           \/ Administration!NextSessions \/ Administration!NextTokens
  <2>1. second.open # "role" /\ \E query : Administration!Turn(query)
    BY <1>3 DEF PagesAssumptions, Administration!SearchDirectory,
       Administration!NextIdentities, Administration!NextSessions, Administration!NextTokens
  <2> QED
    BY <1>2, <2>1
<1>4. CASE Administration!Refetch
  <2>1. /\ Same /\ second'.base = second.base /\ second'.doubt = second.doubt
        /\ second'.rows = second.rows \/ second'.rows = Administration!Asked(second.rows)
        /\ second'.info = second.info \/ second'.info = Administration!Asked(second.info)
    BY <1>4 DEF Administration!Refetch
  <2>2. DeskTyped' /\ DoubtBlocks' /\ EditsTheRows' /\ RequestsOK'
    BY <1>1, <2>1 DEF DoubtBlocks, EditsTheRows, RequestsOK
  <2> QED
    BY <2>1, <2>2, DeskGoesOn
<1>5. CASE Administration!RowsAnswer
  <2>1. PICK rows \in {Administration!Answered(second.rows, first.revision),
                       Administration!Failed(second.rows), Administration!Denied(second.rows)} :
          second' = Administration!Rekey(second, rows) /\ first' = first
    BY <1>5 DEF Administration!RowsAnswer
  <2>2. /\ DOMAIN rows = {"data", "busy", "failed"} /\ rows.data \in Nat \cup {None}
        /\ rows.failed \/ Administration!Shown(rows)
    <3>1. CASE rows = Administration!Answered(second.rows, first.revision)
      BY <3>1 DEF PagesAssumptions, Administration!Answered, Administration!Shown
    <3>2. CASE rows = Administration!Failed(second.rows)
      BY <3>2 DEF Administration!Failed
    <3>3. CASE rows = Administration!Denied(second.rows)
      BY <3>3 DEF Administration!Denied
    <3> QED
      BY <3>1, <3>2, <3>3
  <2> HIDE DEF Administration!Shown
  <2>3. /\ Same /\ second'.rows = rows /\ second'.info = second.info
        /\ second.open = "role" => second'.base = rows.data
        /\ second'.doubt = IF /\ Administration!Shown(rows)
                              /\ second.run = "reloading" \/ second.doubt = "left"
                           THEN "none" ELSE second.doubt
    BY <2>1 DEF Administration!Rekey, Administration!Looked
  <2>4. DeskTyped' /\ DoubtBlocks' /\ EditsTheRows' /\ RequestsOK'
    BY <2>2, <2>3 DEF DoubtBlocks, EditsTheRows, RequestsOK
  <2> QED
    BY <2>3, <2>4, DeskGoesOn
<1> QED
  BY <1>3, <1>4, <1>5

\* The permissions are answered; the page is left.
LEMMA DeskRebuilds ==
  ASSUME DeskInv,
         Administration!InfoAnswers \/ Administration!Leave \/ Administration!OpenIdentity
  PROVE  DeskInv' /\ DeskActs
<1> USE DEF DeskInv, DeskTyped
<1>0. /\ second.open = "role" => second.base = second.rows.data
      /\ second.asking # None => RequestOK(second.asking)
  BY DEF EditsTheRows, RequestsOK
<1>1. /\ DOMAIN Administration!Asked(second.rows) = DOMAIN second.rows
      /\ Administration!Asked(second.rows).data = second.rows.data
      /\ Administration!Asked(second.rows).busy
      /\ DOMAIN Administration!Asked(second.info) = DOMAIN second.info
      /\ DOMAIN Administration!Unread = DOMAIN second.rows
      /\ Administration!Unread.data = None /\ Administration!Unread.busy
      /\ Administration!Left \in {"none", "left"}
  BY DEF Administration!Left, Administration!Asked, Administration!Unread
<1>2. DOMAIN first' = DOMAIN first /\ first'.revision = first.revision
  BY DEF Administration!InfoAnswers, Administration!Leave, Administration!OpenIdentity,
     Administration!Open
<1>3. ASSUME NEW route, NEW info, NEW rows, NEW query,
             DOMAIN info = DOMAIN second.info, DOMAIN rows = DOMAIN second.rows,
             rows.data \in Nat \cup {None}, rows.busy,
             \/ second' = Administration!Fresh(route, info, rows, query, Administration!Left)
             \/ second' = [Administration!Fresh(route, info, rows, query,
                                                Administration!Left) EXCEPT
                             !.open = "user", !.filled = TRUE]
      PROVE  DeskInv' /\ DeskActs
  <2>1. /\ DOMAIN second' = DOMAIN second /\ second'.info = info /\ second'.rows = rows
        /\ second'.asking = None /\ second'.run = "idle"
        /\ second'.doubt = Administration!Left
        /\ second'.open = None \/ second'.open = "user"
    <3> DEFINE d == Administration!Fresh(route, info, rows, query, Administration!Left)
    <3>1. /\ DOMAIN d = DOMAIN second /\ d.info = info /\ d.rows = rows /\ d.asking = None
          /\ d.run = "idle" /\ d.doubt = Administration!Left /\ d.open = None
      BY DEF Administration!Fresh
    <3>2. \/ second' = d
          \/ second' = [d EXCEPT !.open = "user", !.filled = TRUE]
      BY <1>3
    <3> HIDE DEF d
    <3>3. CASE second' = d
      BY <3>1, <3>3
    <3>4. CASE second' = [d EXCEPT !.open = "user", !.filled = TRUE]
      <4>1. DOMAIN second' = DOMAIN d /\ second'.open = "user"
        BY <3>1, <3>4
      <4>2. /\ second'.info = d.info /\ second'.rows = d.rows /\ second'.asking = d.asking
            /\ second'.run = d.run /\ second'.doubt = d.doubt
        BY <3>1, <3>4
      <4> QED
        BY <3>1, <4>1, <4>2
    <3> QED
      BY <3>2, <3>3, <3>4
  <2>2. second'.open # "role"
    BY <2>1 DEF PagesAssumptions
  <2>3. first'.revision \in Nat
    BY <1>2
  <2> HIDE DEF DeskInv, DeskTyped
  <2> QED
    BY <1>1, <1>2, <1>3, <2>1, <2>2, <2>3, DeskFresh
<1>4. CASE Administration!InfoAnswers
  <2>1. PICK info \in {Administration!Answered(second.info, first.rights),
                       Administration!Failed(second.info)} :
          second' = IF Administration!Shown(info) /\ Administration!Shown(second.info)
                       /\ info.data = second.info.data
                    THEN [second EXCEPT !.info = info] ELSE Administration!Rebuilt(info)
    BY <1>4 DEF Administration!InfoAnswers
  <2>2. DOMAIN info = DOMAIN second.info
    BY DEF Administration!Answered, Administration!Failed
  <2>3. CASE second' = [second EXCEPT !.info = info]
    <3>1. /\ DOMAIN second' = DOMAIN second /\ second'.rows = second.rows
          /\ second'.info = info /\ second'.run = second.run /\ second'.sent = second.sent
          /\ second'.doubt = second.doubt /\ second'.blocked = second.blocked
          /\ second'.open = second.open /\ second'.base = second.base
          /\ second'.asking = second.asking
      BY <2>3
    <3> QED
      BY <1>0, <1>2, <2>2, <3>1, DeskKept
  <2>4. CASE second' = Administration!Rebuilt(info)
    <3> DEFINE rows == IF second.rows.data = None THEN Administration!Unread
                       ELSE Administration!Asked(second.rows)
    <3>1. DOMAIN rows = DOMAIN second.rows /\ rows.data \in Nat \cup {None} /\ rows.busy
      BY <1>1
    <3>2. second' = Administration!Fresh(second.route, info, rows, "first",
                                         Administration!Left)
      BY <2>4 DEF Administration!Rebuilt
    <3> HIDE DEF rows
    <3> QED
      BY <1>3, <2>2, <3>1, <3>2
  <2> QED
    BY <2>1, <2>3, <2>4
<1>5. CASE Administration!Leave
  <2>1. first' = [first EXCEPT !.orphan = Administration!Abandoned]
    BY <1>5 DEF Administration!Leave
  <2>2. \/ \E route : second' = Administration!Fresh(route, Administration!Asked(second.info),
                                                    Administration!Unread, "first",
                                                    Administration!Left)
        \/ second' = Administration!Fresh(second.route, second.info, Administration!Unread,
                                          second.query, Administration!Left)
    BY <1>5 DEF Administration!Leave
  <2> DEFINE none == Administration!Unread
             info == Administration!Asked(second.info)
  <2>3. /\ DOMAIN info = DOMAIN second.info /\ DOMAIN none = DOMAIN second.rows
        /\ none.data \in Nat \cup {None} /\ none.busy
    BY <1>1
  <2> HIDE DEF none, info, DeskInv, DeskTyped
  <2>4. ASSUME NEW route,
               second' = Administration!Fresh(route, info, none, "first", Administration!Left)
        PROVE  DeskInv' /\ DeskActs
    BY <1>3, <2>3, <2>4
  <2>5. CASE second' = Administration!Fresh(second.route, second.info, none, second.query,
                                            Administration!Left)
    BY <1>3, <2>3, <2>5
  <2> QED
    BY <2>2, <2>4, <2>5 DEF none, info
<1>6. CASE Administration!OpenIdentity
  BY <1>1, <1>3, <1>6 DEF Administration!OpenIdentity
<1> QED
  BY <1>4, <1>5, <1>6

\* The server decides on what it holds.
LEMMA DeskServed ==
  ASSUME DeskInv, Administration!ServerTakes \/ Administration!OthersWrite
  PROVE  DeskInv' /\ DeskActs
<1> USE DEF DeskInv, DeskTyped
<1>0. /\ second.open = "role" => second.base = second.rows.data
      /\ second.asking # None => RequestOK(second.asking)
  BY DEF EditsTheRows, RequestsOK
<1>1. CASE second' = second /\ DOMAIN first' = DOMAIN first /\ first'.revision \in Nat
  BY <1>0, <1>1, DeskKept
<1>2. CASE Administration!OthersWrite
  <2>1. second' = second /\ DOMAIN first' = DOMAIN first /\ first'.revision = first.revision + 1
    BY <1>2 DEF Administration!OthersWrite
  <2> QED
    BY <1>1, <2>1
<1>3. CASE second' = second /\ Administration!ServerTakes
  <2>1. second' = second /\ DOMAIN first' = DOMAIN first
        /\ first'.revision \in {first.revision, first.revision + 1}
    BY <1>3 DEF Administration!ServerTakes
  <2> QED
    BY <1>1, <2>1
<1>4. ASSUME NEW at \in {"applied", "refused"}, second.run = "sent", second.sent.at = "server",
             second' = [second EXCEPT !.sent.at = at],
             \/ at = "refused" /\ first' = first
             \/ /\ Administration!Current(second.sent)
                /\ first' = [first EXCEPT !.revision = @ + 1]
      PROVE  DeskInv' /\ DeskActs
  <2>1. RequestOK(second.sent)
    BY <1>4 DEF RequestsOK
  <2>2. /\ DOMAIN first' = DOMAIN first
        /\ first'.revision \in Nat
        /\ at = "applied" => first'.revision = first.revision + 1
    BY <1>4
  <2>3. /\ DOMAIN second' = DOMAIN second /\ second'.rows = second.rows
        /\ second'.info = second.info /\ second'.run = second.run
        /\ second'.sent = [second.sent EXCEPT !.at = at]
        /\ second'.doubt = second.doubt /\ second'.blocked = second.blocked
        /\ second'.open = second.open /\ second'.base = second.base
        /\ second'.asking = second.asking
    BY <1>4
  <2>4. RequestOK(second'.sent) /\ second'.sent.at = at
    BY <2>1, <2>3 DEF RequestOK
  <2>5. DeskTyped' /\ DoubtBlocks' /\ EditsTheRows' /\ RequestsOK'
    BY <2>2, <2>3, <2>4 DEF DoubtBlocks, EditsTheRows, RequestsOK
  <2>6. at = "applied" =>
          second.sent.kind = "tokensIssue" \/ second.sent.seen + 1 = first'.revision
    BY <1>4, <2>1, <2>2 DEF PagesAssumptions, RequestOK, Administration!Current
  <2> QED
    BY <1>4, <2>3, <2>4, <2>5, <2>6 DEF DeskActs, Administration!LooksBeforeRepeating,
       Administration!DecidedOnWhatIs
<1> QED
  BY <1>2, <1>3, <1>4 DEF Administration!ServerTakes

\* Every step of the administration pages keeps it.
LEMMA DeskSteps ==
  ASSUME DeskInv, Administration!Next
  PROVE  DeskInv' /\ DeskActs
BY DeskForms, DeskAsks, DeskSends, DeskEnds, DeskReads, DeskRebuilds, DeskServed
   DEF Administration!Next, Administration!Answers

-------------------------------------------------------------------------------
(* The schedules.                                                              *)

\* What a scheduler says of a schedule.
Revisions == [Schedules -> [state : Scheduling!States, revision : Nat]]

\* What was asked for.
Confirmations == [schedule : Schedules, action : DOMAIN Scheduling!Results, revision : Nat]

\* The panel shows what is, or what was at an earlier revision.
PanelShows(shown, schedules) ==
  \A s \in Schedules : /\ shown[s].revision <= schedules[s].revision
                       /\ shown[s].revision = schedules[s].revision => shown[s] = schedules[s]

\* A change is asked for at the revision that is shown, and sent alone.
ScheduleInv ==
  /\ DOMAIN second = {"items", "call", "error", "confirmation", "uncertain", "offline",
                      "adrift"}
  /\ first \in Revisions /\ second.adrift \subseteq Confirmations
  /\ second.items # None => second.items \in Revisions /\ PanelShows(second.items, first)
  /\ second.confirmation # None =>
       /\ second.confirmation \in Confirmations /\ second.items # None
       /\ second.items[second.confirmation.schedule].revision = second.confirmation.revision
  /\ second.call # None /\ second.call.kind = "read" => second.confirmation = None
  /\ second.call # None /\ second.call.kind = "change" =>
       second.confirmation # None /\ second.uncertain = None

\* At first the list is asked for.
LEMMA ScheduleStarts ==
  ASSUME Scheduling!Init
  PROVE  ScheduleInv
<1>1. first \in Revisions
  BY DEF Scheduling!Init, Revisions, Scheduling!States
<1>2. /\ DOMAIN second = {"items", "call", "error", "confirmation", "uncertain", "offline",
                          "adrift"}
      /\ second.items = None /\ second.confirmation = None /\ second.adrift = {}
      /\ second.call.kind = "read"
  BY DEF Scheduling!Init
<1> QED
  BY <1>1, <1>2 DEF ScheduleInv

\* A schedule changes: the panel's rows are of an earlier revision then.
LEMMA ScheduleChanged ==
  ASSUME NEW schedules \in Revisions, NEW s \in Schedules,
         NEW action \in DOMAIN Scheduling!Results
  PROVE  LET after == [schedules EXCEPT ![s] = Scheduling!Change(@, action)]
         IN  /\ after \in Revisions
             /\ \A shown \in Revisions : PanelShows(shown, schedules) => PanelShows(shown, after)
<1> DEFINE item == schedules[s]
           changed == Scheduling!Change(item, action)
           after == [schedules EXCEPT ![s] = changed]
<1>1. item \in [state : Scheduling!States, revision : Nat]
  BY DEF Revisions
<1>2. /\ changed \in [state : Scheduling!States, revision : Nat]
      /\ changed.revision = item.revision + 1
  <2> DEFINE state == Scheduling!Results[action]
  <2>1. state \in Scheduling!States
    BY DEF Scheduling!Results, Scheduling!States, Scheduling!Ended
  <2>2. changed = [item EXCEPT !.state = state, !.revision = @ + 1]
    BY DEF Scheduling!Change
  <2> HIDE DEF changed, state, item
  <2>3. changed = [state |-> state, revision |-> item.revision + 1]
    BY <1>1, <2>2
  <2> QED
    BY <1>1, <2>1, <2>3
<1> HIDE DEF changed
<1>3. after \in Revisions
  BY <1>2 DEF Revisions
<1>4. ASSUME NEW shown \in Revisions, PanelShows(shown, schedules), NEW x \in Schedules
      PROVE  /\ shown[x].revision <= after[x].revision
             /\ shown[x].revision = after[x].revision => shown[x] = after[x]
  <2>1. CASE x = s
    <3>1. after[x] = changed
      BY <2>1 DEF Revisions
    <3>2. shown[x].revision <= item.revision
      BY <1>4, <2>1 DEF PanelShows
    <3>3. shown[x].revision \in Nat /\ item.revision \in Nat
      BY <1>1 DEF Revisions
    <3> QED
      BY <1>2, <3>1, <3>2, <3>3
  <2>2. CASE x # s
    <3>1. after[x] = schedules[x]
      BY <2>2 DEF Revisions
    <3> QED
      BY <1>4, <3>1 DEF PanelShows
  <2> QED
    BY <2>1, <2>2
<1>5. after = [schedules EXCEPT ![s] = Scheduling!Change(@, action)]
  BY DEF changed
<1> HIDE DEF after
<1>6. \A shown \in Revisions : PanelShows(shown, schedules) => PanelShows(shown, after)
  BY <1>4 DEF PanelShows
<1> QED
  BY <1>3, <1>5, <1>6

\* Steps beside what is asked for, and what is sent.
LEMMA ScheduleKept ==
  ASSUME ScheduleInv, first' \in Revisions, DOMAIN second' = DOMAIN second,
         \A shown \in Revisions : PanelShows(shown, first) => PanelShows(shown, first'),
         second'.items = second.items, second'.call = second.call,
         second'.confirmation = second.confirmation, second'.uncertain = second.uncertain,
         second'.adrift \subseteq second.adrift,
         ~Scheduling!Confirmed, Scheduling!Execute => second.uncertain = None
  PROVE  ScheduleInv' /\ Scheduling!ChangesWhatWasSeen
<1>1. ScheduleInv'
  BY DEF ScheduleInv
<1>2. Scheduling!ChangesWhatWasSeen
  BY DEF Scheduling!ChangesWhatWasSeen
<1> QED
  BY <1>1, <1>2

\* A change of this panel is carried out: it is of what the panel shows.
LEMMA ScheduleAdmitted ==
  ASSUME ScheduleInv, second.call # None, second.call.kind = "change", Scheduling!Admitted
  PROVE  LET s == second.confirmation.schedule
         IN  /\ s \in Schedules /\ second.items \in Revisions
             /\ second.items # None /\ second.items[s] = first[s]
             /\ second.confirmation.action \in DOMAIN Scheduling!Results
BY DEF ScheduleInv, Scheduling!Admitted, Scheduling!Asked, Confirmations, PanelShows

\* Every step of the panel keeps it, and changes what was seen.
LEMMA ScheduleSteps ==
  ASSUME ScheduleInv, Scheduling!Next
  PROVE  ScheduleInv' /\ Scheduling!ChangesWhatWasSeen
<1> DEFINE same == /\ DOMAIN second' = DOMAIN second
<1>0. /\ DOMAIN second = {"items", "call", "error", "confirmation", "uncertain", "offline",
                          "adrift"}
      /\ first \in Revisions
  BY DEF ScheduleInv
<1>a. Scheduling!Execute => second.uncertain = None
  BY DEF Scheduling!Execute, Scheduling!Changeable
<1>c. Scheduling!Confirmed => second'.call = None /\ second.call # None
                              /\ second.call.kind = "change"
  BY <1>0 DEF Scheduling!Confirmed, Scheduling!Set, Scheduling!Pending
<1>1. CASE Scheduling!Read
  <2>1. /\ same /\ second'.items = second.items /\ second'.adrift = second.adrift
        /\ second'.confirmation = second.confirmation /\ second.confirmation = None
        /\ second'.uncertain = second.uncertain /\ second'.call.kind = "read"
        /\ first' = first /\ second.call = None
    BY <1>0, <1>1 DEF Scheduling!Read, Scheduling!Set, Scheduling!Pending
  <2>2. ScheduleInv'
    BY <2>1 DEF ScheduleInv
  <2> QED
    BY <1>a, <1>c, <2>1, <2>2 DEF Scheduling!ChangesWhatWasSeen
<1>2. CASE Scheduling!ReadAnswers
  <2>1. /\ same /\ second'.adrift = second.adrift /\ first' = first
        /\ second'.confirmation = second.confirmation /\ second'.call = None
        /\ \/ second'.items = first
           \/ second'.items = second.items /\ second'.uncertain = second.uncertain
        /\ second.call # None /\ second.call.kind = "read"
    BY <1>0, <1>2 DEF Scheduling!ReadAnswers, Scheduling!Set, Scheduling!Pending
  <2>2. second.confirmation = None /\ PanelShows(first, first)
    BY <1>0, <2>1 DEF ScheduleInv, PanelShows, Revisions
  <2>3. ScheduleInv'
    BY <1>0, <2>1, <2>2 DEF ScheduleInv
  <2> QED
    BY <1>a, <1>c, <2>1, <2>3 DEF Scheduling!ChangesWhatWasSeen
<1>3. ASSUME NEW s \in Schedules, NEW action \in DOMAIN Scheduling!Results,
             Scheduling!Ask(s, action)
      PROVE  ScheduleInv' /\ Scheduling!ChangesWhatWasSeen
  <2> DEFINE asked == [schedule |-> s, action |-> action,
                       revision |-> second.items[s].revision]
  <2>1. /\ same /\ second'.items = second.items /\ second'.adrift = second.adrift
        /\ second'.call = second.call /\ second.call = None /\ second.items # None
        /\ second'.uncertain = second.uncertain /\ second'.confirmation = asked
        /\ first' = first
    BY <1>0, <1>3 DEF Scheduling!Ask, Scheduling!Set, Scheduling!Changeable,
       Scheduling!Pending
  <2>2. second.items[s].revision \in Nat
    BY <2>1 DEF ScheduleInv, Revisions
  <2>3. /\ asked \in Confirmations /\ asked.schedule = s
        /\ asked.revision = second.items[s].revision
    BY <2>2 DEF Confirmations
  <2> HIDE DEF asked
  <2>4. ScheduleInv'
    BY <2>1, <2>3 DEF ScheduleInv
  <2> QED
    BY <1>a, <1>c, <2>1, <2>4 DEF Scheduling!ChangesWhatWasSeen
<1>4. CASE Scheduling!Back
  <2>1. /\ same /\ second'.items = second.items /\ second'.adrift = second.adrift
        /\ second'.call = second.call /\ second.call = None
        /\ second'.uncertain = second.uncertain /\ second'.confirmation = None
        /\ first' = first
    BY <1>0, <1>4 DEF Scheduling!Back, Scheduling!Set, Scheduling!Pending
  <2>2. ScheduleInv'
    BY <2>1 DEF ScheduleInv
  <2> QED
    BY <1>a, <1>c, <2>1, <2>2 DEF Scheduling!ChangesWhatWasSeen
<1>5. CASE Scheduling!Execute
  <2>1. /\ same /\ second'.items = second.items /\ second'.adrift = second.adrift
        /\ second'.call.kind = "change" /\ second.call = None
        /\ second'.uncertain = second.uncertain /\ second.uncertain = None
        /\ second'.confirmation = second.confirmation /\ second.confirmation # None
        /\ first' = first
    BY <1>0, <1>5 DEF Scheduling!Execute, Scheduling!Set, Scheduling!Pending,
       Scheduling!Changeable
  <2>2. ScheduleInv'
    BY <2>1 DEF ScheduleInv
  <2> QED
    BY <1>c, <2>1, <2>2 DEF Scheduling!ChangesWhatWasSeen
<1>6. CASE Scheduling!Confirmed
  <2> DEFINE s == second.confirmation.schedule
             action == second.confirmation.action
  <2>1. /\ s \in Schedules /\ second.items \in Revisions
        /\ second.items # None /\ second.items[s] = first[s]
        /\ action \in DOMAIN Scheduling!Results
    BY <1>c, <1>6, ScheduleAdmitted DEF Scheduling!Confirmed
  <2>2. /\ same /\ second'.adrift = second.adrift /\ second'.call = None
        /\ second'.confirmation = None /\ second'.uncertain = second.uncertain
        /\ second'.items = [second.items EXCEPT ![s] = first'[s]]
        /\ first' = [first EXCEPT ![s] = Scheduling!Change(@, action)]
        /\ second.call # None /\ second.call.kind = "change"
    BY <1>0, <1>c, <1>6 DEF Scheduling!Confirmed, Scheduling!Set, Scheduling!Changed,
       Scheduling!Asked
  <2> HIDE DEF s, action
  <2>3. /\ first' \in Revisions
        /\ \A shown \in Revisions : PanelShows(shown, first) => PanelShows(shown, first')
    BY <1>0, <2>1, <2>2, ScheduleChanged
  <2>4. PanelShows(second.items, first') /\ second.uncertain = None
    BY <2>1, <2>2, <2>3 DEF ScheduleInv
  <2>5. second'.items \in Revisions
    BY <2>1, <2>2, <2>3 DEF Revisions
  <2>6. PanelShows(second'.items, first')
    <3>1. ASSUME NEW x \in Schedules
          PROVE  second'.items[x] = IF x = s THEN first'[s] ELSE second.items[x]
      BY <2>1, <2>2 DEF Revisions
    <3>2. \A x \in Schedules : first'[x].revision \in Nat
      BY <2>3 DEF Revisions
    <3> QED
      BY <2>4, <3>1, <3>2 DEF PanelShows
  <2>7. ScheduleInv'
    BY <2>2, <2>3, <2>5, <2>6 DEF ScheduleInv
  <2> QED
    BY <1>a, <2>1, <2>2, <2>4, <2>7 DEF Scheduling!ChangesWhatWasSeen, Scheduling!Asked, s
<1>7. CASE Scheduling!Lost
  <2> DEFINE s == second.confirmation.schedule
             action == second.confirmation.action
             new == IF second'.adrift = second.adrift THEN {} ELSE {second.confirmation}
  <2>1. /\ second.call # None /\ second.call.kind = "change"
    BY <1>7 DEF Scheduling!Lost, Scheduling!Pending
  <2>2. /\ second.confirmation # None /\ second.confirmation \in Confirmations
        /\ second.uncertain = None
    BY <2>1 DEF ScheduleInv
  <2>3. s \in Schedules /\ action \in DOMAIN Scheduling!Results
    BY <2>2 DEF Confirmations
  <2>4. /\ same /\ second'.items = second.items /\ second'.call = None
        /\ second'.confirmation = None /\ second'.uncertain = s
        /\ second'.adrift \in {second.adrift, second.adrift \cup {second.confirmation}}
        /\ \/ first' = [first EXCEPT ![s] = Scheduling!Change(@, action)]
           \/ first' = first
    BY <1>0, <1>7 DEF Scheduling!Lost, Scheduling!Set, Scheduling!Changed,
       Scheduling!Asked, Scheduling!Unsure
  <2> HIDE DEF s, action
  <2>5. /\ first' \in Revisions
        /\ \A shown \in Revisions : PanelShows(shown, first) => PanelShows(shown, first')
    BY <1>0, <2>3, <2>4, ScheduleChanged
  <2>6. ScheduleInv'
    BY <2>2, <2>4, <2>5 DEF ScheduleInv
  <2>7. ~Scheduling!Confirmed
    <3>1. CASE Scheduling!Confirmed
      <4>1. second'.uncertain = second.uncertain
        BY <1>0, <3>1 DEF Scheduling!Confirmed, Scheduling!Set
      <4>2. s # None
        BY <2>3 DEF PagesAssumptions
      <4> QED
        BY <2>2, <2>4, <4>1, <4>2
    <3> QED
      BY <3>1
  <2> QED
    BY <1>a, <2>2, <2>4, <2>6, <2>7 DEF Scheduling!ChangesWhatWasSeen, s
<1>8. CASE Scheduling!Connection
  <2>1. /\ same /\ second'.items = second.items /\ second'.adrift = second.adrift
        /\ second'.call = second.call /\ second'.confirmation = second.confirmation
        /\ second'.uncertain = second.uncertain /\ first' = first
    BY <1>0, <1>8 DEF Scheduling!Connection, Scheduling!Set
  <2>2. ~Scheduling!Confirmed
    BY <1>c, <2>1
  <2> QED
    BY <1>0, <1>a, <2>1, <2>2, ScheduleKept
<1>9. ASSUME NEW s \in Schedules, NEW action \in DOMAIN Scheduling!Results,
             Scheduling!Elsewhere(s, action)
      PROVE  ScheduleInv' /\ Scheduling!ChangesWhatWasSeen
  <2>1. second' = second /\ first' = [first EXCEPT ![s] = Scheduling!Change(@, action)]
    BY <1>9 DEF Scheduling!Elsewhere
  <2>2. /\ first' \in Revisions
        /\ \A shown \in Revisions : PanelShows(shown, first) => PanelShows(shown, first')
    BY <1>0, <2>1, ScheduleChanged
  <2>3. ~Scheduling!Confirmed
    BY <1>c, <2>1
  <2> QED
    BY <1>a, <2>1, <2>2, <2>3, ScheduleKept
<1>10. ASSUME NEW c \in second.adrift, Scheduling!Arrives(c)
       PROVE  ScheduleInv' /\ Scheduling!ChangesWhatWasSeen
  <2>1. /\ same /\ second'.items = second.items /\ second'.adrift = second.adrift \ {c}
        /\ second'.call = second.call /\ second'.confirmation = second.confirmation
        /\ second'.uncertain = second.uncertain
        /\ \/ first' = [first EXCEPT ![c.schedule] = Scheduling!Change(@, c.action)]
           \/ first' = first
    BY <1>0, <1>10 DEF Scheduling!Arrives, Scheduling!Set
  <2>2. c.schedule \in Schedules /\ c.action \in DOMAIN Scheduling!Results
    BY DEF ScheduleInv, Confirmations
  <2>3. /\ first' \in Revisions
        /\ \A shown \in Revisions : PanelShows(shown, first) => PanelShows(shown, first')
    BY <1>0, <2>1, <2>2, ScheduleChanged
  <2>4. ~Scheduling!Confirmed
    BY <1>c, <2>1
  <2> QED
    BY <1>a, <2>1, <2>3, <2>4, ScheduleKept
<1> QED
  BY <1>1, <1>2, <1>3, <1>4, <1>5, <1>6, <1>7, <1>8, <1>9, <1>10 DEF Scheduling!Next

-------------------------------------------------------------------------------
(* The actions of a page.                                                      *)

\* What the frame shows of what a scope offers.
Showings == [owner : [seat : Seats, key : Nat], ids : SUBSET ActionIds,
             busy : SUBSET ActionIds]

\* The frame shows what a scope that is there offers now.
ActionInv ==
  /\ DOMAIN second = {"shown", "open", "path", "aborted", "ran"}
  /\ first \in [Seats -> [key : Nat, value : Actions!Values \cup {None}, context : 0..1]]
  /\ second.shown # None =>
       /\ second.shown \in Showings
       /\ second.shown.owner.key = first[second.shown.owner.seat].key
       /\ first[second.shown.owner.seat].value =
            [ids |-> second.shown.ids, busy |-> second.shown.busy]

\* At first nothing is offered.
LEMMA ActionStarts ==
  ASSUME Actions!Init
  PROVE  ActionInv
<1>1. /\ DOMAIN second = {"shown", "open", "path", "aborted", "ran"} /\ second.shown = None
      /\ first = [s \in Seats |-> [key |-> 0, value |-> None, context |-> 0]]
  BY DEF Actions!Init
<1> QED
  BY <1>1 DEF ActionInv

\* A handle that runs something is the one that is shown.
LEMMA InvokeSays ==
  ASSUME ActionInv, NEW lease, NEW id, Actions!Invoke(lease, id) # None
  PROVE  LET ran == Actions!Invoke(lease, id) IN
         /\ second.shown # None /\ second.shown.owner = ran.lease
         /\ ran.id \in second.shown.ids \ second.shown.busy
<1>1. /\ second.shown # None /\ second.shown.owner = lease
      /\ id \in first[lease.seat].value.ids \ first[lease.seat].value.busy
      /\ Actions!Invoke(lease, id) = [lease |-> lease, id |-> id]
  BY DEF Actions!Invoke, Actions!IsCurrent, Actions!Owned
<1>2. first[lease.seat].value = [ids |-> second.shown.ids, busy |-> second.shown.busy]
  BY <1>1 DEF ActionInv
<1> QED
  BY <1>1, <1>2

\* Steps beside what the scopes offer and the frame shows.
LEMMA ActionKept ==
  ASSUME ActionInv, first' = first, DOMAIN second' = DOMAIN second,
         second'.shown = second.shown,
         \/ second'.ran = None
         \/ \E lease, id : second'.ran = Actions!Invoke(lease, id)
  PROVE  ActionInv' /\ Actions!HandlesReachThePage
<1>1. ActionInv'
  BY DEF ActionInv
<1>2. second'.ran # None => /\ second.shown # None /\ second.shown.owner = second'.ran.lease
                            /\ second'.ran.id \in second.shown.ids \ second.shown.busy
  BY InvokeSays
<1> QED
  BY <1>1, <1>2 DEF ActionInv, Actions!HandlesReachThePage

\* A scope commits what it offers now.
LEMMA ActionCommits ==
  ASSUME ActionInv, NEW s \in Seats, NEW key, NEW value \in Actions!Values \cup {None},
         Actions!Commit(s, key, value)
  PROVE  ActionInv' /\ Actions!HandlesReachThePage
<1> DEFINE items == [key : Nat, value : Actions!Values \cup {None}, context : 0..1]
           new == [owner |-> [seat |-> s, key |-> key], ids |-> value.ids, busy |-> value.busy]
<1>0. /\ DOMAIN second = {"shown", "open", "path", "aborted", "ran"}
      /\ first \in [Seats -> items]
      /\ second.shown # None =>
           /\ second.shown \in Showings
           /\ second.shown.owner.key = first[second.shown.owner.seat].key
           /\ first[second.shown.owner.seat].value =
                [ids |-> second.shown.ids, busy |-> second.shown.busy]
  BY DEF ActionInv
<1>1. /\ key \in first[s].key..MaxKey
      /\ first' = [first EXCEPT ![s].key = key, ![s].value = value]
      /\ DOMAIN second' = DOMAIN second /\ second'.ran = None
      /\ second'.shown = IF value = None THEN Actions!Withdraw(second.shown, Actions!Lease(s))
                         ELSE new
  BY <1>0 DEF Actions!Commit, Actions!Set
<1>2. first[s] \in items /\ key \in Nat
  BY <1>0, <1>1
<1>3. /\ \A x \in Seats : x # s => first'[x] = first[x]
      /\ first'[s] = [key |-> key, value |-> value, context |-> first[s].context]
      /\ DOMAIN first' = Seats
  BY <1>0, <1>1, <1>2
<1>4. first' \in [Seats -> items]
  <2>1. first'[s] \in items
    BY <1>2, <1>3
  <2>2. first' = [x \in Seats |-> first'[x]]
    BY <1>0, <1>1
  <2> HIDE DEF items
  <2> QED
    BY <1>0, <1>3, <2>1, <2>2
<1> HIDE DEF items
<1>5. CASE value # None
  <2>1. /\ value \in Actions!Values /\ second'.shown = new
        /\ value = [ids |-> value.ids, busy |-> value.busy]
    BY <1>1, <1>5 DEF Actions!Values
  <2>2. new \in Showings /\ new.owner.seat = s /\ new.owner.key = key
        /\ new.ids = value.ids /\ new.busy = value.busy
    BY <1>2, <2>1 DEF Actions!Values, Showings
  <2> HIDE DEF new
  <2>3. second'.shown # None
    BY <2>1, <2>2 DEF PagesAssumptions, Showings
  <2>4. first'[s].key = key /\ first'[s].value = value
    BY <1>3
  <2>5. ActionInv'
    BY <1>0, <1>1, <1>4, <2>1, <2>2, <2>4 DEF ActionInv, items
  <2>6. \A x \in Seats : first'[x].context = first[x].context
    BY <1>3
  <2> QED
    BY <1>1, <2>1, <2>2, <2>3, <2>4, <2>5, <2>6 DEF Actions!HandlesReachThePage
<1>6. CASE value = None
  <2>1. /\ second'.shown \in {second.shown, None}
        /\ second'.shown # None => second.shown.owner # Actions!Lease(s)
        /\ second'.shown # second.shown => second.shown.owner = Actions!Lease(s)
    BY <1>1, <1>6 DEF Actions!Withdraw, Actions!Clear
  <2>2. Actions!Lease(s) = [seat |-> s, key |-> first[s].key]
    BY DEF Actions!Lease
  <2>3. second'.shown # None => /\ second'.shown = second.shown
                                /\ second.shown.owner.seat # s
                                /\ second.shown.owner.seat \in Seats
    BY <1>0, <2>1, <2>2 DEF Showings
  <2>4. second'.shown # None =>
          /\ second'.shown \in Showings
          /\ second'.shown.owner.key = first'[second'.shown.owner.seat].key
          /\ first'[second'.shown.owner.seat].value =
               [ids |-> second'.shown.ids, busy |-> second'.shown.busy]
    BY <1>0, <1>3, <2>3
  <2>5. ActionInv'
    BY <1>0, <1>1, <1>4, <2>4 DEF ActionInv, items
  <2>6. \A x \in Seats : first'[x].context = first[x].context
    BY <1>3
  <2>7. ASSUME second.shown # None, second'.shown # second.shown,
               first'[second.shown.owner.seat] = first[second.shown.owner.seat]
        PROVE  FALSE
    <3>1. second.shown.owner.seat = s /\ second.shown \in Showings
      BY <1>0, <2>1, <2>2, <2>7
    <3>2. first'[s].value = None
      BY <1>3, <1>6
    <3>3. first[s].value = [ids |-> second.shown.ids, busy |-> second.shown.busy]
      BY <1>0, <2>7, <3>1
    <3>4. [ids |-> second.shown.ids, busy |-> second.shown.busy] \in Actions!Values
      BY <3>1 DEF Showings, Actions!Values
    <3> QED
      BY <2>7, <3>1, <3>2, <3>3, <3>4 DEF PagesAssumptions
  <2> QED
    BY <1>1, <2>4, <2>5, <2>6, <2>7 DEF Actions!HandlesReachThePage
<1> QED
  BY <1>5, <1>6

\* A page activation gives its context, which a later one does not take from it.
LEMMA ActionContext ==
  ASSUME ActionInv, NEW lease \in Actions!Leases, NEW n \in 0..1, Actions!SetContext(lease, n)
  PROVE  ActionInv' /\ Actions!HandlesReachThePage
<1> DEFINE items == [key : Nat, value : Actions!Values \cup {None}, context : 0..1]
           s == lease.seat
<1>0. /\ DOMAIN second = {"shown", "open", "path", "aborted", "ran"}
      /\ first \in [Seats -> items] /\ s \in Seats
  BY DEF ActionInv, Actions!Leases
<1>1. /\ DOMAIN second' = DOMAIN second /\ second'.ran = None
      /\ second'.shown = second.shown
      /\ \/ first' = first
         \/ /\ first' = [first EXCEPT ![s].context = n] /\ first[s].value # None
  BY <1>0 DEF Actions!SetContext, Actions!Set, Actions!Dispatches, Actions!Retained,
     Actions!Alive
<1>2. CASE first' = first
  BY <1>1, <1>2, ActionKept
<1>3. CASE first' = [first EXCEPT ![s].context = n] /\ first[s].value # None
  <2>1. first[s] \in items
    BY <1>0
  <2>2. /\ \A x \in Seats : x # s => first'[x] = first[x]
        /\ first'[s] = [key |-> first[s].key, value |-> first[s].value, context |-> n]
        /\ first' = [x \in Seats |-> first'[x]]
    BY <1>0, <1>3, <2>1
  <2>3. first' \in [Seats -> items]
    <3>1. first'[s] \in items
      BY <2>1, <2>2
    <3> HIDE DEF items
    <3> QED
      BY <1>0, <2>2, <3>1
  <2>4. /\ \A x \in Seats : first'[x].key = first[x].key /\ first'[x].value = first[x].value
        /\ \A x \in Seats : x # s => first'[x].context = first[x].context
    BY <2>2
  <2> HIDE DEF items, s
  <2>5. second.shown # None =>
          /\ second.shown \in Showings /\ second.shown.owner.seat \in Seats
          /\ second.shown.owner.key = first[second.shown.owner.seat].key
          /\ first[second.shown.owner.seat].value =
               [ids |-> second.shown.ids, busy |-> second.shown.busy]
    BY DEF ActionInv, Showings
  <2>6. ActionInv'
    BY <1>0, <1>1, <2>3, <2>4, <2>5 DEF ActionInv, items
  <2> QED
    BY <1>1, <1>3, <2>4, <2>5, <2>6 DEF Actions!HandlesReachThePage
<1> QED
  BY <1>1, <1>2, <1>3

\* Every step of the scopes and the frame keeps it, and handles reach what is shown.
LEMMA ActionSteps ==
  ASSUME ActionInv, Actions!Next
  PROVE  ActionInv' /\ Actions!HandlesReachThePage
<1>0. DOMAIN second = {"shown", "open", "path", "aborted", "ran"}
  BY DEF ActionInv
<1>1. ASSUME NEW lease, NEW id, Actions!Press(lease, id)
      PROVE  ActionInv' /\ Actions!HandlesReachThePage
  <2>1. /\ first' = first /\ DOMAIN second' = DOMAIN second /\ second'.shown = second.shown
        /\ second'.ran = Actions!Invoke(lease, id)
    BY <1>0, <1>1 DEF Actions!Press, Actions!Set
  <2> QED
    BY <2>1, ActionKept
<1>2. ASSUME NEW id, Actions!Choose(id)
      PROVE  ActionInv' /\ Actions!HandlesReachThePage
  <2>1. /\ first' = first /\ DOMAIN second' = DOMAIN second /\ second'.shown = second.shown
        /\ second'.ran = Actions!Invoke(second.shown.owner, id)
    BY <1>0, <1>2 DEF Actions!Choose, Actions!Set
  <2> QED
    BY <2>1, ActionKept
<1>3. CASE \/ Actions!Show \/ Actions!Close \/ Actions!Navigate \/ Actions!Destination
           \/ Actions!Abort
  <2>1. /\ first' = first /\ DOMAIN second' = DOMAIN second /\ second'.shown = second.shown
        /\ second'.ran = None
    BY <1>0, <1>3 DEF Actions!Show, Actions!Close, Actions!Navigate, Actions!Destination,
       Actions!Abort, Actions!Set
  <2> QED
    BY <2>1, ActionKept
<1> QED
  BY <1>1, <1>2, <1>3, ActionCommits, ActionContext DEF Actions!Next

-------------------------------------------------------------------------------
(* The first setup.                                                            *)

\* What a host may say.
HostSays == {Setup!Uninitialized, Setup!Unconfigured, Setup!Applicable, Setup!Awaiting,
             Setup!ActivationFailed, Setup!Ready}

\* A verified status was answered last, to this client, and nothing has been asked since.
SetupInv ==
  /\ DOMAIN third = {"client", "status", "verified", "pending", "problem", "open", "left",
                     "last", "continued"}
  /\ first \in HostSays /\ third.client \in Nat /\ third.verified \in BOOLEAN
  /\ third.verified => /\ third.pending = None
                       /\ third.last # None /\ third.last.client = third.client
                       /\ third.last.status = third.status /\ Setup!Consistent(third.status)

\* At first the status is asked for.
LEMMA SetupStarts ==
  ASSUME Setup!Init
  PROVE  SetupInv
<1>1. /\ DOMAIN third = {"client", "status", "verified", "pending", "problem", "open", "left",
                         "last", "continued"}
      /\ third.client = 1 /\ third.verified \in BOOLEAN /\ ~third.verified
      /\ first \in {Setup!Uninitialized, Setup!Unconfigured, Setup!Applicable}
  BY DEF Setup!Init
<1> QED
  BY <1>1 DEF SetupInv, HostSays

\* Whatever a host makes of an operation, it can say so.
LEMMA CarriedSays ==
  ASSUME NEW h \in HostSays, NEW kind, NEW after \in Setup!Carried(h, kind)
  PROVE  after \in HostSays
<1>1. CASE kind = "apply" /\ h \in {Setup!Uninitialized, Setup!Applicable}
  BY <1>1 DEF Setup!Carried, HostSays
<1>2. CASE kind = "activate" /\ h \in {Setup!Awaiting, Setup!ActivationFailed}
  BY <1>2 DEF Setup!Carried, HostSays
<1>3. CASE ~(\/ kind = "apply" /\ h \in {Setup!Uninitialized, Setup!Applicable}
             \/ kind = "activate" /\ h \in {Setup!Awaiting, Setup!ActivationFailed})
  BY <1>3 DEF Setup!Carried
<1> QED
  BY <1>1, <1>2, <1>3

\* What a host says, and what it says by mistake, is an answer.
LEMMA HostAnswers ==
  ASSUME NEW answer \in HostSays \cup {Setup!Inconsistent}
  PROVE  answer \in Setup!Answers
<1>1. ASSUME NEW state \in Setup!States, NEW revision \in BOOLEAN,
             NEW action \in Setup!NextActions
      PROVE  Setup!Status(state, revision, action) \in Setup!Answers
  <2> DEFINE blocked == state = "blocked"
  <2>1. blocked \in BOOLEAN
    OBVIOUS
  <2>2. Setup!Status(state, revision, action) =
          [state |-> state, revision |-> revision, nextAction |-> action, blocked |-> blocked]
    BY DEF Setup!Status
  <2> HIDE DEF blocked
  <2> QED
    BY <2>1, <2>2 DEF Setup!Answers
<1>2. /\ {"uninitialized", "blocked", "awaiting_activation", "ready"} \subseteq Setup!States
      /\ {"apply", "external_configuration", "activate", "none"} \subseteq Setup!NextActions
  BY DEF Setup!States, Setup!NextActions
<1>3. /\ Setup!Uninitialized \in Setup!Answers /\ Setup!Unconfigured \in Setup!Answers
      /\ Setup!Applicable \in Setup!Answers /\ Setup!Awaiting \in Setup!Answers
  BY <1>1, <1>2 DEF Setup!Uninitialized, Setup!Unconfigured, Setup!Applicable, Setup!Awaiting
<1>4. /\ Setup!ActivationFailed \in Setup!Answers /\ Setup!Ready \in Setup!Answers
      /\ Setup!Inconsistent \in Setup!Answers
  BY <1>1, <1>2 DEF Setup!Inconsistent, Setup!ActivationFailed, Setup!Ready
<1> QED
  BY <1>3, <1>4 DEF HostSays

\* Steps that ask the host for nothing.
LEMMA SetupKept ==
  ASSUME SetupInv, first' \in HostSays, DOMAIN third' = DOMAIN third,
         third'.client = third.client, third'.status = third.status,
         third'.verified = third.verified, third'.pending = third.pending,
         third'.last = third.last,
         third'.continued /\ ~third.continued =>
           third.verified /\ third.status.state = "ready"
  PROVE  SetupInv' /\ Setup!NothingIsAssumed
<1>1. SetupInv'
  BY DEF SetupInv
<1>2. Setup!NothingIsAssumed
  BY DEF SetupInv, Setup!NothingIsAssumed, Setup!Consistent
<1> QED
  BY <1>1, <1>2

\* The host is asked: the status is no longer verified.
LEMMA SetupExecutes ==
  ASSUME SetupInv, NEW kind \in {"status", "apply", "activate"}, NEW fields,
         DOMAIN fields \subseteq {"open"}, Setup!Execute(kind, fields),
         kind # "status" => third.verified /\ third.status.nextAction = kind
  PROVE  SetupInv' /\ Setup!NothingIsAssumed
<1> DEFINE one == Setup!With(third, [pending |-> kind, problem |-> FALSE])
           two == Setup!With(one, Setup!Started)
<1>0. /\ DOMAIN third = {"client", "status", "verified", "pending", "problem", "open", "left",
                         "last", "continued"}
      /\ first \in HostSays /\ third.client \in Nat
  BY DEF SetupInv
<1>1. /\ DOMAIN one = DOMAIN third /\ one.client = third.client /\ one.pending = kind
      /\ one.last = third.last /\ one.continued = third.continued
  BY <1>0 DEF Setup!With
<1> HIDE DEF one
<1>2. /\ DOMAIN two = DOMAIN third /\ two.client = third.client /\ two.pending = kind
      /\ two.last = third.last /\ two.continued = third.continued /\ two.verified = FALSE
  BY <1>0, <1>1 DEF Setup!With, Setup!Started, Setup!Unverify
<1>3. third' = Setup!With(two, fields) /\ first' = first
  BY DEF Setup!Execute, one
<1> HIDE DEF two
<1>4. /\ DOMAIN third' = DOMAIN third /\ third'.client = third.client /\ third'.pending = kind
      /\ third'.last = third.last /\ third'.continued = third.continued
      /\ third'.verified = FALSE
  BY <1>0, <1>2, <1>3 DEF Setup!With
<1>5. SetupInv'
  BY <1>0, <1>3, <1>4 DEF SetupInv
<1>6. kind # "status" => /\ third.last # None /\ third.last.client = third.client
                         /\ third.last.status.nextAction = kind
  BY DEF SetupInv
<1> QED
  BY <1>4, <1>5, <1>6 DEF Setup!NothingIsAssumed

\* An operation is answered, or nobody knows what became of it.
LEMMA SetupAnswers ==
  ASSUME SetupInv, Setup!Answered \/ Setup!Lost
  PROVE  SetupInv' /\ Setup!NothingIsAssumed
<1>0. /\ DOMAIN third = {"client", "status", "verified", "pending", "problem", "open", "left",
                         "last", "continued"}
      /\ first \in HostSays /\ third.client \in Nat /\ third.verified \in BOOLEAN
      /\ third.pending # None => ~third.verified
  BY DEF SetupInv
<1>1. first' \in HostSays /\ third.pending # None /\ ~third.verified
  BY <1>0, CarriedSays DEF Setup!Answered, Setup!Lost
<1>2. CASE /\ DOMAIN third' = DOMAIN third /\ third'.client = third.client
           /\ third'.pending = None /\ third'.verified = third.verified
           /\ third'.continued = third.continued
  <2>1. SetupInv'
    BY <1>0, <1>1, <1>2 DEF SetupInv
  <2> QED
    BY <1>2, <2>1 DEF Setup!NothingIsAssumed, PagesAssumptions
<1>3. ASSUME NEW answer \in {first', Setup!Inconsistent}, Setup!Consistent(answer),
             third' = Setup!With(third, [pending |-> None, status |-> answer,
                                         verified |-> TRUE,
                                         last |-> [client |-> third.client,
                                                   status |-> answer]])
      PROVE  SetupInv' /\ Setup!NothingIsAssumed
  <2> DEFINE last == [client |-> third.client, status |-> answer]
  <2>1. /\ last \in [client : Nat, status : Setup!Answers]
        /\ last.client = third.client /\ last.status = answer
    BY <1>0, <1>1, HostAnswers
  <2> HIDE DEF last
  <2>2. /\ DOMAIN third' = DOMAIN third /\ third'.client = third.client
        /\ third'.pending = None /\ third'.verified \in BOOLEAN /\ third'.status = answer
        /\ third'.last = last /\ third'.continued = third.continued
    BY <1>0, <1>3 DEF Setup!With, last
  <2>3. last # None
    BY <2>1 DEF PagesAssumptions
  <2>4. SetupInv'
    BY <1>0, <1>1, <1>3, <2>1, <2>2, <2>3 DEF SetupInv
  <2> QED
    BY <2>2, <2>4 DEF Setup!NothingIsAssumed, PagesAssumptions
<1>4. CASE Setup!Lost
  BY <1>0, <1>2, <1>4 DEF Setup!Lost, Setup!Set, Setup!With
<1>5. CASE Setup!Answered
  <2>1. PICK answer \in {first', Setup!Inconsistent} :
          IF Setup!Consistent(answer)
          THEN Setup!Set([pending |-> None, status |-> answer, verified |-> TRUE,
                          last |-> [client |-> third.client, status |-> answer]])
          ELSE Setup!Set([pending |-> None, problem |-> TRUE, last |-> None])
    BY <1>5 DEF Setup!Answered
  <2>2. CASE Setup!Consistent(answer)
    BY <1>3, <2>1, <2>2 DEF Setup!Set
  <2>3. CASE ~Setup!Consistent(answer)
    BY <1>0, <1>2, <2>1, <2>3 DEF Setup!Set, Setup!With
  <2> QED
    BY <2>2, <2>3
<1> QED
  BY <1>4, <1>5

\* The entry is replaced, or the page is left: nothing is verified then.
LEMMA SetupEnds ==
  ASSUME SetupInv, Setup!Replace \/ Setup!Leave
  PROVE  SetupInv' /\ Setup!NothingIsAssumed
<1>0. /\ DOMAIN third = {"client", "status", "verified", "pending", "problem", "open", "left",
                         "last", "continued"}
      /\ first \in HostSays /\ third.client \in Nat
  BY DEF SetupInv
<1>1. CASE Setup!Leave
  <2>1. /\ DOMAIN third' = DOMAIN third /\ third'.client = third.client
        /\ third'.pending = None /\ third'.verified = FALSE
        /\ third'.continued = third.continued /\ first' = first
    BY <1>0, <1>1 DEF Setup!Leave, Setup!Set, Setup!With
  <2>2. SetupInv'
    BY <1>0, <2>1 DEF SetupInv
  <2> QED
    BY <2>1, <2>2 DEF Setup!NothingIsAssumed, PagesAssumptions
<1>2. CASE Setup!Replace
  <2> DEFINE asked == Setup!With(third, [client |-> third.client + 1, pending |-> "status",
                                         problem |-> FALSE, last |-> None])
  <2>1. /\ DOMAIN asked = DOMAIN third /\ asked.client = third.client + 1
        /\ asked.pending = "status" /\ asked.continued = third.continued
    BY <1>0 DEF Setup!With
  <2>2. third' = Setup!With(asked, Setup!Replaced) /\ first' = first
    BY <1>2 DEF Setup!Replace
  <2> HIDE DEF asked
  <2>3. /\ DOMAIN third' = DOMAIN third /\ third'.client = third.client + 1
        /\ third'.pending = "status" /\ third'.verified \in BOOLEAN /\ ~third'.verified
        /\ third'.continued = third.continued
    BY <1>0, <2>1, <2>2 DEF Setup!With, Setup!Replaced, Setup!Forget
  <2>4. SetupInv'
    <3>1. first' = first
      BY <2>2
    <3>2. DOMAIN third' = DOMAIN third /\ third'.client \in Nat
      BY <1>0, <2>3 DEF SetupInv
    <3> QED
      BY <1>0, <2>3, <3>1, <3>2 DEF SetupInv
  <2> QED
    BY <2>3, <2>4 DEF Setup!NothingIsAssumed
<1> QED
  BY <1>1, <1>2

\* Every step of the first setup keeps it, and assumes nothing.
LEMMA SetupSteps ==
  ASSUME SetupInv, Setup!Next
  PROVE  SetupInv' /\ Setup!NothingIsAssumed
<1>0. /\ DOMAIN third = {"client", "status", "verified", "pending", "problem", "open", "left",
                         "last", "continued"}
      /\ first \in HostSays
  BY DEF SetupInv
<1>1. DOMAIN <<>> \subseteq {"open"} /\ DOMAIN [open |-> TRUE] \subseteq {"open"}
  OBVIOUS
<1>2. CASE Setup!CheckStatus \/ Setup!OpenSetup
  BY <1>1, <1>2, SetupExecutes DEF Setup!CheckStatus, Setup!OpenSetup
<1>3. CASE Setup!Apply \/ Setup!Activate
  BY <1>1, <1>3, SetupExecutes DEF Setup!Apply, Setup!Activate, Setup!CanApply,
     Setup!CanActivate
<1>4. CASE Setup!CloseSetup
  <2>1. /\ first' = first /\ DOMAIN third' = DOMAIN third /\ third'.client = third.client
        /\ third'.status = third.status /\ third'.verified = third.verified
        /\ third'.pending = third.pending /\ third'.last = third.last
        /\ third'.continued = third.continued
    BY <1>0, <1>4 DEF Setup!CloseSetup, Setup!Set, Setup!With
  <2> QED
    BY <1>0, <2>1, SetupKept
<1>5. CASE Setup!Continue
  <2>1. /\ first' = first /\ DOMAIN third' = DOMAIN third /\ third'.client = third.client
        /\ third'.status = third.status /\ third'.verified = third.verified
        /\ third'.pending = third.pending /\ third'.last = third.last
        /\ third.verified /\ third.status.state = "ready"
    BY <1>0, <1>5 DEF Setup!Continue, Setup!Set, Setup!With
  <2> QED
    BY <1>0, <2>1, SetupKept
<1>6. CASE Setup!Repair
  <2>1. third' = third /\ first' \in HostSays
    BY <1>6 DEF Setup!Repair, HostSays
  <2> QED
    BY <2>1, SetupKept
<1>7. ASSUME NEW kind, Setup!Arrives(kind)
      PROVE  SetupInv' /\ Setup!NothingIsAssumed
  <2>1. third' = third /\ first' \in HostSays
    BY <1>0, <1>7, CarriedSays DEF Setup!Arrives
  <2> QED
    BY <2>1, SetupKept
<1> QED
  BY <1>2, <1>3, <1>4, <1>5, <1>6, <1>7, SetupAnswers, SetupEnds DEF Setup!Next

-------------------------------------------------------------------------------
(* The Agent's page.                                                           *)

\* The stream and the command under way.
WatchInv ==
  /\ DOMAIN first = {"state", "session", "sequence", "given"} /\ first.sequence \in Nat
  /\ second # None => /\ DOMAIN second = {"kind", "target", "result"}
                      /\ second.result \in {None, second.target}

\* At first nothing is watched, and nothing commanded.
LEMMA WatchStarts ==
  ASSUME Agent!WatchInit
  PROVE  WatchInv
<1>1. /\ DOMAIN first = {"state", "session", "sequence", "given"} /\ first.sequence = 0
      /\ second = None
  BY DEF Agent!WatchInit, Agent!Idle, Agent!Unopened
<1> QED
  BY <1>1 DEF WatchInv

\* Steps that hand over nothing.
LEMMA WatchKept ==
  ASSUME WatchInv, DOMAIN first' = DOMAIN first, first'.sequence \in Nat, first'.given = None,
         second' # None => /\ DOMAIN second' = {"kind", "target", "result"}
                           /\ second'.result \in {None, second'.target}
  PROVE  WatchInv' /\ Agent!FramesComeInOrder
BY DEF WatchInv, Agent!FramesComeInOrder

\* A packet of the stream: what is handed over is the snapshot of the run, or a later event.
LEMMA WatchReceives ==
  ASSUME WatchInv, NEW p \in Agent!Packets, Agent!Receive(p)
  PROVE  WatchInv' /\ Agent!FramesComeInOrder
<1>0. /\ DOMAIN first = {"state", "session", "sequence", "given"} /\ first.sequence \in Nat
      /\ first.state = "open" /\ second' = second
      /\ second # None => /\ DOMAIN second = {"kind", "target", "result"}
                          /\ second.result \in {None, second.target}
  BY DEF WatchInv, Agent!Receive
<1>1. CASE Agent!Pass \/ Agent!Fail
  <2>1. /\ DOMAIN first' = DOMAIN first /\ first'.sequence = first.sequence
        /\ first'.given = None
    BY <1>0, <1>1 DEF Agent!Pass, Agent!Fail
  <2> QED
    BY <1>0, <2>1, WatchKept
<1>2. CASE p.kind = "resnapshot"
  <2>1. /\ DOMAIN first' = DOMAIN first /\ first'.sequence = first.sequence
        /\ first'.given = None
    BY <1>0, <1>2 DEF Agent!Receive
  <2> QED
    BY <1>0, <2>1, WatchKept
<1>3. ASSUME p.kind \in {"snapshot", "event"}, Agent!Give(p, Agent!After(p)), p.run = Run,
             p.kind = "snapshot" <=> first.sequence = 0,
             p.kind = "event" => p.session = first.session /\ p.sequence > first.sequence
      PROVE  WatchInv' /\ Agent!FramesComeInOrder
  <2>1. p.sequence \in 1..MaxSequence /\ p.status \in {"running", "ended"}
    BY <1>3 DEF Agent!Packets, Agent!Snapshots, Agent!Events, Agent!Others, Agent!Sequences,
       Agent!Ends
  <2>2. /\ DOMAIN first' = DOMAIN first /\ first'.given = p /\ first'.sequence = p.sequence
        /\ first'.state = IF p.status = "running" THEN "open" ELSE "done"
    BY <1>0, <1>3 DEF Agent!Give, Agent!After
  <2>3. WatchInv'
    BY <1>0, <2>1, <2>2 DEF WatchInv
  <2> QED
    BY <1>0, <1>3, <2>1, <2>2, <2>3 DEF Agent!FramesComeInOrder, Agent!Unopened
<1>4. CASE p.kind = "snapshot"
  <2>1. IF Agent!ValidSnapshot(p) THEN Agent!Give(p, Agent!After(p)) ELSE Agent!Fail
    BY <1>4 DEF Agent!Receive
  <2> QED
    BY <1>1, <1>3, <1>4, <2>1 DEF Agent!ValidSnapshot, Agent!Unopened
<1>5. CASE p.kind = "event"
  <2>1. IF ~Agent!ValidEvent(p) THEN Agent!Fail
        ELSE IF Agent!Skipped(p.sequence) THEN Agent!Pass ELSE Agent!Give(p, Agent!After(p))
    BY <1>5 DEF Agent!Receive
  <2>2. p.sequence \in 1..MaxSequence
    BY <1>5 DEF Agent!Packets, Agent!Snapshots, Agent!Events, Agent!Others, Agent!Sequences
  <2>3. ~Agent!Skipped(p.sequence) => p.sequence > first.sequence
    BY <1>0, <2>2 DEF Agent!Skipped, Agent!Known
  <2> QED
    BY <1>1, <1>3, <1>5, <2>1, <2>3 DEF Agent!ValidEvent, Agent!Unopened
<1>6. CASE p.kind = "comment"
  BY <1>1, <1>6 DEF Agent!Receive
<1>7. CASE p.kind \notin {"comment", "resnapshot", "snapshot", "event"}
  BY <1>1, <1>7 DEF Agent!Receive
<1> QED
  BY <1>2, <1>4, <1>5, <1>6, <1>7

\* Every step of the stream and its commands keeps it, and hands frames over in order.
LEMMA WatchSteps ==
  ASSUME WatchInv, Agent!WatchNext
  PROVE  WatchInv' /\ Agent!FramesComeInOrder
<1>0. /\ DOMAIN first = {"state", "session", "sequence", "given"} /\ first.sequence \in Nat
      /\ second # None => /\ DOMAIN second = {"kind", "target", "result"}
                          /\ second.result \in {None, second.target}
  BY DEF WatchInv
<1>1. CASE Agent!Open \/ Agent!Detach
  <2>1. /\ DOMAIN first' = DOMAIN first /\ first'.sequence = 0 /\ first'.given = None
        /\ second' = second
    BY <1>0, <1>1 DEF Agent!Open, Agent!Detach, Agent!Idle, Agent!Unopened
  <2> QED
    BY <1>0, <2>1, WatchKept
<1>2. ASSUME first' = first,
             second' # None => /\ DOMAIN second' = {"kind", "target", "result"}
                               /\ second'.result \in {None, second'.target}
      PROVE  WatchInv' /\ Agent!FramesComeInOrder
  BY <1>0, <1>2 DEF WatchInv, Agent!FramesComeInOrder
<1>3. CASE Agent!Refused
  BY <1>2, <1>3 DEF Agent!Refused
<1>4. ASSUME NEW kind, NEW target, Agent!Send(kind, target)
      PROVE  WatchInv' /\ Agent!FramesComeInOrder
  <2>1. first' = first /\ second' = [kind |-> kind, target |-> target, result |-> None]
    BY <1>4 DEF Agent!Send
  <2> QED
    BY <1>2, <2>1
<1>5. ASSUME NEW about, Agent!Answer(about)
      PROVE  WatchInv' /\ Agent!FramesComeInOrder
  <2>1. /\ first' = first /\ second # None
        /\ second' = None \/ second' = [second EXCEPT !.result = second.target]
    BY <1>5 DEF Agent!Answer, Agent!About, Agent!SameTarget
  <2>2. second' = None \/ /\ DOMAIN second' = {"kind", "target", "result"}
                          /\ second'.result = second'.target
    BY <1>0, <2>1
  <2> QED
    BY <1>2, <2>1, <2>2
<1> QED
  BY <1>1, <1>3, <1>4, <1>5, WatchReceives DEF Agent!WatchNext

\* What is saved was saved in the scope there is now, or before the page was loaded.
ResumeInv ==
  /\ DOMAIN second = {"current", "revision", "disposed", "record", "given"}
  /\ second.revision \in Nat
  /\ second.record # None =>
       \/ second.record.revision = 0
       \/ second.record.revision = second.revision /\ second.current # None
  /\ \A c \in third : c.kind \in {"read", "save"} /\ c.scope \in Scopes

\* At first nothing is asked for, and what is saved is from before.
LEMMA ResumeStarts ==
  ASSUME Agent!ResumeInit
  PROVE  ResumeInv
<1>1. PICK left \in Scopes \cup {None} :
        second = [current |-> Agent!Trusted, revision |-> 0, disposed |-> FALSE,
                  record |-> IF left = None \/ first = SignedOut THEN None
                             ELSE [scope |-> left, revision |-> 0],
                  given |-> None]
  BY DEF Agent!ResumeInit
<1> DEFINE record == IF left = None \/ first = SignedOut THEN None
                     ELSE [scope |-> left, revision |-> 0]
<1>2. /\ DOMAIN second = {"current", "revision", "disposed", "record", "given"}
      /\ second.revision = 0 /\ second.record = record
  BY <1>1
<1>3. record # None => record.revision = 0
  OBVIOUS
<1> HIDE DEF record
<1> QED
  BY <1>2, <1>3 DEF ResumeInv, Agent!ResumeInit

\* Steps that give nothing back: what is saved stays, or goes.
LEMMA ResumeKept ==
  ASSUME ResumeInv, DOMAIN second' = DOMAIN second, second'.revision = second.revision,
         second'.current = second.current, second'.given = None,
         second'.record \in {second.record, None},
         \A c \in third' : c.kind \in {"read", "save"} /\ c.scope \in Scopes
  PROVE  ResumeInv' /\ Agent!SessionsStayInTheirScope
BY DEF ResumeInv, Agent!SessionsStayInTheirScope

\* Where a call may go on, the host trusts its scope, and the observer knows.
LEMMA HoldsSays ==
  ASSUME ResumeInv, NEW c \in third, Agent!Holds(c.scope, c.revision)
  PROVE  /\ first = c.scope /\ c.revision = second.revision
         /\ second.current = c.scope /\ second.current # None
BY DEF Agent!Holds, Agent!Check, Agent!Trusted, ResumeInv, PagesAssumptions

\* The observer is told of a scope: what another one saved goes.
LEMMA ResumeNoticed ==
  ASSUME ResumeInv, Agent!Noticed
  PROVE  ResumeInv' /\ Agent!SessionsStayInTheirScope
<1> DEFINE gone == \/ second.current # None /\ second.current # Agent!Trusted
                   \/ Agent!Trusted = None /\ first # Loading
           changed == second.current # Agent!Trusted
<1>0. /\ DOMAIN second = {"current", "revision", "disposed", "record", "given"}
      /\ second.revision \in Nat
  BY DEF ResumeInv
<1>1. /\ DOMAIN second' = DOMAIN second /\ second'.given = None /\ third' = third
      /\ second'.record = (IF gone THEN None ELSE second.record)
      /\ second'.revision = second.revision + (IF changed THEN 1 ELSE 0)
      /\ second'.current = Agent!Trusted
  BY <1>0 DEF Agent!Noticed, Agent!Set
<1>2. second'.record # None =>
        /\ second'.record = second.record
        /\ second'.record.revision \in {0, second'.revision}
        /\ second'.record.revision = 0 \/ second'.current # None
  BY <1>0, <1>1 DEF ResumeInv
<1>3. ResumeInv'
  BY <1>0, <1>1, <1>2 DEF ResumeInv
<1> QED
  BY <1>1, <1>2, <1>3 DEF Agent!SessionsStayInTheirScope

\* A digest is there.
LEMMA ResumeAnswers ==
  ASSUME ResumeInv, NEW c \in third, Agent!Read(c) \/ Agent!Save(c) \/ Agent!GivenUp(c)
  PROVE  ResumeInv' /\ Agent!SessionsStayInTheirScope
<1>0. /\ DOMAIN second = {"current", "revision", "disposed", "record", "given"}
      /\ second.revision \in Nat
      /\ \A d \in third : d.kind \in {"read", "save"} /\ d.scope \in Scopes
      /\ third' = third \ {c}
  BY DEF ResumeInv, Agent!Read, Agent!Save, Agent!GivenUp
<1>1. CASE /\ DOMAIN second' = DOMAIN second /\ second'.revision = second.revision
           /\ second'.current = second.current /\ second'.given = None
           /\ second'.record \in {second.record, None}
  BY <1>0, <1>1, ResumeKept
<1>2. CASE Agent!GivenUp(c)
  BY <1>0, <1>1, <1>2 DEF Agent!GivenUp, Agent!Set
<1>3. CASE ~Agent!Holds(c.scope, c.revision)
  BY <1>0, <1>1, <1>2, <1>3 DEF Agent!Read, Agent!Save, Agent!Set
<1>4. CASE Agent!Read(c) /\ Agent!Holds(c.scope, c.revision)
  <2>1. CASE Agent!Matches(second.record, c.scope)
    <3>1. /\ DOMAIN second' = DOMAIN second /\ second'.revision = second.revision
          /\ second'.current = second.current /\ second'.record = second.record
          /\ second'.given = second.record
      BY <1>0, <1>4, <2>1 DEF Agent!Read, Agent!Set
    <3>2. second.record # None /\ second.record.scope = c.scope /\ c.kind = "read"
      BY <1>4, <2>1 DEF Agent!Matches, Agent!OwnRecord, Agent!Read
    <3>3. ResumeInv'
      BY <1>0, <3>1 DEF ResumeInv
    <3> QED
      BY <1>4, <3>1, <3>2, <3>3, HoldsSays DEF Agent!SessionsStayInTheirScope, ResumeInv
  <2>2. CASE ~Agent!Matches(second.record, c.scope)
    BY <1>0, <1>1, <1>4, <2>2 DEF Agent!Read, Agent!Set
  <2> QED
    BY <2>1, <2>2
<1>5. CASE Agent!Save(c) /\ Agent!Holds(c.scope, c.revision)
  <2>1. /\ DOMAIN second' = DOMAIN second /\ second'.revision = second.revision
        /\ second'.current = second.current /\ second'.given = None
        /\ second'.record = [scope |-> c.scope, revision |-> c.revision]
    BY <1>0, <1>5 DEF Agent!Save, Agent!Set
  <2>2. /\ second'.record.scope = c.scope /\ second'.record.revision = c.revision
    BY <2>1
  <2>3. ResumeInv'
    BY <1>0, <1>5, <2>1, <2>2, HoldsSays DEF ResumeInv
  <2> QED
    BY <1>5, <2>1, <2>2, <2>3, HoldsSays DEF Agent!SessionsStayInTheirScope
<1> QED
  BY <1>2, <1>3, <1>4, <1>5

\* Every step of the saved conversation keeps it, and sessions stay in their scope.
LEMMA ResumeSteps ==
  ASSUME ResumeInv, Agent!ResumeNext
  PROVE  ResumeInv' /\ Agent!SessionsStayInTheirScope
<1>0. /\ DOMAIN second = {"current", "revision", "disposed", "record", "given"}
      /\ \A c \in third : c.kind \in {"read", "save"} /\ c.scope \in Scopes
  BY DEF ResumeInv
<1>1. ASSUME NEW next, Agent!HostChanges(next)
      PROVE  ResumeInv' /\ Agent!SessionsStayInTheirScope
  BY <1>0, <1>1, ResumeKept DEF Agent!HostChanges, Agent!Set
<1>2. CASE Agent!Dispose
  BY <1>0, <1>2, ResumeKept DEF Agent!Dispose, Agent!Set
<1>3. ASSUME NEW scope, Agent!Clear(scope)
      PROVE  ResumeInv' /\ Agent!SessionsStayInTheirScope
  BY <1>0, <1>3, ResumeKept DEF Agent!Clear, Agent!Set
<1>4. ASSUME NEW scope \in Scopes, NEW kind \in {"read", "save"}, Agent!Call(kind, scope)
      PROVE  ResumeInv' /\ Agent!SessionsStayInTheirScope
  <2>1. /\ DOMAIN second' = DOMAIN second /\ second'.revision = second.revision
        /\ second'.current = second.current /\ second'.given = None
        /\ second'.record = second.record
    BY <1>0, <1>4 DEF Agent!Call, Agent!Set
  <2>2. third' = third \cup {[kind |-> kind, scope |-> scope, revision |-> second.revision]}
    BY <1>4 DEF Agent!Call
  <2>3. \A c \in third' : c.kind \in {"read", "save"} /\ c.scope \in Scopes
    BY <1>0, <2>2
  <2> QED
    BY <2>1, <2>3, ResumeKept
<1> QED
  BY <1>1, <1>2, <1>3, <1>4, ResumeNoticed, ResumeAnswers DEF Agent!ResumeNext

-------------------------------------------------------------------------------
(* What the person is at: the invariants that keep it, page by page.           *)

\* A call that ends with a credential.
Delivering(r) == r # None /\ r.kind \in Administration!Delivers

\* A credential on display is on the tokens' page, and no other is asked for beside it.
SecretInv ==
  /\ second.route \in Administration!Routes /\ second.delivery \in {None, "secret"}
  /\ second.delivery # None => second.route = "agent"
  /\ second.open \in {"issue", "token"} => second.route = "agent"
  /\ second.open = "user" => second.route = "identity"
  /\ Delivering(second.asking) =>
       second.route = "agent" /\ (second.delivery # None => second.run = "settling")
  /\ second.run = "sent" /\ second.sent.kind \in Administration!Delivers =>
       second.route = "agent"

\* A save that the present epoch waits for.
Pending(c) == c.live /\ c.value # None

\* There is one at most; meanwhile nothing else is saved, and what is being edited is what
\* it saves.
SavesInv ==
  /\ \A i \in DOMAIN first.calls :
       /\ Pending(first.calls[i]) =>
            /\ first.busy /\ first.loaded
            /\ first.editing # None => first.calls[i].value = first.editing
       /\ first.calls[i].written # 0 => first.calls[i].value # None
  /\ \A i, j \in DOMAIN first.calls :
       Pending(first.calls[i]) /\ Pending(first.calls[j]) => i = j

\* Only the last question may still count, and it is about the view as it is.
Counts(exits, view) ==
  \A i \in DOMAIN exits :
    exits[i].current => i = Len(exits) /\ view # None /\ exits[i].of = view

\* What holds of the dock at every step.
DockInv ==
  /\ DOMAIN first = {"offered", "cover", "failed", "shown", "menu", "exits", "ready", "focus",
                     "owed"}
  /\ first.shown # None => first.shown.view \in first.offered
  /\ IsSeq(first.exits)
  /\ \A i \in DOMAIN first.exits : DOMAIN first.exits[i] = {"of", "next", "current"}
  /\ Counts(first.exits, Dock!Visible)

\* A save that was carried out has left in the store what it saved.
RetryInv ==
  first.retry # None =>
    /\ first.retry.doc = first.draft.doc /\ first.retry.id \in 1..first.minted
    /\ LET revision == first.done[first.retry.id]
       IN  revision # 0 =>
             first.stored[revision]
               = Board!Keeping(first.retry.doc, Board!Hidden, first.stored[revision])

\* Each mutation that was minted is of a version at most.
MutationsInv ==
  /\ IsSeq(first.stored) /\ first.minted \in 0..MaxMutations
  /\ DOMAIN first.done = 1..MaxMutations
  /\ \A id \in 1..MaxMutations : /\ first.done[id] \in 0..Len(first.stored)
                                 /\ id > first.minted => first.done[id] = 0

\* There is a draft, or nothing to edit, to save or to be asked about it.
DraftInv ==
  \/ /\ first.draft = None /\ first.snapshot = None /\ first.retry = None /\ ~first.editing
     /\ first.confirm \in {None, "reload"}
  \/ DOMAIN first.draft = {"doc", "layouts"}

\* What holds of the dashboard and its store at every step.
BoardInv ==
  /\ DOMAIN first = {"stored", "done", "minted", "snapshot", "draft", "call", "retry",
                     "confirm", "selected", "editing", "adding", "loading", "error", "hides"}
  /\ first.call # None => first.call = first.retry /\ ~first.loading /\ first.confirm = None
  /\ MutationsInv /\ DraftInv /\ RetryInv

\* Presets, of which one is active, each under an id of its own.
Presets(presets, active) ==
  /\ IsSeq(presets)
  /\ \A i \in DOMAIN presets : DOMAIN presets[i] = {"id", "name", "pins"} /\ IsSeq(presets[i].pins)
  /\ \A i, j \in DOMAIN presets : presets[i].id = presets[j].id => i = j
  /\ \E i \in DOMAIN presets : presets[i].id = active

\* What holds of the launcher's editor at every step.
EditorInv ==
  /\ DOMAIN first = {"presets", "active", "hidden", "gesture", "naming", "deleting", "adding",
                     "saving", "suspended"}
  /\ Presets(first.presets, first.active)
  /\ first.gesture # None =>
       DOMAIN first.gesture = {"of", "before", "last"} /\ IsSeq(first.gesture.before)
  /\ first.saving # None => Presets(first.saving.presets, first.saving.active)
  /\ first.deleting => Len(first.presets) > 1

-------------------------------------------------------------------------------
(* A credential that is shown once.                                            *)

\* The fields of the page.
DeskFields == {"route", "info", "rows", "query", "open", "base", "created", "asking", "sent",
               "run", "filled", "blocked", "delivery", "ready", "doubt"}

\* A step beside the calls and the credential.
LEMMA SecretStays ==
  ASSUME SecretInv, second'.route = second.route, second'.delivery \in {second.delivery, None},
         second'.open \in {second.open, None} \cup Administration!Surfaces[second.route],
         second'.asking \in {second.asking, None},
         \/ second'.run = second.run /\ second'.sent = second.sent
         \/ second'.run # "sent" /\ (second.run # "settling" \/ second'.asking = None)
  PROVE  SecretInv'
<1>1. /\ second'.open \in {"issue", "token"} => second.route = "agent"
      /\ second'.open = "user" => second.route = "identity"
  BY DEF SecretInv, PagesAssumptions, Administration!Surfaces, Administration!Routes
<1> QED
  BY <1>1 DEF SecretInv, Delivering

\* A page as it is first rendered.
LEMMA SecretFresh ==
  ASSUME second'.route \in Administration!Routes, second'.delivery = None,
         second'.open = None \/ (second'.open = "user" /\ second'.route = "identity"),
         second'.asking = None, second'.run = "idle"
  PROVE  SecretInv'
BY DEF SecretInv, Delivering, PagesAssumptions

\* The page as it is first.
LEMMA SecretStarts ==
  ASSUME Administration!Init
  PROVE  SecretInv
<1>1. PICK route \in Administration!Routes : \E q \in Administration!DirectoryLocation(route) :
        second = Administration!Fresh(route, Administration!Unread, Administration!Unread, q, "none")
  BY DEF Administration!Init
<1>2. /\ second.route = route /\ second.delivery = None /\ second.open = None
      /\ second.asking = None /\ second.run = "idle"
  BY <1>1 DEF Administration!Fresh
<1> QED
  BY <1>2 DEF SecretInv, Delivering, PagesAssumptions

\* Drawers and forms are opened, filled in and closed.
LEMMA SecretForms ==
  ASSUME DeskInv, SecretInv,
         \/ Administration!OpenMember \/ Administration!OpenRole \/ Administration!OpenIssue
         \/ Administration!OpenToken \/ Administration!OpenEvent
         \/ Administration!PickIdentity \/ Administration!DescribeRole
         \/ Administration!ChangePermissions \/ Administration!ChooseScopes
         \/ Administration!Close \/ Administration!CreatorCloses
         \/ Administration!Cancel
  PROVE  SecretInv' /\ second'.delivery = second.delivery
<1>0. DOMAIN second = DeskFields
  BY DEF DeskInv, DeskTyped, DeskFields
<1> DEFINE Kept ==
      /\ second'.route = second.route /\ second'.delivery = second.delivery
      /\ second'.run = second.run /\ second'.sent = second.sent
      /\ second'.open \in {second.open, None} \cup Administration!Surfaces[second.route]
      /\ second'.asking \in {second.asking, None}
<1>s. SUFFICES Kept
  BY SecretStays
<1>1. ASSUME NEW drawer, Administration!Open(drawer), NEW kept,
             \/ second' = Administration!Opened(drawer)
             \/ second' = [Administration!Opened(drawer) EXCEPT !.filled = kept]
      PROVE  Kept
  <2> DEFINE d == Administration!Opened(drawer)
  <2>1. /\ DOMAIN d = DeskFields /\ d.route = second.route /\ d.delivery = second.delivery
        /\ d.run = second.run /\ d.sent = second.sent /\ d.open = drawer
        /\ d.asking = second.asking
    BY <1>0 DEF Administration!Opened, DeskFields
  <2>2. second' = d \/ second' = [d EXCEPT !.filled = kept]
    BY <1>1
  <2>3. drawer \in Administration!Surfaces[second.route]
    BY <1>1 DEF Administration!Open
  <2> HIDE DEF d
  <2>4. CASE second' = d
    BY <2>1, <2>3, <2>4
  <2>5. CASE second' = [d EXCEPT !.filled = kept]
    BY <2>1, <2>3, <2>5 DEF DeskFields
  <2> QED
    BY <2>2, <2>4, <2>5
<1>2. CASE Administration!OpenMember
  BY <1>1, <1>2 DEF Administration!OpenMember
<1>3. CASE Administration!OpenRole
  BY <1>1, <1>3 DEF Administration!OpenRole
<1>4. CASE Administration!OpenIssue \/ Administration!OpenToken \/ Administration!OpenEvent
  BY <1>1, <1>4 DEF Administration!OpenIssue, Administration!OpenToken,
     Administration!OpenEvent
<1>5. ASSUME NEW drawer, NEW filled, Administration!Form(drawer, filled)
      PROVE  Kept
  BY <1>0, <1>5 DEF Administration!Form, DeskFields
<1>6. CASE Administration!PickIdentity \/ Administration!DescribeRole
           \/ Administration!ChangePermissions \/ Administration!ChooseScopes
  BY <1>5, <1>6 DEF Administration!PickIdentity, Administration!DescribeRole,
     Administration!ChangePermissions, Administration!ChooseScopes
<1>7. CASE Administration!Close
  BY <1>0, <1>7 DEF Administration!Close, DeskFields
<1>8. CASE Administration!CreatorCloses
  BY <1>0, <1>8 DEF Administration!CreatorCloses, DeskFields
<1>9. CASE Administration!Cancel
  BY <1>0, <1>9 DEF Administration!Cancel, DeskFields
<1> QED
  BY <1>2, <1>3, <1>4, <1>6, <1>7, <1>8, <1>9

\* A credential is asked for where none is on display.
LEMMA SecretAsked ==
  ASSUME DeskInv, SecretInv,
         \/ Administration!AskMembership \/ Administration!AskRemoval
         \/ Administration!AskDisable \/ Administration!AskSession \/ Administration!AskSave
         \/ Administration!AskCreate \/ Administration!AskIssue \/ Administration!AskToken
  PROVE  SecretInv' /\ second'.delivery = second.delivery
<1>0. DOMAIN second = DeskFields
  BY DEF DeskInv, DeskTyped, DeskFields
<1>1. PICK kind \in DOMAIN Administration!Writes :
        /\ Administration!AskFor(kind)
        /\ kind \in Administration!Delivers => second.delivery = None
  BY DEF Administration!AskMembership, Administration!AskRemoval, Administration!AskDisable,
     Administration!AskSession, Administration!AskSave, Administration!AskCreate,
     Administration!AskIssue, Administration!AskToken, Administration!Writes,
     Administration!Delivers
<1> DEFINE r == Administration!Wanted(kind)
<1>2. /\ second'.route = second.route /\ second'.delivery = second.delivery
      /\ second'.run = second.run /\ second'.sent = second.sent
      /\ second'.open = second.open /\ second'.asking = r
  BY <1>0, <1>1 DEF Administration!AskFor, Administration!Confirm, DeskFields
<1>3. r.kind = kind
  BY DEF Administration!Wanted
<1> HIDE DEF r
<1>4. kind \in Administration!Delivers => second.route = "agent"
  <2>1. second.open \in Administration!Writes[kind]
    BY <1>1 DEF Administration!AskFor
  <2> QED
    BY <2>1 DEF Administration!Writes, Administration!Delivers, SecretInv
<1> QED
  BY <1>1, <1>2, <1>3, <1>4 DEF SecretInv, Delivering

\* A call is sent, and its end leaves what is on display.
LEMMA SecretSent ==
  ASSUME DeskInv, SecretInv,
         \/ Administration!Execute \/ Administration!Succeeds \/ Administration!Invalid
         \/ Administration!Fails \/ Administration!Settle \/ Administration!Reload
         \/ Administration!ReloadEnds
  PROVE  SecretInv' /\ (second.delivery # None => second'.delivery = second.delivery)
<1>0. DOMAIN second = DeskFields
  BY DEF DeskInv, DeskTyped, DeskFields
<1>1. CASE Administration!Execute
  <2>1. /\ second'.route = second.route /\ second'.open = second.open
        /\ second'.asking = second.asking /\ second'.run = "sent"
        /\ second'.sent = second.asking /\ second.asking # None /\ second.run = "idle"
        /\ second'.delivery = IF second.asking.kind \in Administration!Delivers
                              THEN None ELSE second.delivery
    BY <1>0, <1>1 DEF Administration!Execute, Administration!Pending, DeskFields
  <2>2. second.asking.kind \in Administration!Delivers => second.delivery = None
    BY <2>1 DEF SecretInv, Delivering
  <2> QED
    BY <2>1, <2>2 DEF SecretInv, Delivering
<1>2. CASE Administration!Succeeds
  <2>1. /\ second'.route = second.route /\ second'.open = second.open
        /\ second'.asking = second.asking /\ second'.run = "settling" /\ second.run = "sent"
        /\ second'.delivery = IF second.sent.kind \in Administration!Delivers
                              THEN "secret" ELSE second.delivery
    BY <1>0, <1>2 DEF Administration!Succeeds, Administration!Invalidated, DeskFields
  <2> QED
    BY <2>1 DEF SecretInv, Delivering
<1>3. CASE Administration!Invalid \/ Administration!Settle
  <2>1. /\ second'.route = second.route /\ second'.open = second.open
        /\ second'.asking = None /\ second'.run = "idle"
        /\ second'.delivery = second.delivery
    BY <1>0, <1>3 DEF Administration!Invalid, Administration!Settle, DeskFields
  <2> QED
    BY <2>1, SecretStays
<1>4. CASE Administration!Fails
  <2>1. /\ second'.route = second.route /\ second'.open = second.open
        /\ second'.asking = second.asking /\ second'.run = "settling" /\ second.run = "sent"
        /\ second'.delivery = second.delivery
    BY <1>0, <1>4 DEF Administration!Fails, Administration!Invalidated, DeskFields
  <2> QED
    BY <2>1, SecretStays
<1>5. CASE Administration!Reload \/ Administration!ReloadEnds
  <2>1. /\ second'.route = second.route /\ second'.open = second.open
        /\ second'.asking = second.asking /\ second'.delivery = second.delivery
        /\ second'.run \in {"idle", "reloading"} /\ second.run \in {"idle", "reloading"}
    BY <1>0, <1>5 DEF Administration!Reload, Administration!ReloadEnds, DeskFields,
       Administration!Invalidated, Administration!Pending
  <2> QED
    BY <2>1, SecretStays
<1> QED
  BY <1>1, <1>2, <1>3, <1>4, <1>5

\* Rows are asked for, and answered.
LEMMA SecretReads ==
  ASSUME DeskInv, SecretInv,
         \/ Administration!SearchDirectory \/ Administration!NextIdentities
         \/ Administration!NextSessions \/ Administration!NextTokens
         \/ Administration!Refetch \/ Administration!RowsAnswer
  PROVE  SecretInv' /\ second'.delivery = second.delivery
<1>0. DOMAIN second = DeskFields
  BY DEF DeskInv, DeskTyped, DeskFields
<1> DEFINE Same == /\ second'.route = second.route /\ second'.delivery = second.delivery
                   /\ second'.open = second.open /\ second'.asking = second.asking
                   /\ second'.run = second.run /\ second'.sent = second.sent
<1>s. SUFFICES Same
  BY SecretStays
<1>1. CASE Administration!SearchDirectory \/ Administration!NextIdentities
           \/ Administration!NextSessions \/ Administration!NextTokens
  <2>1. PICK query : Administration!Turn(query)
    BY <1>1 DEF Administration!SearchDirectory,
       Administration!NextIdentities, Administration!NextSessions, Administration!NextTokens
  <2> QED
    BY <1>0, <2>1 DEF Administration!Turn, DeskFields
<1>2. CASE Administration!Refetch
  BY <1>0, <1>2 DEF Administration!Refetch, DeskFields
<1>3. CASE Administration!RowsAnswer
  <2>1. PICK rows : second' = Administration!Rekey(second, rows)
    BY <1>3 DEF Administration!RowsAnswer
  <2> QED
    BY <1>0, <2>1 DEF Administration!Rekey, DeskFields
<1> QED
  BY <1>1, <1>2, <1>3

\* A page built anew has no credential; it was another page, or has other permissions.
LEMMA SecretRebuilt ==
  ASSUME DeskInv, SecretInv,
         Administration!InfoAnswers \/ Administration!Leave \/ Administration!OpenIdentity
  PROVE  SecretInv' /\ Administration!CredentialIsSeen
<1>0. DOMAIN second = DeskFields /\ DOMAIN second.info = {"data", "busy", "failed"}
  BY DEF DeskInv, DeskTyped, DeskFields
<1>1. ASSUME NEW route \in Administration!Routes, NEW info, NEW rows, NEW query,
             second' = Administration!Fresh(route, info, rows, query, Administration!Left)
      PROVE  SecretInv' /\ second'.route = route /\ second'.info = info
  <2>1. /\ second'.route = route /\ second'.info = info /\ second'.delivery = None
        /\ second'.open = None /\ second'.asking = None /\ second'.run = "idle"
    BY <1>1 DEF Administration!Fresh
  <2> QED
    BY <2>1, SecretFresh
<1>2. CASE Administration!InfoAnswers
  <2>1. PICK info \in {Administration!Answered(second.info, first.rights),
                       Administration!Failed(second.info)} :
          /\ second.info.busy
          /\ \/ second' = [second EXCEPT !.info = info]
             \/ second' = Administration!Rebuilt(info)
    BY <1>2 DEF Administration!InfoAnswers
  <2>2. info # second.info
    <3>1. info.busy = FALSE
      <4>1. info \in {Administration!Answered(second.info, first.rights),
                      Administration!Failed(second.info)}
        OBVIOUS
      <4>2. Administration!Answered(second.info, first.rights).busy = FALSE
        BY DEF Administration!Answered
      <4>3. Administration!Failed(second.info).busy = FALSE
        BY <1>0 DEF Administration!Failed
      <4> QED
        BY <4>1, <4>2, <4>3
    <3> QED
      BY <2>1, <3>1
  <2>3. CASE second' = [second EXCEPT !.info = info]
    <3>1. /\ second'.route = second.route /\ second'.delivery = second.delivery
          /\ second'.open = second.open /\ second'.asking = second.asking
          /\ second'.run = second.run /\ second'.sent = second.sent
      BY <1>0, <2>3 DEF DeskFields
    <3> QED
      BY <3>1, SecretStays DEF Administration!CredentialIsSeen
  <2>4. CASE second' = Administration!Rebuilt(info)
    <3>1. SecretInv' /\ second'.info = info
      BY <1>1, <2>4 DEF Administration!Rebuilt, SecretInv
    <3> QED
      BY <2>2, <3>1 DEF Administration!CredentialIsSeen
  <2> QED
    BY <2>1, <2>3, <2>4
<1>3. CASE Administration!Leave
  <2>1. CASE \E route \in Administration!Routes \ {second.route} :
               second' = Administration!Fresh(route, Administration!Asked(second.info),
                                              Administration!Unread, "first",
                                              Administration!Left)
    BY <1>1, <2>1 DEF Administration!CredentialIsSeen
  <2>2. CASE second.open = "user" /\ second' = Administration!Fresh(second.route, second.info,
                                  Administration!Unread, second.query, Administration!Left)
    <3>1. SecretInv'
      BY <1>1, <2>2 DEF SecretInv
    <3> QED
      BY <2>2, <3>1 DEF SecretInv, Administration!CredentialIsSeen
  <2> QED
    BY <1>3, <2>1, <2>2 DEF Administration!Leave
<1>4. CASE Administration!OpenIdentity
  <2> DEFINE d == Administration!Fresh("identity", second.info, Administration!Unread,
                                       second.query, Administration!Left)
  <2>1. /\ DOMAIN d = DeskFields /\ d.route = "identity" /\ d.delivery = None
        /\ d.asking = None /\ d.run = "idle"
    BY DEF Administration!Fresh, DeskFields
  <2>2. second' = [d EXCEPT !.open = "user", !.filled = TRUE]
    BY <1>4 DEF Administration!OpenIdentity
  <2> HIDE DEF d
  <2>3. /\ second'.route = "identity" /\ second'.delivery = None /\ second'.open = "user"
        /\ second'.asking = None /\ second'.run = "idle"
    BY <2>1, <2>2 DEF DeskFields
  <2>4. SecretInv'
    BY <2>3, SecretFresh DEF Administration!Routes
  <2>5. "user" \in Administration!Surfaces[second.route]
    BY <1>4 DEF Administration!OpenIdentity, Administration!Open
  <2>6. second.route = "identity"
    BY <2>5 DEF SecretInv, Administration!Routes, Administration!Surfaces
  <2> QED
    BY <2>4, <2>6 DEF SecretInv, Administration!CredentialIsSeen
<1> QED
  BY <1>2, <1>3, <1>4

\* What the server does, and that the person has seen the credential.
LEMMA SecretElsewhere ==
  ASSUME DeskInv, SecretInv,
         \/ Administration!ServerTakes \/ Administration!OthersWrite
         \/ Administration!DismissCredential
  PROVE  SecretInv' /\ Administration!CredentialIsSeen
<1>0. DOMAIN second = DeskFields
  BY DEF DeskInv, DeskTyped, DeskFields
<1>1. CASE second' = second
  BY <1>1 DEF SecretInv, Delivering, Administration!CredentialIsSeen
<1>2. ASSUME NEW at, second.run = "sent", second' = [second EXCEPT !.sent.at = at]
      PROVE  SecretInv' /\ Administration!CredentialIsSeen
  <2>1. /\ second'.route = second.route /\ second'.delivery = second.delivery
        /\ second'.open = second.open /\ second'.asking = second.asking
        /\ second'.run = second.run /\ second'.sent = [second.sent EXCEPT !.at = at]
    BY <1>0, <1>2 DEF DeskFields
  <2>2. second'.sent.kind = second.sent.kind
    <3>1. DOMAIN second.sent = {"kind", "at", "seen", "expected"}
      BY <1>2 DEF DeskInv, RequestsOK, RequestOK
    <3> QED
      BY <2>1, <3>1
  <2> QED
    BY <2>1, <2>2 DEF SecretInv, Delivering, Administration!CredentialIsSeen
<1>3. CASE Administration!DismissCredential
  <2>1. /\ second'.route = second.route /\ second'.delivery = None
        /\ second'.open \in {second.open, None} /\ second'.asking = second.asking
        /\ second'.run = second.run /\ second'.sent = second.sent
        /\ second.ready /\ second.run = "idle"
    BY <1>0, <1>3 DEF Administration!DismissCredential, Administration!Pending, DeskFields
  <2> QED
    BY <2>1, SecretStays DEF Administration!CredentialIsSeen
<1> QED
  BY <1>1, <1>2, <1>3 DEF Administration!ServerTakes, Administration!OthersWrite

\* Every step of the administration pages keeps it, and the credential.
LEMMA SecretSteps ==
  ASSUME DeskInv, SecretInv, Administration!Next
  PROVE  SecretInv' /\ Administration!CredentialIsSeen
<1>1. CASE \/ Administration!ServerTakes \/ Administration!OthersWrite
           \/ Administration!DismissCredential
           \/ Administration!InfoAnswers \/ Administration!Leave \/ Administration!OpenIdentity
  BY <1>1, SecretElsewhere, SecretRebuilt
<1>2. CASE ~(\/ Administration!ServerTakes \/ Administration!OthersWrite
             \/ Administration!DismissCredential
             \/ Administration!InfoAnswers \/ Administration!Leave
             \/ Administration!OpenIdentity)
  <2>1. SecretInv' /\ (second.delivery # None => second'.delivery = second.delivery)
    BY <1>2, SecretForms, SecretAsked, SecretSent, SecretReads
       DEF Administration!Next, Administration!Answers
  <2> QED
    BY <2>1 DEF Administration!CredentialIsSeen
<1> QED
  BY <1>1, <1>2

-------------------------------------------------------------------------------
(* The edits of the preferences.                                               *)

\* The fields of a call.
LEMMA CallParts ==
  ASSUME ShellInv
  PROVE  /\ IsSeq(first.calls) /\ Len(first.calls) \in Nat
         /\ DOMAIN first.calls = 1..Len(first.calls)
         /\ \A i \in DOMAIN first.calls :
              DOMAIN first.calls[i] = {"scope", "value", "against", "live", "written"}
<1>1. IsSeq(first.calls)
  BY DEF IsSeq, ShellInv
<1>2. Len(first.calls) \in Nat /\ DOMAIN first.calls = 1..Len(first.calls)
  BY <1>1, Counted
<1>3. ASSUME NEW i \in DOMAIN first.calls
      PROVE  DOMAIN first.calls[i] = {"scope", "value", "against", "live", "written"}
  <2>1. first.calls[i] \in StoreCalls(first.scope, second)
    BY <1>2, ElementOfSeq DEF ShellInv
  <2> QED
    BY <2>1 DEF StoreCalls
<1> QED
  BY <1>1, <1>2, <1>3

\* Edits may be what they are while nothing is saved.
LEMMA SavesStay ==
  ASSUME ShellInv, SavesInv, first'.calls = first.calls, first'.loaded = first.loaded,
         first'.busy = first.busy,
         first'.editing \in {first.editing, None} \/ ~first.busy
  PROVE  SavesInv'
BY DEF SavesInv, Pending

\* With an epoch nothing is waited for any more.
LEMMA SavesRetired ==
  ASSUME ShellInv, SavesInv, NEW scope,
         first'.calls = Append(Shell!Retired(first.calls), Shell!Read(scope))
  PROVE  SavesInv'
<1> DEFINE n == Len(first.calls)
           old == Shell!Retired(first.calls)
<1>1. /\ n \in Nat /\ DOMAIN first.calls = 1..n
      /\ \A i \in DOMAIN first.calls :
              DOMAIN first.calls[i] = {"scope", "value", "against", "live", "written"}
  BY CallParts
<1>2. old = [i \in 1..n |-> [first.calls[i] EXCEPT !.live = FALSE]]
  BY <1>1 DEF Shell!Retired
<1>3. DOMAIN old = 1..n /\ old = [i \in 1..n |-> old[i]]
  BY <1>2
<1>4. \A i \in 1..n : /\ ~old[i].live /\ old[i].value = first.calls[i].value
                      /\ old[i].written = first.calls[i].written
  BY <1>1, <1>2
<1> HIDE DEF old
<1>5. IsSeq(old) /\ Len(old) = n
  BY <1>1, <1>3, Enumerated
<1> HIDE DEF n
<1> DEFINE read == Shell!Read(scope)
<1>6. read.value = None /\ read.written = 0
  BY DEF Shell!Read
<1> HIDE DEF read
<1>7. /\ IsSeq(first'.calls) /\ Len(first'.calls) = n + 1
      /\ \A i \in 1..n : first'.calls[i] = old[i]
      /\ first'.calls[n + 1] = read
  BY <1>5, Appended DEF old, read
<1>8. DOMAIN first'.calls = 1..n + 1
  BY <1>7, Counted
<1>9. ASSUME NEW i \in DOMAIN first'.calls
      PROVE  /\ ~Pending(first'.calls[i])
             /\ first'.calls[i].written # 0 => first'.calls[i].value # None
  <2>1. i \in 1..n \/ i = n + 1
    BY <1>1, <1>8
  <2>2. CASE i \in 1..n
    BY <1>1, <1>4, <1>7, <2>2 DEF SavesInv, Pending
  <2>3. CASE i = n + 1
    BY <1>6, <1>7, <2>3 DEF Pending
  <2> QED
    BY <2>1, <2>2, <2>3
<1> QED
  BY <1>9 DEF SavesInv

\* A save of what is edited is the only one.
LEMMA SavesAdd ==
  ASSUME ShellInv, SavesInv, ~first.busy, first.loaded, NEW call, call.written = 0,
         first'.calls = Append(first.calls, call), first'.busy, first'.loaded = first.loaded,
         first'.editing \in {None, call.value}
  PROVE  SavesInv'
<1> DEFINE n == Len(first.calls)
<1>1. IsSeq(first.calls) /\ n \in Nat /\ DOMAIN first.calls = 1..n
  BY CallParts
<1>2. /\ IsSeq(first'.calls) /\ Len(first'.calls) = n + 1
      /\ \A i \in 1..n : first'.calls[i] = first.calls[i]
      /\ first'.calls[n + 1] = call
  BY <1>1, Appended
<1>3. DOMAIN first'.calls = 1..n + 1
  BY <1>2, Counted
<1> HIDE DEF n
<1>4. ASSUME NEW i \in DOMAIN first'.calls
      PROVE  /\ Pending(first'.calls[i]) => i = n + 1
             /\ first'.calls[i].written # 0 => first'.calls[i].value # None
  <2>1. i \in 1..n \/ i = n + 1
    BY <1>1, <1>3
  <2>2. CASE i \in 1..n
    BY <1>1, <1>2, <2>2 DEF SavesInv, Pending
  <2>3. CASE i = n + 1
    BY <1>2, <2>3
  <2> QED
    BY <2>1, <2>2, <2>3
<1> QED
  BY <1>2, <1>4 DEF SavesInv

\* A call that has been answered is gone, the others are what they were.
LEMMA SavesRemoved ==
  ASSUME ShellInv, SavesInv, NEW i \in DOMAIN first.calls,
         first'.calls = Shell!Remaining(i),
         \/ Pending(first.calls[i])
         \/ /\ first'.busy = first.busy /\ first'.editing = first.editing
            /\ first.loaded => first'.loaded
  PROVE  SavesInv'
<1> DEFINE n == Len(first.calls)
           r == Less(first.calls, i)
           from(k) == IF k < i THEN k ELSE k + 1
<1>1. IsSeq(first.calls) /\ n \in Nat /\ DOMAIN first.calls = 1..n
  BY CallParts
<1>2. first'.calls = r /\ r = Less(first.calls, i)
  BY DEF Shell!Remaining, Less
<1> HIDE DEF r
<1>3. /\ IsSeq(r) /\ Len(r) = n - 1
      /\ \A k \in 1..i - 1 : r[k] = first.calls[k]
      /\ \A k \in i..n - 1 : r[k] = first.calls[k + 1]
  BY <1>1, <1>2, Shortened
<1> HIDE DEF n
<1>4. DOMAIN r = 1..n - 1
  BY <1>3, Counted
<1>5. ASSUME NEW k \in DOMAIN r
      PROVE  /\ from(k) \in DOMAIN first.calls /\ from(k) # i
             /\ r[k] = first.calls[from(k)]
  <2>1. CASE k < i
    BY <1>1, <1>3, <1>4, <2>1
  <2>2. CASE ~(k < i)
    BY <1>1, <1>3, <1>4, <2>2
  <2> QED
    BY <2>1, <2>2
<1>6. \A k, l \in DOMAIN r : from(k) = from(l) => k = l
  BY <1>1, <1>4
<1> HIDE DEF from
<1>7. ASSUME NEW k \in DOMAIN r
      PROVE  /\ Pending(r[k]) =>
                  /\ first'.busy /\ first'.loaded
                  /\ first'.editing # None => r[k].value = first'.editing
             /\ r[k].written # 0 => r[k].value # None
  <2>1. r[k] = first.calls[from(k)] /\ from(k) \in DOMAIN first.calls /\ from(k) # i
    BY <1>5
  <2>2. r[k].written # 0 => r[k].value # None
    BY <2>1 DEF SavesInv
  <2>3. ASSUME Pending(r[k])
        PROVE  /\ first'.busy /\ first'.loaded
               /\ first'.editing # None => r[k].value = first'.editing
    <3>1. ~Pending(first.calls[i])
      BY <2>1, <2>3 DEF SavesInv
    <3> QED
      BY <2>1, <2>3, <3>1 DEF SavesInv
  <2> QED
    BY <2>2, <2>3
<1>8. ASSUME NEW k \in DOMAIN r, NEW l \in DOMAIN r, Pending(r[k]), Pending(r[l])
      PROVE  k = l
  BY <1>5, <1>6, <1>8 DEF SavesInv
<1> QED
  BY <1>2, <1>7, <1>8 DEF SavesInv

\* The store carries a save out.
LEMMA SavesCarried ==
  ASSUME ShellInv, SavesInv, NEW i, Shell!StoreSaves(i)
  PROVE  SavesInv' /\ first'.editing = first.editing
<1> DEFINE mine == first.calls[i].against + 1
           calls == [first.calls EXCEPT ![i].written = mine]
<1>1. /\ i \in DOMAIN first.calls /\ first.calls[i].value # None
      /\ first' = [first EXCEPT !.calls[i].written = mine]
  BY DEF Shell!StoreSaves
<1>2. /\ DOMAIN first' = DOMAIN first /\ first'.editing = first.editing
      /\ first'.busy = first.busy /\ first'.loaded = first.loaded /\ first'.calls = calls
  BY <1>1 DEF ShellInv, ShellTyped
<1>3. /\ DOMAIN calls = DOMAIN first.calls
      /\ \A k \in DOMAIN first.calls : /\ calls[k].live = first.calls[k].live
                                       /\ calls[k].value = first.calls[k].value
                                       /\ k # i => calls[k] = first.calls[k]
  BY <1>1, CallParts
<1> HIDE DEF calls
<1> QED
  BY <1>1, <1>2, <1>3 DEF SavesInv, Pending

\* The Shell as it is first.
LEMMA SavesStart ==
  ASSUME Shell!Init
  PROVE  SavesInv
<1>1. PICK scope \in Scopes :
        first = Shell!Epoch([scope |-> scope, ready |-> TRUE, launcher |-> FALSE,
                      command |-> FALSE, editing |-> None, draft |-> None, error |-> FALSE,
                      busy |-> FALSE, loaded |-> FALSE, revision |-> 0, value |-> Default,
                      calls |-> <<>>])
  BY DEF Shell!Init
<1>2. Shell!Retired(<<>>) = <<>>
  BY DEF Shell!Retired
<1>3. first.calls = Append(<<>>, Shell!Read(scope))
  BY <1>1, <1>2 DEF Shell!Epoch
<1>4. first.calls = <<Shell!Read(scope)>>
  BY <1>3
<1>5. DOMAIN first.calls = {1} /\ first.calls[1] = Shell!Read(scope)
  BY <1>4
<1> QED
  BY <1>5 DEF SavesInv, Pending, Shell!Read

\* An answer to a save concerns nobody after its epoch, and what was edited within it.
LEMMA SavesAnswered ==
  ASSUME ShellInv, SavesInv, NEW i, Shell!SaveAnswers(i) \/ Shell!SaveFails(i)
  PROVE  /\ SavesInv'
         /\ first.editing # None /\ first'.editing = None =>
              first'.loaded /\ first'.value = first.editing
<1> DEFINE call == first.calls[i]
           told == [first EXCEPT !.calls = Shell!Remaining(i)]
<1>1. i \in DOMAIN first.calls /\ call.value # None
  BY DEF Shell!SaveAnswers, Shell!SaveFails, SavesInv
<1>2. CASE ~call.live
  <2>1. first' = told
    BY <1>2 DEF Shell!SaveAnswers, Shell!SaveFails, Shell!Saved
  <2>2. /\ first'.calls = Shell!Remaining(i) /\ first'.busy = first.busy
        /\ first'.loaded = first.loaded /\ first'.editing = first.editing
    BY <2>1 DEF ShellInv, ShellTyped
  <2> QED
    BY <1>1, <2>2, SavesRemoved
<1>3. CASE call.live
  <2>1. Pending(call)
    BY <1>1, <1>3 DEF Pending
  <2>2. \/ first' = [told EXCEPT !.busy = FALSE, !.draft = None, !.editing = None,
                                 !.value = call.value, !.revision = call.written]
        \/ first' = [told EXCEPT !.busy = FALSE, !.error = TRUE]
    BY <1>3 DEF Shell!SaveAnswers, Shell!SaveFails, Shell!Saved
  <2>3. /\ first'.calls = Shell!Remaining(i) /\ first'.loaded = first.loaded
        /\ first'.editing = first.editing \/ first'.value = call.value
    BY <2>2 DEF ShellInv, ShellTyped
  <2>4. SavesInv'
    BY <1>1, <2>1, <2>3, SavesRemoved
  <2>5. first.loaded /\ (first.editing # None => call.value = first.editing)
    BY <1>1, <2>1 DEF SavesInv
  <2> QED
    BY <2>3, <2>4, <2>5
<1> QED
  BY <1>2, <1>3

\* Every step of the Shell keeps it, and the edits.
LEMMA SavesSteps ==
  ASSUME ShellInv, SavesInv, Shell!Next
  PROVE  SavesInv' /\ Shell!EditsAreKept
<1> DEFINE Kept == SavesInv' /\ (first.editing # None => first'.editing # None)
<1>0. DOMAIN first = {"scope", "ready", "launcher", "command", "editing", "draft", "error",
                      "busy", "loaded", "revision", "value", "calls"}
  BY DEF ShellInv, ShellTyped
<1>1. ASSUME NEW open \in BOOLEAN, Shell!ChangeOpen(open)
      PROVE  Kept
  BY <1>0, <1>1, SavesStay DEF Shell!ChangeOpen
<1>2. CASE Shell!OpenCommand
  BY <1>0, <1>2, SavesStay DEF Shell!OpenCommand, Shell!EditsAreKept
<1>3. CASE Shell!CloseCommand
  BY <1>0, <1>3, SavesStay DEF Shell!CloseCommand, Shell!EditsAreKept
<1>4. CASE Shell!StartEditing
  BY <1>0, <1>4, SavesStay DEF Shell!StartEditing, Shell!EditsAreKept
<1>5. CASE Shell!CancelEditing
  BY <1>0, <1>5, SavesStay DEF Shell!CancelEditing, Shell!EditsAreKept
<1>6. ASSUME NEW value \in Preferences, Shell!Edit(value)
      PROVE  SavesInv' /\ Shell!EditsAreKept
  <2>1. SavesInv' /\ first'.editing = value
    BY <1>0, <1>6, SavesStay DEF Shell!Edit, Shell!Editing
  <2>2. value = None => Shell!CancelEditing
    BY <1>6 DEF Shell!Edit, Shell!CancelEditing
  <2> QED
    BY <2>1, <2>2 DEF Shell!EditsAreKept
<1>7. CASE Shell!SessionChanges
  BY <1>0, <1>7, SavesStay DEF Shell!SessionChanges, Shell!Closed, Shell!EditsAreKept
<1>8. CASE Shell!SaveEdits
  <2>1. /\ first'.calls = Append(first.calls,
             [scope |-> first.scope, value |-> first.editing, against |-> first.revision,
              live |-> TRUE, written |-> 0])
        /\ first'.busy /\ first'.loaded = first.loaded /\ first'.editing = first.editing
        /\ ~first.busy /\ first.loaded
    BY <1>0, <1>8 DEF Shell!SaveEdits, Shell!Saving, Shell!CanSave
  <2> QED
    BY <2>1, SavesAdd DEF Shell!EditsAreKept
<1>9. ASSUME NEW value \in Preferences, Shell!SelectPreset(value)
      PROVE  Kept
  <2> DEFINE s == [first EXCEPT !.draft = value, !.command = FALSE]
  <2>1. first' = Shell!Saving(s, value) /\ ~first.busy /\ first.loaded /\ first.editing = None
    BY <1>9 DEF Shell!SelectPreset, Shell!CanSave
  <2>2. /\ DOMAIN s = DOMAIN first /\ s.scope = first.scope
        /\ s.revision = first.revision /\ s.loaded = first.loaded /\ s.calls = first.calls
        /\ s.editing = None
    BY <1>0, <2>1
  <2> HIDE DEF s
  <2>3. /\ first'.calls = Append(first.calls,
             [scope |-> first.scope, value |-> value, against |-> first.revision,
              live |-> TRUE, written |-> 0])
        /\ first'.busy /\ first'.loaded = first.loaded /\ first'.editing = None
    BY <1>0, <2>1, <2>2 DEF Shell!Saving
  <2> QED
    BY <2>1, <2>3, SavesAdd
<1>10. CASE Shell!Reload
  <2>1. first'.calls = Append(Shell!Retired(first.calls), Shell!Read(first.scope))
    BY <1>0, <1>10 DEF Shell!Reload, Shell!Epoch
  <2> QED
    BY <1>10, <2>1, SavesRetired DEF Shell!EditsAreKept
<1>11. ASSUME NEW scope \in Scopes, Shell!ChangeScope(scope)
       PROVE  SavesInv' /\ Shell!EditsAreKept
  <2> DEFINE s == [Shell!Closed(first) EXCEPT !.scope = scope]
  <2>1. first' = Shell!Epoch(s)
    BY <1>11 DEF Shell!ChangeScope
  <2>2. DOMAIN s = DOMAIN first /\ s.scope = scope /\ s.calls = first.calls
    BY <1>0 DEF Shell!Closed
  <2> HIDE DEF s
  <2>3. first'.calls = Append(Shell!Retired(first.calls), Shell!Read(scope))
    BY <1>0, <2>1, <2>2 DEF Shell!Epoch
  <2> QED
    BY <1>11, <2>3, SavesRetired DEF Shell!EditsAreKept
<1>12. ASSUME NEW i, Shell!ReadAnswers(i)
       PROVE  Kept
  <2> DEFINE told == [first EXCEPT !.calls = Shell!Remaining(i)]
             last == Len(second[first.calls[i].scope])
  <2>1. /\ i \in DOMAIN first.calls
        /\ \/ first' = told
           \/ first' = [told EXCEPT !.error = TRUE]
           \/ first' = [told EXCEPT !.loaded = TRUE,
                !.value = second[first.calls[i].scope][last], !.revision = last]
    BY <1>12 DEF Shell!ReadAnswers
  <2>2. /\ first'.calls = Shell!Remaining(i) /\ first'.busy = first.busy
        /\ first.loaded => first'.loaded
        /\ first'.editing = first.editing
    BY <1>0, <2>1
  <2> QED
    BY <2>1, <2>2, SavesRemoved
<1>13. ASSUME NEW scope, NEW value, Shell!OtherTabSaves(scope, value)
       PROVE  Kept
  BY <1>13, SavesStay DEF Shell!OtherTabSaves
<1>14. ASSUME NEW i, Shell!StoreSaves(i)
       PROVE  Kept
  BY <1>14, SavesCarried
<1>15. ASSUME NEW i, Shell!SaveAnswers(i) \/ Shell!SaveFails(i)
       PROVE  SavesInv' /\ Shell!EditsAreKept
  BY <1>15, SavesAnswered DEF Shell!EditsAreKept
<1>16. Kept => SavesInv' /\ Shell!EditsAreKept
  BY DEF Shell!EditsAreKept
<1> HIDE DEF Kept
<1> QED
  BY <1>1, <1>2, <1>3, <1>4, <1>5, <1>6, <1>7, <1>8, <1>9, <1>10, <1>11, <1>12, <1>13,
     <1>14, <1>15, <1>16 DEF Shell!Next

-------------------------------------------------------------------------------
(* The draft of a dashboard.                                                   *)

\* The fields of the page and its store.
BoardFields == {"stored", "done", "minted", "snapshot", "draft", "call", "retry", "confirm",
                "selected", "editing", "adding", "loading", "error", "hides"}

\* What a store keeps, it keeps.
LEMMA KeptTwice ==
  ASSUME NEW doc, NEW ids, NEW from, NEW kept, kept = Board!Keeping(doc, ids, from)
  PROVE  kept = Board!Keeping(doc, ids, kept)
<1> DEFINE own == DOMAIN doc.config \ ids
           held == ids \cap DOMAIN from.config
           all == own \cup held
           config == [i \in all |-> IF i \in own THEN doc.config[i] ELSE from.config[i]]
           place == [i \in all |-> IF i \in own THEN doc.place[i] ELSE from.place[i]]
<1>1. kept = [config |-> config, place |-> place]
  BY DEF Board!Keeping
<1>2. kept.config = config /\ kept.place = place
  BY <1>1
<1>3. DOMAIN config = all /\ ids \cap all = held
  OBVIOUS
<1>4. [i \in all |-> IF i \in own THEN doc.config[i] ELSE config[i]] = config
  OBVIOUS
<1>5. [i \in all |-> IF i \in own THEN doc.place[i] ELSE place[i]] = place
  OBVIOUS
<1> HIDE DEF config, place
<1>6. Board!Keeping(doc, ids, kept)
        = [config |-> [i \in own \cup (ids \cap DOMAIN kept.config) |->
                         IF i \in own THEN doc.config[i] ELSE kept.config[i]],
           place  |-> [i \in own \cup (ids \cap DOMAIN kept.config) |->
                         IF i \in own THEN doc.place[i] ELSE kept.place[i]]]
  BY DEF Board!Keeping
<1>7. own \cup (ids \cap DOMAIN kept.config) = all
  BY <1>2, <1>3
<1> HIDE DEF own, all
<1> QED
  BY <1>1, <1>2, <1>4, <1>5, <1>6, <1>7

\* The store is what it was.
StoreStays ==
  /\ DOMAIN first' = BoardFields /\ first'.stored = first.stored /\ first'.done = first.done
  /\ first'.minted = first.minted /\ first'.hides = first.hides

\* A step beside the draft and its saving.
LEMMA BoardStays ==
  ASSUME BoardInv, StoreStays, first'.call = first.call, first'.retry = first.retry,
         first'.snapshot = first.snapshot,
         \/ first'.draft = first.draft
         \/ DOMAIN first'.draft = {"doc", "layouts"} /\ first'.draft.doc = first.draft.doc,
         first'.editing = first.editing \/ DOMAIN first'.draft = {"doc", "layouts"},
         \/ first'.confirm \in {first.confirm, None}
         \/ first.call = None /\ (\/ first'.confirm = "reload"
                                 \/ DOMAIN first'.draft = {"doc", "layouts"}),
         first'.loading = first.loading \/ ~first'.loading \/ first.call = None
  PROVE  BoardInv'
<1>1. MutationsInv'
  BY DEF BoardInv, MutationsInv, StoreStays
<1>2. Board!Hidden' = Board!Hidden
  BY DEF Board!Hidden, StoreStays
<1>3. DraftInv'
  BY DEF BoardInv, DraftInv
<1>4. RetryInv'
  BY <1>2 DEF BoardInv, RetryInv, StoreStays
<1> QED
  BY <1>1, <1>3, <1>4 DEF BoardInv, StoreStays, BoardFields

\* A draft that was changed is not the one that a retry would save.
LEMMA BoardForgets ==
  ASSUME BoardInv, StoreStays, first'.call = None, first'.retry = None,
         DOMAIN first'.draft = {"doc", "layouts"}
  PROVE  BoardInv'
<1>1. MutationsInv'
  BY DEF BoardInv, MutationsInv, StoreStays
<1> QED
  BY <1>1 DEF BoardInv, StoreStays, DraftInv, RetryInv, BoardFields

\* What may have become of a save.
LEMMA BoardOutcomes ==
  ASSUME BoardInv, first.call # None, NEW after \in Board!Outcomes(first.call)
  PROVE  LET revision == after.done[first.call.id]
         IN  /\ DOMAIN after = BoardFields
             /\ \A f \in BoardFields \ {"stored", "done"} : after[f] = first[f]
             /\ IsSeq(after.stored) /\ DOMAIN after.done = 1..MaxMutations
             /\ \A id \in 1..MaxMutations : /\ after.done[id] \in 0..Len(after.stored)
                                            /\ id > first.minted => after.done[id] = 0
             /\ revision # 0 =>
                  after.stored[revision] = Board!Keeping(first.call.doc, Board!Hidden,
                                                         after.stored[revision])
<1> DEFINE input == first.call
           n == Len(first.stored)
           merged == Board!Merged(input)
<1>1. /\ DOMAIN first = BoardFields /\ first.retry = input /\ input.id \in 1..first.minted
      /\ first.minted \in 0..MaxMutations /\ MaxMutations \in Nat
  BY DEF BoardInv, BoardFields, RetryInv, MutationsInv, PagesAssumptions
<1>2. input.id \in 1..MaxMutations
  BY <1>1
<1>3. /\ IsSeq(first.stored) /\ n \in Nat /\ DOMAIN first.done = 1..MaxMutations
      /\ \A id \in 1..MaxMutations : /\ first.done[id] \in 0..n
                                     /\ id > first.minted => first.done[id] = 0
  BY Counted DEF BoardInv, MutationsInv
<1>4. CASE after = first
  BY <1>1, <1>2, <1>3, <1>4 DEF BoardInv, RetryInv
<1>5. CASE /\ Board!Admits(input)
           /\ after = [first EXCEPT !.stored = Append(@, merged),
                                    !.done[input.id] = input.expected + 1]
  <2> DEFINE stored == Append(first.stored, merged)
             done == [first.done EXCEPT ![input.id] = n + 1]
  <2>1. input.expected = n
    BY <1>5 DEF Board!Admits
  <2>2. /\ DOMAIN after = BoardFields
        /\ \A f \in BoardFields \ {"stored", "done"} : after[f] = first[f]
        /\ after.stored = stored /\ after.done = done
    BY <1>1, <1>5, <2>1 DEF BoardFields
  <2>3. IsSeq(stored) /\ Len(stored) = n + 1 /\ stored[n + 1] = merged
    BY <1>3, Appended
  <2>4. /\ DOMAIN done = 1..MaxMutations /\ done[input.id] = n + 1
        /\ \A id \in 1..MaxMutations : id # input.id => done[id] = first.done[id]
    BY <1>2, <1>3
  <2>5. merged = Board!Keeping(input.doc, Board!Hidden, merged)
    <3>1. merged = Board!Keeping(input.doc, Board!Hidden, Board!Latest)
      BY DEF Board!Merged
    <3> HIDE DEF merged
    <3> QED
      BY <3>1, KeptTwice
  <2> HIDE DEF stored, done, merged, n
  <2>6. \A id \in 1..MaxMutations : /\ done[id] \in 0..n + 1
                                    /\ id > first.minted => done[id] = 0
    BY <1>1, <1>3, <2>4
  <2> QED
    BY <2>2, <2>3, <2>4, <2>5, <2>6
<1> QED
  BY <1>4, <1>5 DEF Board!Outcomes

\* What a change makes of the draft.
LEMMA BoardChanged ==
  ASSUME BoardInv, NEW draft, first.draft # None => DOMAIN draft = {"doc", "layouts"},
         NEW b, b = Board!Changed(draft),
         DOMAIN first' = BoardFields,
         \A f \in BoardFields \ {"selected", "adding"} : first'[f] = b[f]
  PROVE  BoardInv' /\ first'.editing = first.editing
<1>0. DOMAIN first = BoardFields
  BY DEF BoardInv, BoardFields
<1>1. CASE b = first \/ b = [first EXCEPT !.error = TRUE]
  <2>1. /\ StoreStays /\ first'.call = first.call /\ first'.retry = first.retry
        /\ first'.snapshot = first.snapshot /\ first'.draft = first.draft
        /\ first'.editing = first.editing /\ first'.confirm = first.confirm
        /\ first'.loading = first.loading
    BY <1>0, <1>1 DEF BoardFields, StoreStays
  <2> QED
    BY <2>1, BoardStays
<1>2. CASE /\ Board!Changeable
           /\ b = [first EXCEPT !.draft = draft, !.retry = None, !.error = FALSE]
  <2>1. first.draft # None /\ first.call = None
    BY <1>2 DEF Board!Changeable, Board!Running
  <2>2. /\ StoreStays /\ first'.call = first.call /\ first'.retry = None
        /\ first'.draft = draft /\ first'.editing = first.editing
    BY <1>0, <1>2 DEF BoardFields, StoreStays
  <2> QED
    BY <2>1, <2>2, BoardForgets
<1> QED
  BY <1>1, <1>2 DEF Board!Changed

\* The page as it is first.
LEMMA BoardStarts ==
  ASSUME Board!Init
  PROVE  BoardInv
<1>1. /\ DOMAIN first = BoardFields /\ first.stored = <<Defaults>> /\ first.minted = 0
      /\ first.done = [id \in 1..MaxMutations |-> 0] /\ first.call = None /\ first.retry = None
      /\ first.draft = None /\ first.snapshot = None /\ first.confirm = None
      /\ first.editing = FALSE
  BY DEF Board!Init, BoardFields
<1>2. IsSeq(<<Defaults>>) /\ Len(<<Defaults>>) = 1
  <2>1. <<Defaults>> \in Seq({Defaults}) /\ Len(<<Defaults>>) = 1
    OBVIOUS
  <2> QED
    BY <2>1 DEF IsSeq
<1> QED
  BY <1>1, <1>2 DEF BoardInv, BoardFields, MutationsInv, DraftInv, RetryInv, PagesAssumptions

\* A snapshot is shown, which nobody has edited.
LEMMA BoardShows ==
  ASSUME BoardInv, StoreStays, NEW b, DOMAIN b = BoardFields, NEW snapshot,
         NEW shown, shown = Board!Shows(b, snapshot),
         \A f \in BoardFields \ {"loading", "error"} : first'[f] = shown[f],
         b.call = None
  PROVE  BoardInv'
<1>1. /\ first'.draft = Board!Draft(snapshot.doc) /\ first'.retry = None /\ first'.call = None
  BY DEF Board!Shows, BoardFields
<1>2. DOMAIN first'.draft = {"doc", "layouts"}
  BY <1>1 DEF Board!Draft
<1> QED
  BY <1>1, <1>2, BoardForgets

\* What was edited is put back.
LEMMA BoardDiscards ==
  ASSUME BoardInv, first.call = None, NEW d, d = Board!Discarded(first),
         \/ first' = d
         \/ first' = [d EXCEPT !.confirm = None]
  PROVE  BoardInv'
<1>0. DOMAIN first = BoardFields
  BY DEF BoardInv, BoardFields
<1>1. /\ DOMAIN d = BoardFields /\ d.stored = first.stored /\ d.done = first.done
      /\ d.minted = first.minted /\ d.hides = first.hides /\ d.call = None /\ d.retry = None
      /\ d.draft = Board!Draft(first.snapshot.doc)
  BY <1>0 DEF Board!Discarded, BoardFields
<1>2. StoreStays /\ first'.call = None /\ first'.retry = None /\ first'.draft = d.draft
  <2>1. CASE first' = d
    BY <1>1, <2>1 DEF StoreStays
  <2>2. CASE first' = [d EXCEPT !.confirm = None]
    BY <1>1, <2>2 DEF StoreStays, BoardFields
  <2> QED
    BY <2>1, <2>2
<1>3. DOMAIN first'.draft = {"doc", "layouts"}
  BY <1>1, <1>2 DEF Board!Draft
<1> QED
  BY <1>2, <1>3, BoardForgets

\* Drawers and questions are opened and closed.
LEMMA BoardOpens ==
  ASSUME BoardInv,
         \/ Board!StartEditing \/ Board!CloseSettings \/ Board!OpenAdding \/ Board!CloseAdding
         \/ Board!AskDefaults \/ Board!AskReload \/ Board!Decline \/ Board!ConfirmReload
         \/ \E i \in Instances : Board!Select(i) \/ Board!AskRemoval(i)
  PROVE  BoardInv' /\ (first.editing => first'.editing)
<1>0. /\ DOMAIN first = BoardFields
      /\ first.snapshot # None \/ first.draft # None \/ first.editing
           => DOMAIN first.draft = {"doc", "layouts"}
      /\ first.call # None => first.confirm = None
  BY DEF BoardInv, BoardFields, DraftInv
<1> DEFINE Same == /\ StoreStays /\ first'.call = first.call /\ first'.retry = first.retry
                   /\ first'.snapshot = first.snapshot /\ first'.draft = first.draft
           Kept == Same /\ first'.editing = first.editing
<1>1. CASE Board!StartEditing
  <2>1. Same /\ first'.editing /\ first'.confirm = first.confirm
        /\ first'.loading = first.loading /\ first.snapshot # None
    BY <1>0, <1>1 DEF Board!StartEditing, StoreStays, BoardFields
  <2> QED
    BY <1>0, <2>1, BoardStays
<1>2. CASE \/ Board!CloseSettings \/ Board!OpenAdding \/ Board!CloseAdding \/ Board!Decline
           \/ \E i \in Instances : Board!Select(i)
  <2>1. Kept /\ first'.confirm \in {first.confirm, None} /\ first'.loading = first.loading
    BY <1>0, <1>2 DEF Board!CloseSettings, Board!OpenAdding, Board!CloseAdding, Board!Decline,
       Board!Select, StoreStays, BoardFields
  <2> QED
    BY <2>1, BoardStays
<1>3. ASSUME NEW question, Board!Ask(question), question = "reload" \/ first.draft # None
      PROVE  BoardInv' /\ first'.editing = first.editing
  <2>1. Kept /\ first'.confirm = question /\ first'.loading = first.loading
        /\ first.call = None
    BY <1>0, <1>3 DEF Board!Ask, Board!Running, StoreStays, BoardFields
  <2> QED
    BY <1>0, <1>3, <2>1, BoardStays
<1>4. CASE Board!AskDefaults \/ Board!AskReload \/ \E i \in Instances : Board!AskRemoval(i)
  BY <1>3, <1>4 DEF Board!AskDefaults, Board!AskReload, Board!AskRemoval
<1>5. CASE Board!ConfirmReload
  <2> DEFINE b == [first EXCEPT !.loading = TRUE]
  <2>1. first.confirm = "reload" /\ first' = [b EXCEPT !.confirm = None]
    BY <1>5 DEF Board!ConfirmReload, Board!Confirmed
  <2>2. Kept /\ first'.confirm = None
    BY <1>0, <2>1 DEF StoreStays, BoardFields
  <2>3. first.call = None
    BY <1>0, <2>1 DEF PagesAssumptions
  <2> QED
    BY <2>2, <2>3, BoardStays
<1> QED
  BY <1>1, <1>2, <1>4, <1>5

\* Widgets are moved, resized, configured and added.
LEMMA BoardEdits ==
  ASSUME BoardInv,
         \/ \E i \in Instances, place \in Board!Places : Board!Drag(i, place)
         \/ \E config \in Configs : Board!Configure(config)
         \/ \E field \in {"at", "size"}, delta \in {-1, 1} : Board!Geometry(field, delta)
         \/ \E i \in Instances : Board!Add(i)
  PROVE  BoardInv' /\ first'.editing = first.editing
<1>0. /\ DOMAIN first = BoardFields
      /\ first.draft # None => DOMAIN first.draft = {"doc", "layouts"}
  BY DEF BoardInv, BoardFields, DraftInv
<1>1. ASSUME NEW draft, first.draft # None => DOMAIN draft = {"doc", "layouts"}
      PROVE  DOMAIN Board!Changed(draft) = BoardFields
  BY <1>0 DEF Board!Changed
<1>2. ASSUME NEW draft, first.draft # None => DOMAIN draft = {"doc", "layouts"},
             first' = Board!Changed(draft)
      PROVE  BoardInv' /\ first'.editing = first.editing
  BY <1>1, <1>2, BoardChanged
<1>3. ASSUME NEW place
      PROVE  first.draft # None => DOMAIN Board!Laid(place) = {"doc", "layouts"}
  BY <1>0 DEF Board!Laid
<1>4. ASSUME NEW i, NEW place, Board!Drag(i, place)
      PROVE  BoardInv' /\ first'.editing = first.editing
  BY <1>2, <1>3, <1>4 DEF Board!Drag
<1>5. ASSUME NEW field, NEW delta, Board!Geometry(field, delta)
      PROVE  BoardInv' /\ first'.editing = first.editing
  BY <1>2, <1>3, <1>5 DEF Board!Geometry
<1>6. ASSUME NEW config, Board!Configure(config)
      PROVE  BoardInv' /\ first'.editing = first.editing
  <2> DEFINE draft == [first.draft EXCEPT !.doc.config[first.selected] = config]
  <2>1. first' = Board!Changed(draft)
    BY <1>6 DEF Board!Configure
  <2>2. first.draft # None => DOMAIN draft = {"doc", "layouts"}
    BY <1>0
  <2> HIDE DEF draft
  <2> QED
    BY <1>2, <2>1, <2>2
<1>7. ASSUME NEW i, Board!Add(i)
      PROVE  BoardInv' /\ first'.editing = first.editing
  <2>1. PICK next, selected :
          first' = [Board!Changed([first.draft EXCEPT !.doc = next]) EXCEPT
                      !.adding = FALSE, !.selected = selected]
    BY <1>7 DEF Board!Add
  <2> DEFINE draft == [first.draft EXCEPT !.doc = next]
             b == Board!Changed(draft)
  <2>2. first.draft # None => DOMAIN draft = {"doc", "layouts"}
    BY <1>0
  <2>3. first' = [b EXCEPT !.adding = FALSE, !.selected = selected]
    BY <2>1
  <2> HIDE DEF draft
  <2>4. DOMAIN b = BoardFields
    BY <1>1, <2>2
  <2>5. /\ DOMAIN first' = BoardFields
        /\ \A f \in BoardFields \ {"selected", "adding"} : first'[f] = b[f]
    <3> HIDE DEF b
    <3> QED
      BY <2>3, <2>4
  <2> QED
    BY <2>2, <2>5, BoardChanged
<1> QED
  BY <1>4, <1>5, <1>6, <1>7

\* A layout is undone; a widget is removed, or all are replaced.
LEMMA BoardReplaces ==
  ASSUME BoardInv,
         \/ Board!UndoLayout \/ Board!ConfirmDefaults
         \/ \E i \in Instances : Board!ConfirmRemoval(i)
  PROVE  BoardInv' /\ first'.editing = first.editing
<1>0. /\ DOMAIN first = BoardFields
      /\ first.confirm \notin {None, "reload"} \/ first.draft # None \/ first.editing
           => DOMAIN first.draft = {"doc", "layouts"}
      /\ first.call # None => first.confirm = None
  BY DEF BoardInv, BoardFields, DraftInv
<1>1. CASE Board!UndoLayout
  <2>1. PICK next, rest :
          /\ first.editing
          /\ \/ first' = Board!Changed(next) /\ DOMAIN next = {"doc", "layouts"}
             \/ first' = [first EXCEPT !.draft.layouts = rest, !.error = TRUE]
    <3> DEFINE doc   == first.draft.doc
               steps == first.draft.layouts
               old   == steps[Len(steps)]
               rest  == SubSeq(steps, 1, Len(steps) - 1)
               place == [i \in DOMAIN doc.place |->
                           IF i \in DOMAIN old THEN old[i] ELSE doc.place[i]]
               next  == [doc |-> [doc EXCEPT !.place = place], layouts |-> rest]
    <3>1. /\ first.editing
          /\ \/ first' = Board!Changed(next)
             \/ first' = [first EXCEPT !.draft.layouts = rest, !.error = TRUE]
      BY <1>1 DEF Board!UndoLayout
    <3>2. DOMAIN next = {"doc", "layouts"}
      OBVIOUS
    <3> HIDE DEF next, rest
    <3> QED
      BY <3>1, <3>2
  <2>2. CASE first' = Board!Changed(next) /\ DOMAIN next = {"doc", "layouts"}
    <3>1. DOMAIN first' = BoardFields
      BY <1>0, <2>2 DEF Board!Changed
    <3> QED
      BY <2>2, <3>1, BoardChanged
  <2>3. CASE first' = [first EXCEPT !.draft.layouts = rest, !.error = TRUE]
    <3>1. DOMAIN first.draft = {"doc", "layouts"}
      BY <1>0, <2>1
    <3>2. /\ StoreStays /\ first'.call = first.call /\ first'.retry = first.retry
          /\ first'.snapshot = first.snapshot /\ first'.editing = first.editing
          /\ first'.confirm = first.confirm /\ first'.loading = first.loading
          /\ first'.draft = [first.draft EXCEPT !.layouts = rest]
      BY <1>0, <2>3 DEF StoreStays, BoardFields
    <3>3. DOMAIN first'.draft = {"doc", "layouts"} /\ first'.draft.doc = first.draft.doc
      BY <3>1, <3>2
    <3> QED
      BY <3>2, <3>3, BoardStays
  <2> QED
    BY <2>1, <2>2, <2>3
<1>2. ASSUME NEW b, NEW i, Board!Confirmed(b, i), i # None, DOMAIN b = BoardFields,
             b.stored = first.stored, b.done = first.done, b.minted = first.minted,
             b.hides = first.hides, b.call = first.call, b.editing = first.editing,
             b.retry = None, DOMAIN b.draft = {"doc", "layouts"}
      PROVE  BoardInv' /\ first'.editing = first.editing
  <2>1. first.confirm = i /\ first' = [b EXCEPT !.confirm = None]
    BY <1>2 DEF Board!Confirmed
  <2>2. first.call = None
    BY <1>0, <1>2, <2>1
  <2>3. /\ StoreStays /\ first'.call = None /\ first'.retry = None
        /\ first'.draft = b.draft /\ first'.editing = first.editing
    BY <1>2, <2>1, <2>2 DEF StoreStays, BoardFields
  <2> QED
    BY <1>2, <2>3, BoardForgets
<1>3. ASSUME NEW i \in Instances, Board!ConfirmRemoval(i)
      PROVE  BoardInv' /\ first'.editing = first.editing
  <2> DEFINE b == [first EXCEPT !.draft.doc = Board!Without(@, i), !.retry = None,
                     !.error = FALSE, !.selected = IF @ = i THEN None ELSE @]
  <2>1. Board!Confirmed(b, i)
    BY <1>3 DEF Board!ConfirmRemoval
  <2>2. first.confirm = i /\ i \notin {None, "reload"}
    BY <2>1 DEF Board!Confirmed, PagesAssumptions
  <2>3. /\ DOMAIN b = BoardFields /\ b.stored = first.stored /\ b.done = first.done
        /\ b.minted = first.minted /\ b.hides = first.hides /\ b.call = first.call
        /\ b.editing = first.editing /\ b.retry = None
        /\ b.draft = [first.draft EXCEPT !.doc = Board!Without(@, i)]
    BY <1>0 DEF BoardFields
  <2>4. DOMAIN b.draft = {"doc", "layouts"}
    BY <1>0, <2>2, <2>3
  <2> HIDE DEF b
  <2> QED
    BY <1>2, <2>1, <2>2, <2>3, <2>4
<1>4. CASE Board!ConfirmDefaults
  <2> DEFINE draft == [doc |-> Defaults,
                       layouts |-> Append(first.draft.layouts, first.draft.doc.place)]
             b == [first EXCEPT !.draft = draft, !.retry = None, !.error = FALSE,
                                !.selected = None]
  <2>1. Board!Confirmed(b, "defaults")
    BY <1>4 DEF Board!ConfirmDefaults
  <2>2. DOMAIN draft = {"doc", "layouts"} /\ "defaults" # None
    BY DEF PagesAssumptions
  <2> HIDE DEF draft
  <2>3. /\ DOMAIN b = BoardFields /\ b.stored = first.stored /\ b.done = first.done
        /\ b.minted = first.minted /\ b.hides = first.hides /\ b.call = first.call
        /\ b.editing = first.editing /\ b.retry = None /\ b.draft = draft
    BY <1>0 DEF BoardFields
  <2> HIDE DEF b
  <2> QED
    BY <1>2, <2>1, <2>2, <2>3
<1> QED
  BY <1>1, <1>3, <1>4

\* The draft is saved, once or again.
LEMMA BoardSaves ==
  ASSUME BoardInv, Board!Save
  PROVE  BoardInv' /\ first'.editing = first.editing
<1> DEFINE fresh == [expected |-> first.snapshot.revision, id |-> first.minted + 1,
                     doc |-> first.draft.doc]
           input == IF first.retry = None THEN fresh ELSE first.retry
           minted == IF first.minted < input.id THEN input.id ELSE first.minted
<1>0. /\ DOMAIN first = BoardFields /\ first.minted \in 0..MaxMutations
      /\ MaxMutations \in Nat
  BY DEF BoardInv, BoardFields, MutationsInv, PagesAssumptions
<1>1. /\ first.confirm = None /\ first.draft # None /\ ~first.loading
      /\ first.retry = None => first.minted < MaxMutations
      /\ first' = [first EXCEPT !.call = input, !.retry = input, !.error = FALSE,
                                !.minted = minted]
  BY DEF Board!Save, Board!Uncovered, Board!Dirty
<1>2. DOMAIN first.draft = {"doc", "layouts"}
  BY <1>1 DEF BoardInv, DraftInv
<1>3. /\ input.doc = first.draft.doc /\ input.id \in 1..minted
      /\ minted \in 0..MaxMutations /\ first.minted <= minted
      /\ LET revision == first.done[input.id]
         IN  revision # 0 =>
               first.stored[revision]
                 = Board!Keeping(input.doc, Board!Hidden, first.stored[revision])
  <2>1. CASE first.retry = None
    <3>1. input = fresh
      BY <2>1
    <3>2. input.doc = first.draft.doc /\ input.id = first.minted + 1
      BY <3>1
    <3> HIDE DEF input
    <3>3. minted = first.minted + 1 /\ minted \in 0..MaxMutations
      BY <1>0, <1>1, <2>1, <3>2
    <3>4. input.id \in 1..MaxMutations /\ input.id > first.minted
      BY <1>0, <1>1, <2>1, <3>2
    <3>5. first.done[input.id] = 0
      BY <3>4 DEF BoardInv, MutationsInv
    <3> HIDE DEF minted
    <3> QED
      BY <1>0, <3>2, <3>3, <3>5
  <2>2. CASE first.retry # None
    <3>1. input = first.retry
      BY <2>2
    <3> HIDE DEF input
    <3>2. input.id \in 1..first.minted /\ input.doc = first.draft.doc
      BY <2>2, <3>1 DEF BoardInv, RetryInv
    <3>3. minted = first.minted
      BY <1>0, <3>2
    <3> HIDE DEF minted
    <3> QED
      BY <1>0, <2>2, <3>1, <3>2, <3>3 DEF BoardInv, RetryInv
  <2> QED
    BY <2>1, <2>2
<1> HIDE DEF input, minted
<1>4. /\ DOMAIN first' = BoardFields /\ first'.stored = first.stored
      /\ first'.done = first.done /\ first'.minted = minted /\ first'.hides = first.hides
      /\ first'.call = input /\ first'.retry = input /\ first'.draft = first.draft
      /\ first'.confirm = None /\ ~first'.loading /\ first'.editing = first.editing
      /\ first'.snapshot = first.snapshot
  BY <1>0, <1>1 DEF BoardFields
<1>5. MutationsInv'
  BY <1>0, <1>3, <1>4 DEF BoardInv, MutationsInv
<1>6. Board!Hidden' = Board!Hidden
  BY <1>4 DEF Board!Hidden
<1>7. RetryInv'
  BY <1>3, <1>4, <1>6 DEF RetryInv
<1> QED
  BY <1>2, <1>4, <1>5, <1>7 DEF BoardInv, BoardFields, DraftInv

\* Others save too.
LEMMA BoardElsewhere ==
  ASSUME BoardInv, Board!OtherTabSaves
  PROVE  BoardInv' /\ first'.editing = first.editing
<1> DEFINE n == Len(first.stored)
<1>0. DOMAIN first = BoardFields
  BY DEF BoardInv, BoardFields
<1>1. PICK e : first' = [first EXCEPT !.stored = Append(@, e)]
  BY DEF Board!OtherTabSaves
<1>2. /\ DOMAIN first' = BoardFields
      /\ \A f \in BoardFields \ {"stored"} : first'[f] = first[f]
      /\ first'.stored = Append(first.stored, e)
  BY <1>0, <1>1 DEF BoardFields
<1>3. IsSeq(first.stored) /\ n \in Nat
  BY Counted DEF BoardInv, MutationsInv
<1>4. /\ IsSeq(first'.stored) /\ Len(first'.stored) = n + 1
      /\ \A i \in 1..n : first'.stored[i] = first.stored[i]
  BY <1>2, <1>3, Appended
<1>5. /\ first'.done = first.done /\ first'.minted = first.minted
      /\ first'.hides = first.hides /\ first'.call = first.call /\ first'.retry = first.retry
      /\ first'.draft = first.draft /\ first'.confirm = first.confirm
      /\ first'.loading = first.loading /\ first'.editing = first.editing
      /\ first'.snapshot = first.snapshot
  BY <1>2 DEF BoardFields
<1>6. MutationsInv'
  BY <1>3, <1>4, <1>5 DEF BoardInv, MutationsInv
<1>7. Board!Hidden' = Board!Hidden
  BY <1>5 DEF Board!Hidden
<1>8. RetryInv'
  <2>1. SUFFICES ASSUME first.retry # None, first.done[first.retry.id] # 0
        PROVE  first'.stored[first.done[first.retry.id]] = first.stored[first.done[first.retry.id]]
    BY <1>5, <1>7 DEF BoardInv, RetryInv
  <2>2. first.retry.id \in 1..MaxMutations
    <3>1. first.retry.id \in 1..first.minted /\ first.minted \in 0..MaxMutations
          /\ MaxMutations \in Nat
      BY <2>1 DEF BoardInv, RetryInv, MutationsInv, PagesAssumptions
    <3> QED
      BY <3>1
  <2>3. first.done[first.retry.id] \in 1..n
    BY <1>3, <2>1, <2>2 DEF BoardInv, MutationsInv
  <2> QED
    BY <1>4, <2>3
<1> QED
  BY <1>2, <1>5, <1>6, <1>8 DEF BoardInv, BoardFields, DraftInv

\* What the store says of a save, or does not.
LEMMA BoardAnswers ==
  ASSUME BoardInv, NEW answered \in BOOLEAN, Board!SaveAnswers(answered)
  PROVE  BoardInv' /\ Board!EditsAreKept
<1>1. PICK after \in Board!Outcomes(first.call) :
        LET revision == after.done[first.call.id]
            told     == [after EXCEPT !.call = None]
        IN  first' = IF answered /\ revision # 0
                     THEN Board!Shows(told, [revision |-> revision,
                            doc |-> after.stored[revision],
                            restricted |-> Board!Hidden
                                             \cap DOMAIN after.stored[revision].config])
                     ELSE [told EXCEPT !.error = TRUE]
  BY DEF Board!SaveAnswers
<1> DEFINE revision == after.done[first.call.id]
           told == [after EXCEPT !.call = None]
           kept == Board!Keeping(first.call.doc, Board!Hidden, after.stored[revision])
<1>2. first.call # None /\ first.call = first.retry /\ first.call.doc = first.draft.doc
      /\ first.call.id \in 1..first.minted
  BY DEF Board!SaveAnswers, Board!Running, BoardInv, RetryInv
<1>3. /\ DOMAIN after = BoardFields
      /\ \A f \in BoardFields \ {"stored", "done"} : after[f] = first[f]
      /\ IsSeq(after.stored) /\ DOMAIN after.done = 1..MaxMutations
      /\ \A id \in 1..MaxMutations : /\ after.done[id] \in 0..Len(after.stored)
                                     /\ id > first.minted => after.done[id] = 0
      /\ revision # 0 => after.stored[revision] = kept
  BY <1>2, BoardOutcomes
<1>4. /\ DOMAIN told = BoardFields /\ told.stored = after.stored /\ told.done = after.done
      /\ told.minted = first.minted /\ told.hides = first.hides /\ told.call = None
      /\ told.retry = first.retry /\ told.draft = first.draft
      /\ told.snapshot = first.snapshot /\ told.confirm = first.confirm
      /\ told.loading = first.loading /\ told.editing = first.editing
  BY <1>3 DEF BoardFields
<1> HIDE DEF told, kept
<1>m. ASSUME first'.stored = after.stored, first'.done = after.done,
             first'.minted = first.minted
      PROVE  MutationsInv'
  BY <1>3, <1>m DEF BoardInv, MutationsInv
<1>5. CASE first' = [told EXCEPT !.error = TRUE]
  <2>1. /\ DOMAIN first' = BoardFields /\ first'.stored = after.stored
        /\ first'.done = after.done /\ first'.minted = first.minted
        /\ first'.hides = first.hides /\ first'.call = None
        /\ first'.retry = first.retry /\ first'.draft = first.draft
        /\ first'.snapshot = first.snapshot /\ first'.confirm = first.confirm
        /\ first'.loading = first.loading /\ first'.editing = first.editing
    BY <1>4, <1>5 DEF BoardFields
  <2>2. Board!Hidden' = Board!Hidden
    BY <2>1 DEF Board!Hidden
  <2>3. RetryInv'
    BY <1>2, <1>3, <2>1, <2>2 DEF RetryInv, kept
  <2>4. DraftInv'
    BY <2>1 DEF BoardInv, DraftInv
  <2> QED
    BY <1>m, <2>1, <2>3, <2>4 DEF BoardInv, BoardFields, Board!EditsAreKept
<1>6. ASSUME NEW snapshot, snapshot.doc = after.stored[revision], revision # 0,
             first' = Board!Shows(told, snapshot)
      PROVE  BoardInv' /\ Board!EditsAreKept
  <2>1. /\ DOMAIN first' = BoardFields /\ first'.stored = after.stored
        /\ first'.done = after.done /\ first'.minted = first.minted
        /\ first'.call = None /\ first'.retry = None
        /\ first'.draft = Board!Draft(snapshot.doc) /\ first'.snapshot = snapshot
    BY <1>4, <1>6 DEF BoardFields, Board!Shows
  <2>2. DOMAIN first'.draft = {"doc", "layouts"}
    BY <2>1 DEF Board!Draft
  <2>3. BoardInv'
    BY <1>m, <2>1, <2>2 DEF BoardInv, BoardFields, DraftInv, RetryInv
  <2>4. first'.snapshot.doc
          = Board!Keeping(first.draft.doc, Board!Hidden, first'.snapshot.doc)
    BY <1>2, <1>3, <1>6, <2>1 DEF kept
  <2> QED
    BY <2>3, <2>4 DEF Board!EditsAreKept
<1> QED
  BY <1>1, <1>5, <1>6 DEF told

\* The page of another permission is another page.
LEMMA BoardMounts ==
  ASSUME BoardInv, Board!PermissionChanges
  PROVE  BoardInv'
<1>1. PICK after \in IF first.call = None THEN {first} ELSE Board!Outcomes(first.call) :
        first' = [Board!Mounted(after) EXCEPT !.hides = ~@]
  BY DEF Board!PermissionChanges
<1>2. /\ DOMAIN after = BoardFields /\ after.minted = first.minted
      /\ IsSeq(after.stored) /\ DOMAIN after.done = 1..MaxMutations
      /\ \A id \in 1..MaxMutations : /\ after.done[id] \in 0..Len(after.stored)
                                     /\ id > first.minted => after.done[id] = 0
  <2>1. CASE first.call = None
    BY <1>1, <2>1 DEF BoardInv, BoardFields, MutationsInv
  <2>2. CASE first.call # None
    BY <1>1, <2>2, BoardOutcomes DEF BoardFields
  <2> QED
    BY <2>1, <2>2
<1> DEFINE b == Board!Mounted(after)
<1>3. /\ DOMAIN b = BoardFields /\ b.stored = after.stored /\ b.done = after.done
      /\ b.minted = first.minted /\ b.call = None /\ b.retry = None /\ b.draft = None
      /\ b.snapshot = None /\ b.confirm = None /\ b.editing = FALSE
  BY <1>2 DEF Board!Mounted, BoardFields
<1> HIDE DEF b
<1>4. /\ DOMAIN first' = BoardFields /\ first'.stored = after.stored
      /\ first'.done = after.done /\ first'.minted = first.minted
      /\ first'.call = None /\ first'.retry = None /\ first'.draft = None
      /\ first'.snapshot = None /\ first'.confirm = None /\ ~first'.editing
  BY <1>1, <1>3 DEF BoardFields, b
<1>5. MutationsInv'
  BY <1>2, <1>4 DEF BoardInv, MutationsInv
<1> QED
  BY <1>4, <1>5 DEF BoardInv, BoardFields, DraftInv, RetryInv

\* Every step of the dashboard page keeps it, and the edits.
LEMMA BoardSteps ==
  ASSUME BoardInv, Board!Next
  PROVE  BoardInv' /\ Board!EditsAreKept
<1>0. DOMAIN first = BoardFields /\ (first.call # None => ~first.loading /\ first.confirm = None)
  BY DEF BoardInv, BoardFields
<1>1. ASSUME NEW answered \in BOOLEAN, Board!ReadAnswers(answered)
      PROVE  BoardInv' /\ Board!EditsAreKept
  <2>1. first.loading /\ first.call = None
    BY <1>0, <1>1 DEF Board!ReadAnswers
  <2>2. CASE first' = [first EXCEPT !.loading = FALSE, !.error = TRUE]
    <3>1. /\ StoreStays /\ first'.call = first.call /\ first'.retry = first.retry
          /\ first'.snapshot = first.snapshot /\ first'.draft = first.draft
          /\ first'.editing = first.editing /\ first'.confirm = first.confirm
          /\ ~first'.loading
      BY <1>0, <2>2 DEF BoardFields, StoreStays
    <3> QED
      BY <2>1, <3>1, BoardStays DEF Board!EditsAreKept
  <2>3. ASSUME NEW snapshot,
               first' = [Board!Shows(first, snapshot) EXCEPT !.loading = FALSE, !.error = FALSE]
        PROVE  BoardInv'
    <3> DEFINE b == Board!Shows(first, snapshot)
    <3>1. /\ DOMAIN b = BoardFields /\ b.stored = first.stored /\ b.done = first.done
          /\ b.minted = first.minted /\ b.hides = first.hides /\ b.call = None
      BY <1>0, <2>1 DEF Board!Shows, BoardFields
    <3>2. first' = [b EXCEPT !.loading = FALSE, !.error = FALSE]
      BY <2>3
    <3> HIDE DEF b
    <3>3. /\ DOMAIN first' = BoardFields
          /\ \A f \in BoardFields \ {"loading", "error"} : first'[f] = b[f]
      BY <3>1, <3>2
    <3>4. StoreStays
      BY <3>1, <3>3 DEF StoreStays, BoardFields
    <3> QED
      BY <1>0, <2>1, <3>3, <3>4, BoardShows DEF b
  <2> QED
    BY <1>1, <2>1, <2>2, <2>3 DEF Board!ReadAnswers, Board!EditsAreKept
<1>2. CASE Board!CancelEditing
  <2>1. CASE Board!Dirty /\ Board!Ask("discard")
    <3>1. /\ StoreStays /\ first'.call = first.call /\ first'.retry = first.retry
          /\ first'.snapshot = first.snapshot /\ first'.draft = first.draft
          /\ first'.editing = first.editing /\ first'.loading = first.loading
          /\ first.call = None /\ first.draft # None
      BY <1>0, <2>1 DEF Board!Ask, Board!Running, Board!Dirty, StoreStays, BoardFields
    <3>2. DOMAIN first'.draft = {"doc", "layouts"}
      BY <3>1 DEF BoardInv, DraftInv
    <3> QED
      BY <3>1, <3>2, BoardStays DEF Board!EditsAreKept
  <2>2. CASE ~Board!Dirty /\ first' = Board!Discarded(first)
    <3>1. first.call = None
      BY <1>2 DEF Board!CancelEditing, Board!Running
    <3> QED
      BY <2>2, <3>1, BoardDiscards DEF Board!EditsAreKept
  <2> QED
    BY <1>2, <2>1, <2>2 DEF Board!CancelEditing
<1>3. CASE Board!ConfirmDiscard
  <2>1. first.confirm = "discard" /\ first' = [Board!Discarded(first) EXCEPT !.confirm = None]
    BY <1>3 DEF Board!ConfirmDiscard, Board!Confirmed
  <2>2. first.call = None
    BY <1>0, <2>1 DEF PagesAssumptions
  <2> QED
    BY <2>1, <2>2, BoardDiscards DEF Board!EditsAreKept
<1>4. CASE Board!PermissionChanges
  BY <1>4, BoardMounts DEF Board!EditsAreKept
<1>5. ASSUME BoardInv', first.editing => first'.editing
      PROVE  BoardInv' /\ Board!EditsAreKept
  BY <1>5 DEF Board!EditsAreKept
<1> QED
  BY <1>1, <1>2, <1>3, <1>4, <1>5, BoardOpens, BoardEdits, BoardReplaces, BoardSaves,
     BoardElsewhere, BoardAnswers DEF Board!Next

-------------------------------------------------------------------------------
(* The pins of a preset.                                                       *)

\* Any set has its members in some order.
LEMMA InOrder ==
  ASSUME NEW S, IsFiniteSet(S)
  PROVE  IsSeq(Editing!SetToSeq(S))
<1> DEFINE n == Cardinality(S)
           F == {f \in [1..n -> S] : \A a, b \in DOMAIN f : f[a] = f[b] => a = b}
<1>1. n \in Nat /\ ExistsBijection(1..n, S)
  BY FS_CardinalityType
<1>2. PICK g : g \in F
  BY <1>1 DEF ExistsBijection, Bijection, Injection, IsInjective
<1>c. Editing!Cardinality(S) = n
  BY DEF Editing!Cardinality, Cardinality
<1>3. Editing!SetToSeq(S) = CHOOSE f \in [1..n -> S] :
                              \A a, b \in DOMAIN f : f[a] = f[b] => a = b
  BY <1>c DEF Editing!SetToSeq, Editing!IsInjective
<1>4. Editing!SetToSeq(S) \in [1..n -> S]
  BY <1>2, <1>3
<1> QED
  BY <1>1, <1>4, Listed DEF IsSeq

\* The fields of the editor.
EditorFields == {"presets", "active", "hidden", "gesture", "naming", "deleting", "adding",
                 "saving", "suspended"}

\* Two lists with the same unseen pins in the same order.
LEMMA SameOrder ==
  ASSUME NEW a, NEW b,
         \A i, j \in DOMAIN a : i <= j /\ a[i] \in Editing!Unseen /\ a[j] \in Editing!Unseen =>
           \E k, l \in DOMAIN b : k <= l /\ b[k] = a[i] /\ b[l] = a[j],
         \A i, j \in DOMAIN b : i <= j /\ b[i] \in Editing!Unseen /\ b[j] \in Editing!Unseen =>
           \E k, l \in DOMAIN a : k <= l /\ a[k] = b[i] /\ a[l] = b[j]
  PROVE  Editing!Order(a) = Editing!Order(b)
<1> DEFINE U == Editing!Unseen
<1>1. ASSUME NEW x \in U, NEW y \in U
      PROVE  (\E i, j \in DOMAIN a : i <= j /\ <<x, y>> = <<a[i], a[j]>>)
               <=> (\E i, j \in DOMAIN b : i <= j /\ <<x, y>> = <<b[i], b[j]>>)
  <2> HIDE DEF U
  <2>1. ASSUME NEW i \in DOMAIN a, NEW j \in DOMAIN a, i <= j, x = a[i], y = a[j]
        PROVE  \E k, l \in DOMAIN b : k <= l /\ x = b[k] /\ y = b[l]
    <3>1. \E k, l \in DOMAIN b : k <= l /\ b[k] = a[i] /\ b[l] = a[j]
      BY <2>1 DEF U
    <3> QED
      BY <2>1, <3>1
  <2>2. ASSUME NEW i \in DOMAIN b, NEW j \in DOMAIN b, i <= j, x = b[i], y = b[j]
        PROVE  \E k, l \in DOMAIN a : k <= l /\ x = a[k] /\ y = a[l]
    <3>1. \E k, l \in DOMAIN a : k <= l /\ a[k] = b[i] /\ a[l] = b[j]
      BY <2>2 DEF U
    <3> QED
      BY <2>2, <3>1
  <2> QED
    BY <2>1, <2>2
<1>2. \A pair \in U \X U :
        (\E i, j \in DOMAIN a : i <= j /\ pair = <<a[i], a[j]>>)
          <=> (\E i, j \in DOMAIN b : i <= j /\ pair = <<b[i], b[j]>>)
  <2> HIDE DEF U
  <2>1. SUFFICES ASSUME NEW pair \in U \X U
        PROVE  (\E i, j \in DOMAIN a : i <= j /\ pair = <<a[i], a[j]>>)
                 <=> (\E i, j \in DOMAIN b : i <= j /\ pair = <<b[i], b[j]>>)
    OBVIOUS
  <2>2. PICK x \in U, y \in U : pair = <<x, y>>
    OBVIOUS
  <2> QED
    BY <1>1, <2>2
<1>3. /\ Editing!Order(a) = {pair \in U \X U :
                               \E i, j \in DOMAIN a : i <= j /\ pair = <<a[i], a[j]>>}
      /\ Editing!Order(b) = {pair \in U \X U :
                               \E i, j \in DOMAIN b : i <= j /\ pair = <<b[i], b[j]>>}
  BY DEF Editing!Order
<1> HIDE DEF U
<1> QED
  BY <1>2, <1>3

\* Without a pin that is seen.
LEMMA OrderLess ==
  ASSUME NEW s, IsSeq(s), NEW i \in DOMAIN s, s[i] \notin Editing!Unseen,
         NEW r, r = Less(s, i)
  PROVE  Editing!Order(r) = Editing!Order(s)
<1> DEFINE n == Len(s)
           from(k) == IF k < i THEN k ELSE k + 1
           to(k) == IF k < i THEN k ELSE k - 1
<1>1. n \in Nat /\ DOMAIN s = 1..n
  BY Counted
<1>2. /\ IsSeq(r) /\ Len(r) = n - 1
      /\ \A k \in 1..i - 1 : r[k] = s[k]
      /\ \A k \in i..n - 1 : r[k] = s[k + 1]
  BY Shortened
<1> HIDE DEF n
<1>3. DOMAIN r = 1..n - 1
  BY <1>2, Counted
<1>4. ASSUME NEW k \in DOMAIN r
      PROVE  from(k) \in DOMAIN s /\ r[k] = s[from(k)]
  <2>1. CASE k < i
    BY <1>1, <1>2, <1>3, <2>1
  <2>2. CASE ~(k < i)
    BY <1>1, <1>2, <1>3, <2>2
  <2> QED
    BY <2>1, <2>2
<1>5. ASSUME NEW k \in DOMAIN s, k # i
      PROVE  to(k) \in DOMAIN r /\ s[k] = r[to(k)]
  <2>1. CASE k < i
    BY <1>1, <1>2, <1>3, <2>1
  <2>2. CASE ~(k < i)
    <3>1. k - 1 \in i..n - 1 /\ to(k) = k - 1 /\ (k - 1) + 1 = k
      BY <1>1, <1>5, <2>2
    <3> QED
      BY <1>1, <1>2, <1>3, <3>1
  <2> QED
    BY <2>1, <2>2
<1>6. \A k, l \in DOMAIN r : k <= l => from(k) <= from(l)
  BY <1>1, <1>3
<1>7. \A k, l \in DOMAIN s : k <= l => to(k) <= to(l) \/ k = i \/ l = i
  BY <1>1
<1> HIDE DEF from, to
<1>8. \A k, l \in DOMAIN r : k <= l /\ r[k] \in Editing!Unseen /\ r[l] \in Editing!Unseen =>
        \E p, q \in DOMAIN s : p <= q /\ s[p] = r[k] /\ s[q] = r[l]
  BY <1>4, <1>6
<1>9. \A k, l \in DOMAIN s : k <= l /\ s[k] \in Editing!Unseen /\ s[l] \in Editing!Unseen =>
        \E p, q \in DOMAIN r : p <= q /\ r[p] = s[k] /\ r[q] = s[l]
  BY <1>5, <1>7
<1> QED
  BY <1>8, <1>9, SameOrder

\* With one more pin that is seen.
LEMMA OrderMore ==
  ASSUME NEW s, IsSeq(s), NEW i \in 1..Len(s) + 1, NEW e, e \notin Editing!Unseen,
         NEW r, r = More(s, i, e)
  PROVE  Editing!Order(r) = Editing!Order(s)
<1> DEFINE n == Len(s)
           from(k) == IF k < i THEN k ELSE k - 1
           to(k) == IF k < i THEN k ELSE k + 1
<1>1. n \in Nat /\ DOMAIN s = 1..n
  BY Counted
<1>2. /\ IsSeq(r) /\ Len(r) = n + 1 /\ r[i] = e
      /\ \A k \in 1..i - 1 : r[k] = s[k]
      /\ \A k \in i..n : r[k + 1] = s[k]
  BY Inserted
<1>i. i \in 1..n + 1
  OBVIOUS
<1> HIDE DEF n
<1>3. DOMAIN r = 1..n + 1
  BY <1>2, Counted
<1>4. ASSUME NEW k \in DOMAIN r, k # i
      PROVE  from(k) \in DOMAIN s /\ r[k] = s[from(k)]
  <2>1. CASE k < i
    BY <1>i, <1>1, <1>2, <1>3, <2>1
  <2>2. CASE ~(k < i)
    <3>1. k - 1 \in i..n /\ from(k) = k - 1 /\ (k - 1) + 1 = k
      BY <1>i, <1>1, <1>3, <1>4, <2>2
    <3>2. r[(k - 1) + 1] = s[k - 1]
      BY <1>2, <3>1
    <3> QED
      BY <1>i, <1>1, <3>1, <3>2
  <2> QED
    BY <2>1, <2>2
<1>5. ASSUME NEW k \in DOMAIN s
      PROVE  to(k) \in DOMAIN r /\ s[k] = r[to(k)]
  <2>1. CASE k < i
    BY <1>i, <1>1, <1>2, <1>3, <2>1
  <2>2. CASE ~(k < i)
    BY <1>i, <1>1, <1>2, <1>3, <2>2
  <2> QED
    BY <2>1, <2>2
<1>6. \A k, l \in DOMAIN r : k <= l => from(k) <= from(l) \/ k = i \/ l = i
  BY <1>i, <1>1, <1>3
<1>7. \A k, l \in DOMAIN s : k <= l => to(k) <= to(l)
  BY <1>i, <1>1
<1> HIDE DEF from, to
<1>8. \A k, l \in DOMAIN r : k <= l /\ r[k] \in Editing!Unseen /\ r[l] \in Editing!Unseen =>
        \E p, q \in DOMAIN s : p <= q /\ s[p] = r[k] /\ s[q] = r[l]
  BY <1>2, <1>4, <1>6
<1>9. \A k, l \in DOMAIN s : k <= l /\ s[k] \in Editing!Unseen /\ s[l] \in Editing!Unseen =>
        \E p, q \in DOMAIN r : p <= q /\ r[p] = s[k] /\ r[q] = s[l]
  BY <1>5, <1>7
<1> QED
  BY <1>8, <1>9, SameOrder

\* A pin that is seen, moved among the pins.
LEMMA OrderMoved ==
  ASSUME NEW s, IsSeq(s), NEW of, of \notin Editing!Unseen, NEW target,
         NEW r, r = Editing!Move(s, of, target)
  PROVE  IsSeq(r) /\ Editing!Order(r) = Editing!Order(s)
<1>1. CASE r = s
  BY <1>1
<1>2. CASE /\ of \in Editing!Range(s) /\ target \in Editing!Range(s)
           /\ r = Editing!InsertAt(Editing!RemoveAt(s, Editing!Place(s, of)),
                                   Editing!Place(s, target), of)
  <2> DEFINE i == Editing!Place(s, of)
             j == Editing!Place(s, target)
             less == Less(s, i)
  <2>1. i \in DOMAIN s /\ s[i] = of
    <3>1. \E k \in DOMAIN s : s[k] = of
      BY <1>2 DEF Editing!Range
    <3> QED
      BY <3>1 DEF Editing!Place
  <2>2. j \in DOMAIN s
    <3>1. \E k \in DOMAIN s : s[k] = target
      BY <1>2 DEF Editing!Range
    <3> QED
      BY <3>1 DEF Editing!Place
  <2>3. r = More(less, j, of)
    BY <1>2 DEF Editing!InsertAt, Editing!RemoveAt, More, Less
  <2> HIDE DEF i, j
  <2>4. less = Less(s, i)
    OBVIOUS
  <2> HIDE DEF less
  <2>5. IsSeq(less) /\ Len(less) = Len(s) - 1
    BY <2>1, <2>4, Shortened
  <2>6. Editing!Order(less) = Editing!Order(s)
    BY <2>1, <2>4, OrderLess
  <2>7. j \in 1..Len(less) + 1
    <3>1. Len(s) \in Nat /\ DOMAIN s = 1..Len(s)
      BY Counted
    <3> QED
      BY <2>2, <2>5, <3>1
  <2>8. IsSeq(r)
    BY <2>3, <2>5, <2>7, Inserted
  <2>9. Editing!Order(r) = Editing!Order(less)
    BY <2>3, <2>5, <2>7, OrderMore
  <2> QED
    BY <2>6, <2>8, <2>9
<1> QED
  BY <1>1, <1>2 DEF Editing!Move

\* A pin that is seen, added at the end.
LEMMA OrderAdded ==
  ASSUME NEW s, IsSeq(s), NEW e, e \notin Editing!Unseen
  PROVE  IsSeq(Append(s, e)) /\ Editing!Order(Append(s, e)) = Editing!Order(s)
<1> DEFINE n == Len(s)
           r == Append(s, e)
<1>1. n \in Nat /\ DOMAIN s = 1..n
  BY Counted
<1>2. /\ IsSeq(r) /\ Len(r) = n + 1 /\ \A k \in 1..n : r[k] = s[k]
      /\ r[n + 1] = e
  BY Appended
<1> HIDE DEF r, n
<1>3. DOMAIN r = 1..n + 1
  BY <1>2, Counted
<1>4. \A k, l \in DOMAIN r : k <= l /\ r[k] \in Editing!Unseen /\ r[l] \in Editing!Unseen =>
        \E p, q \in DOMAIN s : p <= q /\ s[p] = r[k] /\ s[q] = r[l]
  <2>1. \A k \in DOMAIN r : r[k] \in Editing!Unseen => k \in DOMAIN s /\ s[k] = r[k]
    BY <1>1, <1>2, <1>3
  <2> QED
    BY <2>1
<1>5. \A k, l \in DOMAIN s : k <= l /\ s[k] \in Editing!Unseen /\ s[l] \in Editing!Unseen =>
        \E p, q \in DOMAIN r : p <= q /\ r[p] = s[k] /\ r[q] = s[l]
  <2>1. \A k \in DOMAIN s : k \in DOMAIN r /\ s[k] = r[k]
    BY <1>1, <1>2, <1>3
  <2> QED
    BY <2>1
<1>6. Editing!Order(r) = Editing!Order(s)
  BY <1>4, <1>5, SameOrder
<1> QED
  BY <1>2, <1>6 DEF r

\* The active preset.
LEMMA ActivePreset ==
  ASSUME EditorInv
  PROVE  /\ Editing!Active \in DOMAIN first.presets
         /\ first.presets[Editing!Active].id = first.active
         /\ IsSeq(Editing!Pins)
<1>1. \E i \in DOMAIN first.presets : first.presets[i].id = first.active
  BY DEF EditorInv, Presets
<1>2. /\ Editing!Active \in DOMAIN first.presets
      /\ first.presets[Editing!Active].id = first.active
  BY <1>1 DEF Editing!Active
<1> QED
  BY <1>2 DEF EditorInv, Presets, Editing!Pins

\* Other pins of the active preset change nothing else.
LEMMA PinnedParts ==
  ASSUME EditorInv, NEW pins, IsSeq(pins), NEW e, e = Editing!Pinned(pins)
  PROVE  /\ DOMAIN e = EditorFields
         /\ \A field \in EditorFields \ {"presets"} : e[field] = first[field]
         /\ Presets(e.presets, first.active) /\ Len(e.presets) = Len(first.presets)
         /\ \A i \in DOMAIN first.presets, j \in DOMAIN e.presets :
              first.presets[i].id = e.presets[j].id =>
                \/ e.presets[j].pins = first.presets[i].pins
                \/ e.presets[j].pins = pins /\ first.presets[i].pins = Editing!Pins
<1> DEFINE P == first.presets
           a == Editing!Active
           Q == [P EXCEPT ![a].pins = pins]
<1>1. DOMAIN first = EditorFields
  BY DEF EditorInv, EditorFields
<1>2. e = [first EXCEPT !.presets = Q]
  BY <1>1 DEF Editing!Pinned, EditorFields
<1>3. /\ DOMAIN e = EditorFields /\ e.presets = Q
      /\ \A field \in EditorFields \ {"presets"} : e[field] = first[field]
  BY <1>1, <1>2 DEF EditorFields
<1>4. a \in DOMAIN P /\ P[a].id = first.active /\ P[a].pins = Editing!Pins
  BY ActivePreset DEF Editing!Pins
<1>5. /\ IsSeq(P) /\ \E i \in DOMAIN P : P[i].id = first.active
      /\ \A i \in DOMAIN P : DOMAIN P[i] = {"id", "name", "pins"} /\ IsSeq(P[i].pins)
      /\ \A i, j \in DOMAIN P : P[i].id = P[j].id => i = j
  BY DEF EditorInv, Presets
<1>6. Len(P) \in Nat /\ DOMAIN P = 1..Len(P)
  BY <1>5, Counted
<1> HIDE DEF a, P
<1>7. DOMAIN Q = DOMAIN P /\ Q = [i \in DOMAIN P |-> Q[i]]
  OBVIOUS
<1>8. \A i \in DOMAIN P : i # a => Q[i] = P[i]
  BY <1>4
<1>9. DOMAIN Q[a] = {"id", "name", "pins"} /\ Q[a].id = P[a].id /\ Q[a].pins = pins
  BY <1>4, <1>5
<1> HIDE DEF Q
<1>10. IsSeq(Q) /\ Len(Q) = Len(P)
  BY <1>6, <1>7, Enumerated
<1>11. \A i \in DOMAIN P : /\ Q[i].id = P[i].id /\ DOMAIN Q[i] = {"id", "name", "pins"}
                           /\ IsSeq(Q[i].pins)
  BY <1>5, <1>8, <1>9
<1>12. Presets(Q, first.active)
  BY <1>5, <1>7, <1>10, <1>11 DEF Presets
<1>13. \A i \in DOMAIN P, j \in DOMAIN Q : P[i].id = Q[j].id =>
         Q[j].pins = P[i].pins \/ (Q[j].pins = pins /\ P[i].pins = Editing!Pins)
  BY <1>4, <1>5, <1>7, <1>8, <1>9, <1>11
<1> QED
  BY <1>3, <1>10, <1>12, <1>13 DEF P

\* The steps that leave what is unseen where it was.
LEMMA PinsStay ==
  ASSUME EditorInv,
         \A i \in DOMAIN first.presets, j \in DOMAIN first'.presets :
           first.presets[i].id = first'.presets[j].id =>
             Editing!Order(first'.presets[j].pins) = Editing!Order(first.presets[i].pins)
  PROVE  Editing!HiddenPinsStay
BY DEF Editing!HiddenPinsStay, Editing!Range

\* The steps that leave the pins alone.
LEMMA PresetsStay ==
  ASSUME EditorInv, first'.presets = first.presets
  PROVE  Editing!HiddenPinsStay
<1>1. \A i, j \in DOMAIN first.presets : first.presets[i].id = first.presets[j].id => i = j
  BY DEF EditorInv, Presets
<1> QED
  BY <1>1, PinsStay

\* The steps that pin what has the unseen in the same order.
LEMMA PinnedStay ==
  ASSUME EditorInv, NEW pins, IsSeq(pins), Editing!Order(pins) = Editing!Order(Editing!Pins),
         first'.presets = Editing!Pinned(pins).presets
  PROVE  Editing!HiddenPinsStay
<1> DEFINE e == Editing!Pinned(pins)
<1>1. \A i \in DOMAIN first.presets, j \in DOMAIN e.presets :
        first.presets[i].id = e.presets[j].id =>
          \/ e.presets[j].pins = first.presets[i].pins
          \/ e.presets[j].pins = pins /\ first.presets[i].pins = Editing!Pins
  BY PinnedParts
<1> HIDE DEF e
<1>2. \A i \in DOMAIN first.presets, j \in DOMAIN e.presets :
        first.presets[i].id = e.presets[j].id =>
          Editing!Order(e.presets[j].pins) = Editing!Order(first.presets[i].pins)
  BY <1>1
<1>3. first'.presets = e.presets
  BY DEF e
<1> QED
  BY <1>2, <1>3, PinsStay

\* What keeps the presets and what is saved keeps the rest.
LEMMA EditorStays ==
  ASSUME EditorInv, DOMAIN first' = EditorFields, Presets(first'.presets, first'.active),
         first'.gesture \in {first.gesture, None}, first'.saving \in {first.saving, None},
         first'.deleting => Len(first'.presets) > 1
  PROVE  EditorInv'
BY DEF EditorInv, EditorFields

\* The launcher's editor starts with one preset.
LEMMA EditingStarts ==
  ASSUME Editing!Init
  PROVE  EditorInv
<1>1. PICK id \in PresetIds, pins \in {Editing!SetToSeq(Refs),
                                      Editing!SetToSeq(Refs \ Hideable)} :
        first = Editing!Start(<<Editing!Preset(id, pins)>>, id, Hideable)
  BY DEF Editing!Init
<1>2. IsSeq(pins)
  <2>1. IsFiniteSet(Refs) /\ IsFiniteSet(Refs \ Hideable)
    BY PagesAssumptions, FS_Difference DEF PagesAssumptions
  <2> QED
    BY <1>1, <2>1, InOrder
<1> DEFINE p == Editing!Preset(id, pins)
<1>3. DOMAIN p = {"id", "name", "pins"} /\ p.id = id /\ p.pins = pins
  BY DEF Editing!Preset
<1> HIDE DEF p
<1>4. IsSeq(<<p>>) /\ DOMAIN <<p>> = {1} /\ <<p>>[1] = p
  <2>1. <<p>> \in Seq({p}) /\ DOMAIN <<p>> = {1} /\ <<p>>[1] = p
    OBVIOUS
  <2> QED
    BY <2>1 DEF IsSeq
<1>5. Presets(<<p>>, id)
  BY <1>2, <1>3, <1>4 DEF Presets
<1>6. /\ DOMAIN first = EditorFields /\ first.presets = <<p>> /\ first.active = id
      /\ first.gesture = None /\ first.saving = None /\ ~first.deleting
  BY <1>1 DEF Editing!Start, EditorFields, p
<1> QED
  BY <1>5, <1>6 DEF EditorInv, EditorFields

\* A drag that ends may leave any of the pins.
LEMMA LetGo ==
  ASSUME first.gesture # None, first'.gesture = None
  PROVE  Editing!HiddenPinsStay
BY DEF Editing!HiddenPinsStay

\* What is left of the editor when a drag ends, or is given up.
LEMMA FinishedParts ==
  ASSUME EditorInv, NEW cancel \in BOOLEAN
  PROVE  LET e == Editing!Finish(cancel)
         IN  /\ DOMAIN e = EditorFields /\ Presets(e.presets, e.active) /\ e.gesture = None
             /\ e.saving = first.saving /\ (first.gesture = None => e.presets = first.presets)
             /\ e.deleting = first.deleting /\ Len(e.presets) = Len(first.presets)
<1> DEFINE e == Editing!Finish(cancel)
<1>f. DOMAIN first = EditorFields /\ Presets(first.presets, first.active)
  BY DEF EditorInv, EditorFields
<1>1. CASE first.gesture # None /\ cancel
  <2> DEFINE d == Editing!Pinned(first.gesture.before)
  <2>1. IsSeq(first.gesture.before)
    BY <1>1 DEF EditorInv
  <2>2. /\ DOMAIN d = EditorFields /\ Presets(d.presets, first.active)
        /\ Len(d.presets) = Len(first.presets)
        /\ \A field \in EditorFields \ {"presets"} : d[field] = first[field]
    BY <2>1, PinnedParts
  <2>3. e = [d EXCEPT !.gesture = None]
    BY <1>1 DEF Editing!Finish
  <2> HIDE DEF d, e
  <2>4. /\ DOMAIN e = EditorFields /\ e.presets = d.presets /\ e.active = first.active
        /\ e.gesture = None /\ e.saving = first.saving /\ e.deleting = first.deleting
    BY <2>2, <2>3 DEF EditorFields
  <2> QED
    BY <1>1, <2>2, <2>4 DEF e
<1>2. CASE ~(first.gesture # None /\ cancel)
  <2>1. e = [first EXCEPT !.gesture = None]
    BY <1>2 DEF Editing!Finish
  <2> HIDE DEF e
  <2>2. /\ DOMAIN e = EditorFields /\ e.presets = first.presets /\ e.active = first.active
        /\ e.gesture = None /\ e.saving = first.saving /\ e.deleting = first.deleting
    BY <1>f, <2>1 DEF EditorFields
  <2> QED
    BY <1>f, <2>2 DEF e
<1> QED
  BY <1>1, <1>2

\* A drag that ends, or is given up, keeps what holds.
LEMMA Finished ==
  ASSUME EditorInv, first' \in {Editing!Finish(FALSE), Editing!Finish(TRUE)}
  PROVE  EditorInv' /\ first'.gesture = None
<1>1. PICK cancel \in BOOLEAN : first' = Editing!Finish(cancel)
  OBVIOUS
<1>2. /\ DOMAIN first' = EditorFields /\ Presets(first'.presets, first'.active)
      /\ first'.gesture = None /\ first'.saving = first.saving
      /\ first'.deleting = first.deleting /\ Len(first'.presets) = Len(first.presets)
  BY <1>1, FinishedParts
<1> QED
  BY <1>2, EditorStays DEF EditorInv

\* What is pinned with the unseen in the same order.
LEMMA PinnedSteps ==
  ASSUME EditorInv, NEW pins, IsSeq(pins), Editing!Order(pins) = Editing!Order(Editing!Pins),
         first' = Editing!Pinned(pins)
  PROVE  EditorInv' /\ Editing!HiddenPinsStay
<1> DEFINE e == Editing!Pinned(pins)
<1>1. /\ DOMAIN e = EditorFields /\ Presets(e.presets, first.active)
      /\ Len(e.presets) = Len(first.presets)
      /\ \A field \in EditorFields \ {"presets"} : e[field] = first[field]
  BY PinnedParts
<1>2. Editing!HiddenPinsStay
  BY PinnedStay
<1>3. first' = e
  OBVIOUS
<1> HIDE DEF e
<1>4. /\ DOMAIN first' = EditorFields /\ Presets(first'.presets, first'.active)
      /\ first'.gesture = first.gesture /\ first'.saving = first.saving
      /\ first'.deleting = first.deleting /\ Len(first'.presets) = Len(first.presets)
  BY <1>1, <1>3 DEF EditorFields
<1> QED
  BY <1>2, <1>4, EditorStays DEF EditorInv

\* What the editor does in one step, beside what it keeps.
EditorStep == EditorInv' /\ Editing!HiddenPinsStay

\* A tile in the hand: taken up, moved over another, and let go.
LEMMA GestureSteps ==
  ASSUME EditorInv,
         \/ \E ref \in Refs : Editing!Lift(ref) \/ Editing!DragOver(ref)
         \/ Editing!Drop \/ Editing!CancelDrag
  PROVE  EditorStep
<1>f. DOMAIN first = EditorFields /\ Presets(first.presets, first.active)
  BY DEF EditorInv, EditorFields
<1>p. IsSeq(Editing!Pins)
  BY ActivePreset
<1>1. ASSUME NEW ref \in Refs, Editing!Lift(ref)
      PROVE  EditorStep
  <2>1. /\ DOMAIN first' = EditorFields /\ first'.presets = first.presets
        /\ first'.active = first.active /\ first'.saving = first.saving
        /\ first'.gesture = [of |-> ref, before |-> Editing!Pins, last |-> None]
        /\ first'.deleting = first.deleting
    BY <1>1, <1>f DEF Editing!Lift, EditorFields
  <2>2. EditorInv'
    BY <2>1, <1>f, <1>p DEF EditorInv, EditorFields
  <2> QED
    BY <2>1, <2>2, PresetsStay DEF EditorStep
<1>2. ASSUME NEW tile \in Refs, Editing!DragOver(tile)
      PROVE  EditorStep
  <2> DEFINE g == first.gesture
             moved == Editing!Move(Editing!Pins, g.of, tile)
             e == Editing!Pinned(moved)
  <2>1. /\ first.gesture # None
        /\ first' = IF tile = g.of THEN [first EXCEPT !.gesture.last = None]
                    ELSE IF tile = g.last THEN first ELSE [e EXCEPT !.gesture.last = tile]
    BY <1>2 DEF Editing!DragOver
  <2>2. DOMAIN g = {"of", "before", "last"} /\ IsSeq(g.before)
    BY <2>1 DEF EditorInv
  <2>3. g.of \notin Editing!Unseen
    BY <2>1 DEF Editing!Unseen
  <2>4. IsSeq(moved) /\ Editing!Order(moved) = Editing!Order(Editing!Pins)
    BY <1>p, <2>3, OrderMoved
  <2>5. /\ DOMAIN e = EditorFields /\ Presets(e.presets, first.active)
        /\ Len(e.presets) = Len(first.presets)
        /\ \A field \in EditorFields \ {"presets"} : e[field] = first[field]
    BY <2>4, PinnedParts
  <2>e. /\ e.active = first.active /\ e.saving = first.saving /\ e.gesture = g
        /\ e.deleting = first.deleting
    BY <2>5 DEF EditorFields
  <2>6. e.presets = Editing!Pinned(moved).presets
    OBVIOUS
  <2> HIDE DEF e, moved
  <2>7. CASE tile = g.of
    <3>1. /\ DOMAIN first' = EditorFields /\ first'.presets = first.presets
          /\ first'.active = first.active /\ first'.saving = first.saving
          /\ first'.gesture = [g EXCEPT !.last = None] /\ first'.deleting = first.deleting
      BY <2>1, <2>7, <1>f DEF EditorFields
    <3> HIDE DEF g
    <3>2. DOMAIN first'.gesture = {"of", "before", "last"} /\ first'.gesture.before = g.before
      BY <2>2, <3>1
    <3>3. EditorInv'
      BY <2>2, <3>1, <3>2, <1>f DEF EditorInv, EditorFields
    <3> QED
      BY <3>1, <3>3, PresetsStay DEF EditorStep
  <2>8. CASE tile # g.of /\ tile = g.last
    <3>1. first' = first
      BY <2>1, <2>8
    <3>2. EditorInv'
      BY <3>1 DEF EditorInv
    <3> QED
      BY <3>1, <3>2, PresetsStay DEF EditorStep
  <2>9. CASE tile # g.of /\ tile # g.last
    <3>1. first' = [e EXCEPT !.gesture.last = tile]
      BY <2>1, <2>9
    <3>2. /\ DOMAIN first' = EditorFields /\ first'.presets = e.presets
          /\ first'.active = first.active /\ first'.saving = first.saving
          /\ first'.gesture = [g EXCEPT !.last = tile] /\ first'.deleting = first.deleting
      BY <2>5, <2>e, <3>1 DEF EditorFields
    <3> HIDE DEF g
    <3>3. DOMAIN first'.gesture = {"of", "before", "last"} /\ first'.gesture.before = g.before
      BY <2>2, <3>2
    <3>4. EditorInv'
      BY <2>2, <2>5, <3>2, <3>3 DEF EditorInv, EditorFields
    <3> QED
      BY <2>4, <2>6, <3>2, <3>4, PinnedStay DEF EditorStep
  <2> QED
    BY <2>7, <2>8, <2>9
<1>3. ASSUME Editing!Drop \/ Editing!CancelDrag
      PROVE  EditorStep
  <2>1. first.gesture # None /\ first' \in {Editing!Finish(FALSE), Editing!Finish(TRUE)}
    BY <1>3 DEF Editing!Drop, Editing!CancelDrag
  <2>2. EditorInv' /\ first'.gesture = None
    BY <2>1, Finished
  <2> QED
    BY <2>1, <2>2, LetGo DEF EditorStep
<1> QED
  BY <1>1, <1>2, <1>3

\* The tiles, without the pointer.
LEMMA TileSteps ==
  ASSUME EditorInv,
         \/ \E of \in Refs : Editing!Unpin(of) \/ Editing!Add(of)
         \/ \E of, target \in Refs : Editing!ArrowKey(of, target)
  PROVE  EditorStep
<1>p. IsSeq(Editing!Pins)
  BY ActivePreset
<1>s. ASSUME NEW of \in Editing!Shown
      PROVE  of \in Editing!Range(Editing!Pins) /\ of \notin Editing!Unseen
  BY <1>s DEF Editing!Shown, Editing!Unseen
<1>1. ASSUME NEW of \in Refs, Editing!Unpin(of)
      PROVE  EditorStep
  <2> DEFINE i == Editing!Place(Editing!Pins, of)
             pins == Editing!RemoveAt(Editing!Pins, i)
  <2>1. of \in Editing!Shown /\ first' = Editing!Pinned(pins)
    BY <1>1 DEF Editing!Unpin
  <2>2. i \in DOMAIN Editing!Pins /\ Editing!Pins[i] = of
    <3>1. \E k \in DOMAIN Editing!Pins : Editing!Pins[k] = of
      BY <1>s, <2>1 DEF Editing!Range
    <3> QED
      BY <3>1 DEF Editing!Place
  <2>3. pins = Less(Editing!Pins, i)
    BY DEF Editing!RemoveAt, Less
  <2> HIDE DEF pins, i
  <2>4. IsSeq(pins) /\ Editing!Order(pins) = Editing!Order(Editing!Pins)
    BY <1>p, <1>s, <2>1, <2>2, <2>3, Shortened, OrderLess
  <2> QED
    BY <2>1, <2>4, PinnedSteps DEF EditorStep
<1>2. ASSUME NEW ref \in Refs, Editing!Add(ref)
      PROVE  EditorStep
  <2> DEFINE pins == Append(Editing!Pins, ref)
             e == Editing!Pinned(pins)
  <2>1. /\ ref \notin first.hidden /\ first.gesture = None
        /\ first' = [e EXCEPT !.adding = FALSE]
    BY <1>2 DEF Editing!Add, Editing!Idle
  <2>2. ref \notin Editing!Unseen
    BY <2>1 DEF Editing!Unseen
  <2>3. IsSeq(pins) /\ Editing!Order(pins) = Editing!Order(Editing!Pins)
    BY <1>p, <2>2, OrderAdded
  <2> HIDE DEF pins
  <2>4. /\ DOMAIN e = EditorFields /\ Presets(e.presets, first.active)
        /\ Len(e.presets) = Len(first.presets)
        /\ \A field \in EditorFields \ {"presets"} : e[field] = first[field]
    BY <2>3, PinnedParts
  <2>5. e.presets = Editing!Pinned(pins).presets
    OBVIOUS
  <2> HIDE DEF e
  <2>6. /\ DOMAIN first' = EditorFields /\ first'.presets = e.presets
        /\ first'.active = first.active /\ first'.gesture = first.gesture
        /\ first'.saving = first.saving /\ first'.deleting = first.deleting
    BY <2>1, <2>4 DEF EditorFields
  <2>7. EditorInv'
    BY <2>4, <2>6, EditorStays DEF EditorInv
  <2> QED
    BY <2>3, <2>5, <2>6, <2>7, PinnedStay DEF EditorStep
<1>3. ASSUME NEW of \in Refs, NEW target \in Refs, Editing!ArrowKey(of, target)
      PROVE  EditorStep
  <2> DEFINE pins == Editing!Move(Editing!Pins, of, target)
  <2>1. of \in Editing!Shown /\ first' = Editing!Pinned(pins)
    BY <1>3 DEF Editing!ArrowKey
  <2>2. IsSeq(pins) /\ Editing!Order(pins) = Editing!Order(Editing!Pins)
    BY <1>p, <1>s, <2>1, OrderMoved
  <2> HIDE DEF pins
  <2> QED
    BY <2>1, <2>2, PinnedSteps DEF EditorStep
<1> QED
  BY <1>1, <1>2, <1>3

\* The presets, one beside the other.
LEMMA PresetSteps ==
  ASSUME EditorInv,
         \/ \E id \in PresetIds : Editing!SwitchPreset(id) \/ Editing!NewPreset(id)
         \/ \E name \in Editing!Named : Editing!TypeName(name)
         \/ Editing!ConfirmDelete
  PROVE  EditorStep
<1> DEFINE P == first.presets
           a == Editing!Active
<1>f. DOMAIN first = EditorFields
  BY DEF EditorInv, EditorFields
<1>q. /\ IsSeq(P)
      /\ \A i \in DOMAIN P : DOMAIN P[i] = {"id", "name", "pins"} /\ IsSeq(P[i].pins)
      /\ \A i, j \in DOMAIN P : P[i].id = P[j].id => i = j
  BY DEF EditorInv, Presets
<1>n. Len(P) \in Nat /\ DOMAIN P = 1..Len(P)
  BY <1>q, Counted
<1>a. a \in DOMAIN P /\ P[a].id = first.active
  BY ActivePreset
<1>1. ASSUME NEW id \in PresetIds, Editing!SwitchPreset(id)
      PROVE  EditorStep
  <2>1. /\ DOMAIN first' = EditorFields /\ first'.presets = P /\ first'.active = id
        /\ first'.gesture = first.gesture /\ first'.saving = first.saving
        /\ \E i \in DOMAIN P : P[i].id = id
        /\ ~first'.deleting
    BY <1>1, <1>f DEF Editing!SwitchPreset, EditorFields
  <2>2. Presets(P, id)
    BY <1>q, <2>1 DEF Presets
  <2> QED
    BY <2>1, <2>2, EditorStays, PresetsStay DEF EditorStep
<1>2. ASSUME NEW id \in PresetIds, Editing!NewPreset(id)
      PROVE  EditorStep
  <2> DEFINE new == Editing!Preset(id, <<>>)
             Q == Append(P, new)
  <2>1. /\ DOMAIN first' = EditorFields /\ first'.presets = Q /\ first'.active = id
        /\ first'.gesture = first.gesture /\ first'.saving = first.saving
        /\ \A i \in DOMAIN P : P[i].id # id
        /\ ~first'.deleting
    BY <1>2, <1>f DEF Editing!NewPreset, EditorFields
  <2>2. DOMAIN new = {"id", "name", "pins"} /\ new.id = id /\ new.pins = <<>>
    BY DEF Editing!Preset
  <2> HIDE DEF new
  <2>3. /\ IsSeq(Q) /\ Len(Q) = Len(P) + 1 /\ Q[Len(P) + 1] = new
        /\ \A i \in 1..Len(P) : Q[i] = P[i]
    BY <1>q, Appended
  <2>4. IsSeq(<<>>)
    <3>1. <<>> \in Seq({})
      OBVIOUS
    <3> QED
      BY <3>1 DEF IsSeq
  <2> HIDE DEF Q
  <2>5. DOMAIN Q = 1..Len(P) + 1
    BY <1>n, <2>3, Counted
  <2> HIDE DEF P
  <2>6. \A i \in DOMAIN Q : (i \in DOMAIN P /\ Q[i] = P[i]) \/ (i = Len(P) + 1 /\ Q[i] = new)
    BY <1>n, <2>3, <2>5
  <2>7. Len(P) + 1 \in DOMAIN Q
    BY <1>n, <2>5
  <2>8. \A i \in DOMAIN Q : DOMAIN Q[i] = {"id", "name", "pins"} /\ IsSeq(Q[i].pins)
    BY <1>q, <2>2, <2>4, <2>6
  <2>9. \A i, j \in DOMAIN Q : Q[i].id = Q[j].id => i = j
    BY <1>q, <2>1, <2>2, <2>6
  <2>10. Presets(Q, id)
    BY <2>2, <2>3, <2>7, <2>8, <2>9 DEF Presets
  <2>11. \A i \in DOMAIN P, j \in DOMAIN Q : P[i].id = Q[j].id => Q[j] = P[i]
    BY <1>q, <2>1, <2>2, <2>6
  <2>12. EditorInv'
    BY <2>1, <2>10, EditorStays
  <2>13. Editing!HiddenPinsStay
    BY <2>1, <2>11, PinsStay DEF P
  <2> QED
    BY <2>12, <2>13 DEF EditorStep
<1>3. ASSUME NEW name \in Editing!Named, Editing!TypeName(name)
      PROVE  EditorStep
  <2> DEFINE Q == [P EXCEPT ![a].name = name]
  <2>1. /\ DOMAIN first' = EditorFields /\ first'.presets = Q /\ first'.active = first.active
        /\ first'.gesture = first.gesture /\ first'.saving = first.saving
        /\ first'.deleting = first.deleting
    BY <1>3, <1>f DEF Editing!TypeName, EditorFields
  <2> HIDE DEF P, a
  <2>2. DOMAIN Q = DOMAIN P /\ Q = [i \in DOMAIN P |-> Q[i]]
    OBVIOUS
  <2>3. \A i \in DOMAIN P : i # a => Q[i] = P[i]
    BY <1>a
  <2>4. DOMAIN Q[a] = {"id", "name", "pins"} /\ Q[a].id = P[a].id /\ Q[a].pins = P[a].pins
    BY <1>a, <1>q
  <2> HIDE DEF Q
  <2>5. \A i \in DOMAIN P : /\ Q[i].id = P[i].id /\ Q[i].pins = P[i].pins
                            /\ DOMAIN Q[i] = {"id", "name", "pins"}
    BY <1>q, <2>3, <2>4
  <2>6. IsSeq(Q) /\ Len(Q) = Len(P)
    BY <1>n, <2>2, Enumerated
  <2>7. Presets(Q, first.active)
    BY <1>a, <1>q, <2>2, <2>5, <2>6 DEF Presets
  <2>8. \A i \in DOMAIN P, j \in DOMAIN Q : P[i].id = Q[j].id => Q[j].pins = P[i].pins
    BY <1>q, <2>2, <2>5
  <2>9. EditorInv'
    BY <2>1, <2>6, <2>7, EditorStays DEF EditorInv, P
  <2>10. Editing!HiddenPinsStay
    BY <2>1, <2>8, PinsStay DEF P
  <2> QED
    BY <2>9, <2>10 DEF EditorStep
<1>4. ASSUME Editing!ConfirmDelete
      PROVE  EditorStep
  <2> DEFINE Q == Editing!RemoveAt(P, a)
             n == Len(P)
  <2>1. /\ DOMAIN first' = EditorFields /\ first'.presets = Q /\ first'.active = Q[1].id
        /\ first'.gesture = first.gesture /\ first'.saving = first.saving
        /\ first.deleting /\ ~first'.deleting
    BY <1>4, <1>f DEF Editing!ConfirmDelete, EditorFields
  <2>l. n > 1
    BY <2>1 DEF EditorInv
  <2>2. Q = Less(P, a)
    BY DEF Editing!RemoveAt, Less
  <2> HIDE DEF Q, P, a
  <2>3. /\ IsSeq(Q) /\ Len(Q) = n - 1
        /\ \A k \in 1..a - 1 : Q[k] = P[k]
        /\ \A k \in a..n - 1 : Q[k] = P[k + 1]
    BY <1>a, <1>q, <2>2, Shortened
  <2> HIDE DEF n
  <2>4. n \in Nat /\ DOMAIN P = 1..n
    BY <1>n DEF n
  <2>5. DOMAIN Q = 1..n - 1
    BY <2>3, Counted
  <2> DEFINE from(k) == IF k < a THEN k ELSE k + 1
  <2>6. ASSUME NEW k \in DOMAIN Q
        PROVE  from(k) \in DOMAIN P /\ Q[k] = P[from(k)]
    <3>1. CASE k < a
      BY <1>a, <2>3, <2>4, <2>5, <3>1
    <3>2. CASE ~(k < a)
      BY <1>a, <2>3, <2>4, <2>5, <3>2
    <3> QED
      BY <3>1, <3>2
  <2>7. \A k, l \in DOMAIN Q : from(k) = from(l) => k = l
    BY <1>a, <2>4, <2>5
  <2> HIDE DEF from
  <2>8. 1 \in DOMAIN Q
    BY <2>l, <2>4, <2>5
  <2>9. \A i, j \in DOMAIN Q : Q[i].id = Q[j].id => i = j
    BY <1>q, <2>6, <2>7
  <2>10. \A i \in DOMAIN Q : DOMAIN Q[i] = {"id", "name", "pins"} /\ IsSeq(Q[i].pins)
    BY <1>q, <2>6
  <2>11. Presets(Q, Q[1].id)
    BY <2>3, <2>8, <2>9, <2>10 DEF Presets
  <2>12. \A i \in DOMAIN P, j \in DOMAIN Q : P[i].id = Q[j].id => Q[j] = P[i]
    BY <1>q, <2>6
  <2>13. EditorInv'
    BY <2>1, <2>11, EditorStays
  <2>14. Editing!HiddenPinsStay
    BY <2>1, <2>12, PinsStay DEF P
  <2> QED
    BY <2>13, <2>14 DEF EditorStep
<1> QED
  BY <1>1, <1>2, <1>3, <1>4

\* Every step of the launcher's editor.
LEMMA EditorSteps ==
  ASSUME EditorInv, Editing!Next
  PROVE  EditorInv' /\ Editing!HiddenPinsStay
<1>f. DOMAIN first = EditorFields /\ Presets(first.presets, first.active)
  BY DEF EditorInv, EditorFields
<1>1. ASSUME \/ Editing!OpenPicker \/ Editing!ClosePicker \/ Editing!RenamePreset
             \/ Editing!DeletePreset \/ Editing!KeepPreset \/ Editing!Resume
             \/ \E ref \in Hideable : Editing!AccessChanges(ref)
      PROVE  EditorStep
  <2>1. /\ DOMAIN first' = EditorFields /\ first'.presets = first.presets
        /\ first'.active = first.active /\ first'.gesture = first.gesture
        /\ first'.saving = first.saving
        /\ first'.deleting => first.deleting \/ Len(first.presets) > 1
    BY <1>1, <1>f DEF Editing!OpenPicker, Editing!ClosePicker, Editing!RenamePreset,
       Editing!DeletePreset, Editing!KeepPreset, Editing!Resume, Editing!AccessChanges,
       EditorFields
  <2> QED
    BY <1>f, <2>1, EditorStays, PresetsStay DEF EditorStep, EditorInv
<1>2. ASSUME NEW saved \in BOOLEAN, Editing!SaveAnswers(saved)
      PROVE  EditorStep
  <2>1. /\ first.saving # None
        /\ first' = IF saved THEN Editing!Start(first.saving.presets, first.saving.active,
                                                first.hidden)
                    ELSE [first EXCEPT !.saving = None]
    BY <1>2 DEF Editing!SaveAnswers
  <2>2. Editing!HiddenPinsStay
    BY <2>1 DEF Editing!HiddenPinsStay
  <2>3. CASE saved
    <3>1. /\ DOMAIN first' = EditorFields /\ first'.presets = first.saving.presets
          /\ first'.active = first.saving.active /\ first'.gesture = None
          /\ first'.saving = None /\ ~first'.deleting
      BY <2>1, <2>3 DEF Editing!Start, EditorFields
    <3>2. Presets(first.saving.presets, first.saving.active)
      BY <2>1 DEF EditorInv
    <3> QED
      BY <2>2, <3>1, <3>2, EditorStays DEF EditorStep
  <2>4. CASE ~saved
    <3>1. /\ DOMAIN first' = EditorFields /\ first'.presets = first.presets
          /\ first'.active = first.active /\ first'.gesture = first.gesture
          /\ first'.saving = None /\ first'.deleting = first.deleting
      BY <2>1, <2>4, <1>f DEF EditorFields
    <3> QED
      BY <1>f, <2>2, <3>1, EditorStays DEF EditorStep, EditorInv
  <2> QED
    BY <2>3, <2>4
<1>3. ASSUME Editing!Save \/ Editing!Suspend
      PROVE  EditorStep
  <2> DEFINE e == Editing!Finish(TRUE)
  <2>1. /\ DOMAIN e = EditorFields /\ Presets(e.presets, e.active) /\ e.gesture = None
        /\ e.saving = first.saving /\ (first.gesture = None => e.presets = first.presets)
        /\ e.deleting = first.deleting /\ Len(e.presets) = Len(first.presets)
    BY FinishedParts
  <2>2. \/ first' = [e EXCEPT !.saving = [presets |-> first.presets, active |-> first.active]]
        \/ first' = [e EXCEPT !.suspended = TRUE]
    BY <1>3 DEF Editing!Save, Editing!Saving, Editing!Suspend
  <2> HIDE DEF e
  <2>3. /\ DOMAIN first' = EditorFields /\ first'.presets = e.presets
        /\ first'.active = e.active /\ first'.gesture = None
        /\ first'.deleting = first.deleting
        /\ \/ first'.saving = first.saving
           \/ /\ first'.saving.presets = first.presets
              /\ first'.saving.active = first.active
    BY <2>1, <2>2 DEF EditorFields
  <2>4. EditorInv'
    BY <1>f, <2>1, <2>3 DEF EditorInv, EditorFields
  <2>5. CASE first.gesture # None
    BY <2>3, <2>4, <2>5, LetGo DEF EditorStep
  <2>6. CASE first.gesture = None
    BY <2>1, <2>3, <2>4, <2>6, PresetsStay DEF EditorStep
  <2> QED
    BY <2>5, <2>6
<1>4. EditorStep
  BY <1>1, <1>2, <1>3, GestureSteps, TileSteps, PresetSteps DEF Editing!Next
<1> QED
  BY <1>4 DEF EditorStep

-------------------------------------------------------------------------------
(* The views in the dock.                                                      *)

\* The questions that views have been asked.
ExitsTyped(exits) ==
  IsSeq(exits) /\ \A i \in DOMAIN exits : DOMAIN exits[i] = {"of", "next", "current"}

\* Questions that are void do not count.
LEMMA VoidCounts ==
  ASSUME NEW exits, ExitsTyped(exits), NEW view
  PROVE  ExitsTyped(Dock!Void(exits)) /\ Counts(Dock!Void(exits), view)
<1> DEFINE void == Dock!Void(exits)
<1>1. Len(exits) \in Nat /\ DOMAIN exits = 1..Len(exits)
  BY Counted DEF ExitsTyped
<1>2. void = [i \in DOMAIN exits |-> [exits[i] EXCEPT !.current = FALSE]]
  BY DEF Dock!Void
<1>3. \A i \in DOMAIN exits : DOMAIN void[i] = {"of", "next", "current"} /\ ~void[i].current
  BY <1>2 DEF ExitsTyped
<1>4. DOMAIN void = 1..Len(exits) /\ void = [i \in 1..Len(exits) |-> void[i]]
  BY <1>1, <1>2
<1> HIDE DEF void
<1>5. IsSeq(void)
  BY <1>1, <1>4, Enumerated
<1> QED
  BY <1>1, <1>3, <1>4, <1>5 DEF ExitsTyped, Counts, void

\* What is given back of the focus leaves the view and its questions alone.
LEMMA DockReturns ==
  ASSUME NEW d, DOMAIN d = {"offered", "cover", "failed", "shown", "menu", "exits", "ready",
                            "focus", "owed"}
  PROVE  LET r == Dock!Return(d)
         IN  /\ DOMAIN r = DOMAIN d /\ r.offered = d.offered /\ r.cover = d.cover
             /\ r.shown = d.shown /\ r.exits = d.exits
BY DEF Dock!Return

\* A view that is left is no longer shown.
LEMMA DockLeaves ==
  ASSUME NEW d, DOMAIN d = {"offered", "cover", "failed", "shown", "menu", "exits", "ready",
                            "focus", "owed"}
  PROVE  LET r == Dock!Leave(d)
         IN  /\ DOMAIN r = DOMAIN d /\ r.offered = d.offered /\ r.cover = d.cover
             /\ r.shown = None /\ r.exits = d.exits
BY DEF Dock!Leave

\* Opening a view leaves what is in question alone.
LEMMA DockOpens ==
  ASSUME NEW d, DOMAIN d = {"offered", "cover", "failed", "shown", "menu", "exits", "ready",
                            "focus", "owed"}, NEW v
  PROVE  LET r == Dock!Open(d, v)
         IN  /\ DOMAIN r = DOMAIN d /\ r.exits = d.exits
BY DEF Dock!Open

\* Whatever is rendered, what then counts is about the view as it then is.
LEMMA DockCommits ==
  ASSUME DockInv, NEW next, DOMAIN next = DOMAIN first, ExitsTyped(next.exits),
         Counts(next.exits, Dock!Visible), Dock!Commit(next)
  PROVE  /\ DockInv'
         /\ next.shown = first.shown /\ next.offered = first.offered =>
              first'.shown = first.shown
<1> DEFINE gone == next.shown # None /\ next.shown.view \notin next.offered
           kept == IF gone THEN Dock!Leave(next) ELSE next
           new  == Dock!Active(kept) # Dock!Active(first)
           exits == Dock!Lease(first, kept, kept.exits)
           d == [kept EXCEPT !.exits = exits,
                   !.ready = @ /\ ~(new /\ (Dock!Active(kept) = None) # (Dock!Visible = None))]
<1>0. DOMAIN next = {"offered", "cover", "failed", "shown", "menu", "exits", "ready",
                     "focus", "owed"}
  BY DEF DockInv
<1>1. first' = Dock!Return(d)
  BY DEF Dock!Commit
<1>2. /\ DOMAIN kept = DOMAIN next /\ kept.exits = next.exits /\ kept.offered = next.offered
      /\ kept.shown # None => kept.shown.view \in kept.offered
      /\ ~gone => kept = next
  BY <1>0, DockLeaves
<1>3. next.shown = first.shown /\ next.offered = first.offered => ~gone
  BY DEF DockInv
<1> HIDE DEF kept, gone
<1>4. DOMAIN d = DOMAIN next
  BY <1>2
<1>5. /\ d.exits = exits /\ d.offered = kept.offered
      /\ d.shown = kept.shown /\ d.cover = kept.cover
  BY <1>0, <1>2
<1> HIDE DEF d, new
<1>6. /\ DOMAIN first' = DOMAIN next /\ first'.exits = exits /\ first'.offered = kept.offered
      /\ first'.shown = kept.shown /\ first'.cover = kept.cover
  BY <1>0, <1>1, <1>4, <1>5, DockReturns
<1>7. Dock!Visible' = Dock!Active(kept)
  BY <1>6 DEF Dock!Visible, Dock!Active
<1>8. ExitsTyped(exits) /\ Counts(exits, Dock!Active(kept))
  <2>1. CASE Dock!Active(first) # Dock!Active(kept)
    <3>1. exits = Dock!Void(next.exits)
      BY <1>2, <2>1 DEF Dock!Lease
    <3> HIDE DEF exits
    <3> QED
      BY <3>1, VoidCounts
  <2>2. CASE Dock!Active(first) = Dock!Active(kept)
    <3>1. exits = next.exits
      BY <1>2, <2>2 DEF Dock!Lease
    <3> HIDE DEF exits
    <3> QED
      BY <2>2, <3>1 DEF Dock!Visible
  <2> QED
    BY <2>1, <2>2
<1> HIDE DEF exits
<1>9. DockInv'
  BY <1>0, <1>2, <1>6, <1>7, <1>8 DEF DockInv, ExitsTyped
<1> QED
  BY <1>2, <1>3, <1>6, <1>9

\* What changes nothing in question.
LEMMA DockGoesOn ==
  ASSUME DockInv, NEW next, DOMAIN next = DOMAIN first, next.exits = first.exits,
         Dock!Commit(next)
  PROVE  DockInv'
<1>1. ExitsTyped(next.exits) /\ Counts(next.exits, Dock!Visible)
  BY DEF DockInv, ExitsTyped
<1> QED
  BY <1>1, DockCommits

\* The dock as it is first.
LEMMA DockStarts ==
  ASSUME Dock!Init
  PROVE  DockInv
<1>1. DOMAIN first = {"offered", "cover", "failed", "shown", "menu", "exits", "ready", "focus",
                      "owed"} /\ first.shown = None /\ first.exits = <<>>
  BY DEF Dock!Init, Dock!Mounted
<1>2. IsSeq(<<>>) /\ DOMAIN <<>> = {}
  BY DEF IsSeq
<1> QED
  BY <1>1, <1>2 DEF DockInv, Counts

\* A view is asked whether it may be left.
LEMMA DockAsks ==
  ASSUME DockInv, NEW next, Dock!RequestExit(next)
  PROVE  DockInv'
<1> DEFINE asked == [first EXCEPT !.exits = Dock!Void(first.exits)]
           done == IF next # None THEN Dock!Open(asked, next) ELSE Dock!Leave(asked)
           exit == [of |-> Dock!Visible, next |-> next, current |-> TRUE]
           more == [asked EXCEPT !.exits = Append(@, exit)]
<1>0. DOMAIN first = {"offered", "cover", "failed", "shown", "menu", "exits", "ready", "focus",
                      "owed"} /\ ExitsTyped(first.exits)
  BY DEF DockInv, ExitsTyped
<1>1. /\ DOMAIN asked = DOMAIN first
      /\ ExitsTyped(asked.exits) /\ Counts(asked.exits, Dock!Visible)
      /\ asked.exits = Dock!Void(first.exits)
  BY <1>0, VoidCounts
<1>2. \/ Dock!Commit(done) \/ Dock!Commit(asked) \/ Dock!Commit(more)
  BY DEF Dock!RequestExit
<1>3. Dock!Visible # None
  BY DEF Dock!RequestExit
<1> HIDE DEF asked
<1>4. DOMAIN done = DOMAIN first /\ done.exits = asked.exits
  BY <1>0, <1>1, DockOpens, DockLeaves
<1>5. CASE Dock!Commit(more)
  <2>1. DOMAIN more = DOMAIN first /\ more.exits = Append(asked.exits, exit)
    BY <1>0, <1>1
  <2>2. /\ IsSeq(more.exits) /\ Len(more.exits) = Len(asked.exits) + 1
        /\ \A i \in 1..Len(asked.exits) : more.exits[i] = asked.exits[i]
        /\ more.exits[Len(asked.exits) + 1] = exit
    BY <1>1, <2>1, Appended DEF ExitsTyped
  <2>3. /\ Len(asked.exits) \in Nat /\ DOMAIN asked.exits = 1..Len(asked.exits)
        /\ DOMAIN more.exits = 1..Len(more.exits)
    BY <1>1, <2>2, Counted DEF ExitsTyped
  <2>4. \A i \in DOMAIN asked.exits : ~asked.exits[i].current
    BY <1>0, <1>1 DEF Dock!Void, ExitsTyped
  <2>5. DOMAIN exit = {"of", "next", "current"} /\ exit.of = Dock!Visible
    OBVIOUS
  <2> HIDE DEF exit, more
  <2>6. ASSUME NEW i \in DOMAIN more.exits
        PROVE  /\ DOMAIN more.exits[i] = {"of", "next", "current"}
               /\ more.exits[i].current =>
                    i = Len(more.exits) /\ more.exits[i].of = Dock!Visible
    <3>1. CASE i \in 1..Len(asked.exits)
      BY <1>1, <2>2, <2>3, <2>4, <3>1 DEF ExitsTyped
    <3>2. CASE i = Len(asked.exits) + 1
      BY <2>2, <2>5, <3>2
    <3> QED
      BY <2>2, <2>3, <3>1, <3>2
  <2>7. ExitsTyped(more.exits) /\ Counts(more.exits, Dock!Visible)
    BY <1>3, <2>2, <2>6 DEF ExitsTyped, Counts
  <2> QED
    BY <1>5, <2>1, <2>7, DockCommits
<1> HIDE DEF done, more, exit
<1> QED
  BY <1>1, <1>2, <1>4, <1>5, DockCommits

\* A view answers; what it answers too late does nothing.
LEMMA DockAnswers ==
  ASSUME DockInv, NEW i, NEW allowed, Dock!Answers(i, allowed)
  PROVE  /\ DockInv'
         /\ first'.shown # first.shown =>
              i = Len(first.exits) /\ first.shown = first.exits[i].of /\ Dock!Visible # None
<1> DEFINE exit == first.exits[i]
           rest == SubSeq(first.exits, 1, i - 1)
                     \o SubSeq(first.exits, i + 1, Len(first.exits))
           told == [first EXCEPT !.exits = rest]
           next == IF ~(allowed /\ exit.current) THEN told
                   ELSE IF exit.next = None THEN Dock!Leave(told)
                   ELSE Dock!Open(told, exit.next)
<1>0. DOMAIN first = {"offered", "cover", "failed", "shown", "menu", "exits", "ready", "focus",
                      "owed"} /\ ExitsTyped(first.exits) /\ Counts(first.exits, Dock!Visible)
  BY DEF DockInv, ExitsTyped
<1>1. i \in DOMAIN first.exits /\ Dock!Commit(next)
  BY DEF Dock!Answers
<1>2. rest = Less(first.exits, i)
  BY DEF Less
<1>3. DOMAIN told = DOMAIN first /\ told.exits = rest
  BY <1>0
<1>4. told.shown = first.shown /\ told.offered = first.offered
  BY <1>0
<1> HIDE DEF rest, told
<1>5. DOMAIN next = DOMAIN first /\ next.exits = rest
  BY <1>0, <1>3, DockOpens, DockLeaves
<1>6. ExitsTyped(rest) /\ Counts(rest, Dock!Visible)
  <2> DEFINE n == Len(first.exits)
  <2>1. n \in Nat /\ DOMAIN first.exits = 1..n
    BY <1>0, Counted DEF ExitsTyped
  <2>2. /\ IsSeq(rest) /\ Len(rest) = n - 1
        /\ \A k \in 1..i - 1 : rest[k] = first.exits[k]
        /\ \A k \in i..n - 1 : rest[k] = first.exits[k + 1]
    BY <1>0, <1>1, <1>2, Shortened DEF ExitsTyped
  <2>3. DOMAIN rest = 1..n - 1
    BY <2>2, Counted
  <2> HIDE DEF n
  <2>4. ASSUME NEW k \in DOMAIN rest
        PROVE  /\ DOMAIN rest[k] = {"of", "next", "current"}
               /\ rest[k].current =>
                    k = Len(rest) /\ Dock!Visible # None /\ rest[k].of = Dock!Visible
    <3>1. CASE k \in 1..i - 1
      <4>1. k \in 1..n /\ k # n
        BY <1>1, <2>1, <3>1
      <4>2. rest[k] = first.exits[k]
        BY <2>2, <3>1
      <4> QED
        BY <1>0, <2>1, <4>1, <4>2 DEF ExitsTyped, Counts, n
    <3>2. CASE k \in i..n - 1
      <4>1. k + 1 \in 1..n /\ (k + 1 = n => k = n - 1)
        BY <1>1, <2>1, <3>2
      <4>2. rest[k] = first.exits[k + 1]
        BY <2>2, <3>2
      <4> QED
        BY <1>0, <2>1, <2>2, <4>1, <4>2 DEF ExitsTyped, Counts, n
    <3> QED
      BY <1>1, <2>1, <2>3, <3>1, <3>2
  <2> QED
    BY <2>2, <2>4 DEF ExitsTyped, Counts
<1>7. DockInv' /\ (next.shown = first.shown /\ next.offered = first.offered =>
                     first'.shown = first.shown)
  BY <1>1, <1>5, <1>6, DockCommits
<1>8. ~exit.current => next = told
  OBVIOUS
<1>9. exit.current => i = Len(first.exits) /\ Dock!Visible # None /\ exit.of = Dock!Visible
  BY <1>0, <1>1 DEF Counts
<1>10. Dock!Visible # None => Dock!Visible = first.shown
  BY DEF Dock!Visible, Dock!Active
<1> HIDE DEF next
<1> QED
  BY <1>4, <1>7, <1>8, <1>9, <1>10

\* What the person does with the entries, the menu and the view.
LEMMA DockIsUsed ==
  ASSUME DockInv,
         \/ Dock!BackButton \/ Dock!Expand \/ Dock!Collapse \/ Dock!Escape \/ Dock!OpenMenu
         \/ Dock!MenuClosed
         \/ \E v : Dock!InvokeEntry(v) \/ Dock!ChooseInMenu(v)
         \/ \E where : Dock!MoveFocus(where)
  PROVE  DockInv'
<1>0. DOMAIN first = {"offered", "cover", "failed", "shown", "menu", "exits", "ready", "focus",
                      "owed"}
  BY DEF DockInv
<1>1. CASE Dock!BackButton
  BY <1>1, DockAsks DEF Dock!BackButton
<1>2. CASE Dock!Expand
  <2>1. Dock!Commit([first EXCEPT !.shown.expanded = TRUE])
    BY <1>2 DEF Dock!Expand
  <2> QED
    BY <1>0, <2>1, DockGoesOn
<1>3. CASE Dock!Collapse
  <2>1. Dock!Commit([first EXCEPT !.shown.expanded = FALSE, !.focus = "view"])
    BY <1>3 DEF Dock!Collapse
  <2> QED
    BY <1>0, <2>1, DockGoesOn
<1>4. CASE Dock!Escape
  BY <1>3, <1>4, DockAsks DEF Dock!Escape
<1>5. CASE Dock!OpenMenu
  <2>1. Dock!Commit([first EXCEPT !.menu = "open", !.focus = "dock", !.owed = None])
    BY <1>5 DEF Dock!OpenMenu
  <2> QED
    BY <1>0, <2>1, DockGoesOn
<1>6. CASE Dock!MenuClosed
  <2> DEFINE d == [first EXCEPT !.menu = None, !.focus = "dock"]
             opened == Dock!Open(d, first.menu)
             closed == [first EXCEPT !.menu = None]
  <2>1. Dock!Commit(opened) \/ Dock!Commit(closed)
    BY <1>6 DEF Dock!MenuClosed
  <2>2. DOMAIN d = DOMAIN first /\ d.exits = first.exits
    BY <1>0
  <2> HIDE DEF d
  <2>3. DOMAIN opened = DOMAIN first /\ opened.exits = first.exits
    BY <1>0, <2>2, DockOpens
  <2>4. DOMAIN closed = DOMAIN first /\ closed.exits = first.exits
    BY <1>0
  <2> HIDE DEF opened, closed
  <2> QED
    BY <2>1, <2>3, <2>4, DockGoesOn
<1>7. ASSUME NEW v, Dock!InvokeEntry(v)
      PROVE  DockInv'
  <2> DEFINE opened == Dock!Open(first, v)
  <2>1. Dock!Commit(opened) \/ Dock!RequestExit(v)
    BY <1>7 DEF Dock!InvokeEntry
  <2>2. DOMAIN opened = DOMAIN first /\ opened.exits = first.exits
    BY <1>0, DockOpens
  <2> HIDE DEF opened
  <2> QED
    BY <2>1, <2>2, DockGoesOn, DockAsks
<1>8. ASSUME NEW v, Dock!ChooseInMenu(v)
      PROVE  DockInv'
  <2>1. Dock!Commit([first EXCEPT !.menu = v])
    BY <1>8 DEF Dock!ChooseInMenu
  <2> QED
    BY <1>0, <2>1, DockGoesOn
<1>9. ASSUME NEW where, Dock!MoveFocus(where)
      PROVE  DockInv'
  <2>1. Dock!Commit([first EXCEPT !.focus = where, !.owed = None])
    BY <1>9 DEF Dock!MoveFocus
  <2> QED
    BY <1>0, <2>1, DockGoesOn
<1> QED
  BY <1>1, <1>2, <1>3, <1>4, <1>5, <1>6, <1>7, <1>8, <1>9

\* What happens to the dock.
LEMMA DockIsServed ==
  ASSUME DockInv,
         \/ Dock!Settles \/ Dock!Lapses \/ Dock!Navigate \/ Dock!ChangeScope
         \/ \E v : Dock!Withdraw(v) \/ Dock!Offer(v) \/ Dock!Fail(v)
         \/ \E by : Dock!Cover(by)
  PROVE  DockInv'
<1>0. DOMAIN first = {"offered", "cover", "failed", "shown", "menu", "exits", "ready", "focus",
                      "owed"} /\ ExitsTyped(first.exits) /\ Counts(first.exits, Dock!Visible)
  BY DEF DockInv, ExitsTyped
<1>1. CASE Dock!Settles
  <2>1. PICK next : /\ DOMAIN next = DOMAIN first /\ next.exits = first.exits
                    /\ Dock!Commit(next)
    <3> DEFINE next == [first EXCEPT !.ready = TRUE,
               !.focus = IF Dock!Visible # None /\ @ \in {"body", "dock"} THEN "view" ELSE @]
    <3>1. Dock!Commit(next)
      BY <1>1 DEF Dock!Settles
    <3>2. DOMAIN next = DOMAIN first /\ next.exits = first.exits
      BY <1>0
    <3> HIDE DEF next
    <3> QED
      BY <3>1, <3>2
  <2> QED
    BY <2>1, DockGoesOn
<1>2. CASE Dock!Lapses
  <2>1. /\ DOMAIN first' = DOMAIN first /\ first'.offered = first.offered
        /\ first'.shown = first.shown /\ first'.exits = first.exits
        /\ first'.cover = first.cover
    BY <1>0, <1>2 DEF Dock!Lapses
  <2>2. Dock!Visible' = Dock!Visible
    BY <2>1 DEF Dock!Visible, Dock!Active
  <2> QED
    BY <2>1, <2>2 DEF DockInv
<1>3. CASE Dock!Navigate
  <2> DEFINE next == Dock!Leave(first)
  <2>1. Dock!Commit(next)
    BY <1>3 DEF Dock!Navigate
  <2>2. DOMAIN next = DOMAIN first /\ next.exits = first.exits
    BY <1>0, DockLeaves
  <2> HIDE DEF next
  <2> QED
    BY <2>1, <2>2, DockGoesOn
<1>4. CASE Dock!ChangeScope
  <2> DEFINE void == Dock!Void(first.exits)
  <2>1. first' = Dock!Mounted(first.offered, void)
    BY <1>4 DEF Dock!ChangeScope
  <2>2. ExitsTyped(void) /\ Counts(void, None)
    BY <1>0, VoidCounts
  <2> HIDE DEF void
  <2>3. /\ DOMAIN first' = DOMAIN first /\ first'.shown = None /\ first'.exits = void
        /\ first'.cover = "none"
    BY <1>0, <2>1 DEF Dock!Mounted
  <2>4. Dock!Visible' = None
    BY <2>3 DEF Dock!Visible, Dock!Active
  <2> QED
    BY <1>0, <2>2, <2>3, <2>4 DEF DockInv, ExitsTyped
<1>5. ASSUME NEW v, Dock!Withdraw(v)
      PROVE  DockInv'
  <2>1. Dock!Commit([first EXCEPT !.offered = @ \ {v}, !.failed = @ \ {v}])
    BY <1>5 DEF Dock!Withdraw
  <2> QED
    BY <1>0, <2>1, DockGoesOn
<1>6. ASSUME NEW v, Dock!Offer(v)
      PROVE  DockInv'
  <2>1. Dock!Commit([first EXCEPT !.offered = @ \cup {v}])
    BY <1>6 DEF Dock!Offer
  <2> QED
    BY <1>0, <2>1, DockGoesOn
<1>7. ASSUME NEW v, Dock!Fail(v)
      PROVE  DockInv'
  <2> DEFINE next == [first EXCEPT !.failed = @ \cup {v}, !.exits = Dock!Void(@)]
  <2>1. Dock!Commit(next)
    BY <1>7 DEF Dock!Fail
  <2>2. DOMAIN next = DOMAIN first /\ next.exits = Dock!Void(first.exits)
    BY <1>0
  <2> HIDE DEF next
  <2>3. ExitsTyped(next.exits) /\ Counts(next.exits, Dock!Visible)
    BY <1>0, <2>2, VoidCounts
  <2> QED
    BY <2>1, <2>2, <2>3, DockCommits
<1>8. ASSUME NEW by, Dock!Cover(by)
      PROVE  DockInv'
  <2> DEFINE next == [first EXCEPT !.cover = by, !.menu = IF by = "none" THEN @ ELSE None]
  <2>1. Dock!Commit(next)
    BY <1>8 DEF Dock!Cover
  <2>2. DOMAIN next = DOMAIN first /\ next.exits = first.exits
    BY <1>0
  <2> HIDE DEF next
  <2> QED
    BY <2>1, <2>2, DockGoesOn
<1> QED
  BY <1>1, <1>2, <1>3, <1>4, <1>5, <1>6, <1>7, <1>8

\* Every step keeps the invariant, and only an answer in time takes a view away.
LEMMA DockSteps ==
  ASSUME DockInv, Dock!Next
  PROVE  DockInv' /\ Dock!LateAnswersAreHarmless
<1>1. DockInv'
  BY DockIsUsed, DockIsServed, DockAnswers DEF Dock!Next
<1>2. Dock!LateAnswersAreHarmless
  BY DockAnswers DEF Dock!LateAnswersAreHarmless
<1> QED
  BY <1>1, <1>2

-------------------------------------------------------------------------------
(* The tables' controls.                                                       *)

\* What there is to know of the tables.
HostInv ==
  DOMAIN first = {"entries", "active", "explicit", "locked", "pending", "waited", "focus",
                  "scroll", "pressed", "overlay", "search"}

\* The host as it is first.
LEMMA HostStarts ==
  ASSUME Tables!HostInit
  PROVE  HostInv
BY DEF Tables!HostInit, HostInv

\* What is set up anew keeps the controls where they are, or gives them up.
LEMMA HostRenewed ==
  ASSUME HostInv, NEW entries, NEW explicit
  PROVE  LET next == Tables!Renewed(entries, explicit)
         IN  /\ DOMAIN next = DOMAIN first
             /\ next.active = first.active \/ next.active = None
BY DEF Tables!Renewed, HostInv

\* So does what is torn down with a table.
LEMMA HostTorn ==
  ASSUME HostInv, NEW t, NEW next, DOMAIN next = DOMAIN first
  PROVE  LET torn == Tables!Torn(t, next)
         IN  DOMAIN torn = DOMAIN first /\ torn.active = next.active
BY DEF Tables!Torn, HostInv

\* While they are held the controls stay with their table, or are nobody's.
LEMMA ControlsStay ==
  ASSUME HostInv, Tables!HostNext
  PROVE  HostInv' /\ Tables!ControlsStayPut
<1> USE DEF HostInv
<1>1. CASE Tables!EvaluateContext
  <2>1. PICK next \in Tables!ChooseTableContext :
          /\ DOMAIN first' = DOMAIN first
          /\ first'.active = next \/ first'.active = first.active
    <3>1. PICK next \in Tables!ChooseTableContext :
            first' = IF Tables!Immediate(next) \/ (next = first.pending /\ first.waited)
               THEN [first EXCEPT !.active = next, !.pending = next,
                       !.waited = @ /\ next = first.pending,
                       !.search = @ /\ next = first.active]
               ELSE [first EXCEPT !.pending = next,
                       !.waited = @ /\ next = first.pending]
      BY <1>1 DEF Tables!EvaluateContext
    <3>2. CASE first' = [first EXCEPT !.active = next, !.pending = next,
                       !.waited = @ /\ next = first.pending,
                       !.search = @ /\ next = first.active]
      BY <3>2
    <3>3. CASE first' = [first EXCEPT !.pending = next,
                       !.waited = @ /\ next = first.pending]
      BY <3>3
    <3> QED
      BY <3>1, <3>2, <3>3
  <2>2. Tables!Held => next = first.active
    BY <2>1 DEF Tables!ChooseTableContext
  <2> QED
    BY <2>1, <2>2 DEF Tables!ControlsStayPut
<1>2. CASE /\ DOMAIN first' = DOMAIN first
           /\ first'.active \in {first.active, Tables!Gone, None}
  BY <1>2 DEF Tables!ControlsStayPut
<1>3. CASE \/ Tables!DwellPasses \/ Tables!Unlock \/ Tables!Press \/ Tables!Release
           \/ Tables!OpenFilters \/ Tables!OpenMenu \/ Tables!OpenDialog
  <2>1. DOMAIN first' = DOMAIN first /\ first'.active = first.active
    BY <1>3 DEF Tables!DwellPasses, Tables!Unlock, Tables!Press, Tables!Release,
       Tables!OpenFilters, Tables!OpenMenu, Tables!OpenDialog
  <2> QED
    BY <1>2, <2>1
<1>4. CASE \/ Tables!CloseOverlay \/ Tables!OpenSearch \/ Tables!CollapseSearch
           \/ \E t : Tables!Lock(t) \/ Tables!Focus(t) \/ Tables!Scroll(t)
  <2>1. DOMAIN first' = DOMAIN first /\ first'.active = first.active
    BY <1>4 DEF Tables!CloseOverlay, Tables!OpenSearch, Tables!CollapseSearch, Tables!Lock,
       Tables!Focus, Tables!Scroll
  <2> QED
    BY <1>2, <2>1
<1>5. ASSUME NEW t, Tables!Register(t) \/ Tables!Choose(t)
      PROVE  HostInv' /\ Tables!ControlsStayPut
  <2>1. CASE Tables!Register(t)
    <3>1. first' = Tables!Renewed(first.entries \cup {t}, first.explicit)
      BY <2>1 DEF Tables!Register
    <3> QED
      BY <1>2, <3>1, HostRenewed
  <2>2. CASE Tables!Choose(t)
    <3> DEFINE next == Tables!Renewed(first.entries, t)
    <3>1. first' = [next EXCEPT !.overlay = IF @ = "menu" THEN "none" ELSE @]
      BY <2>2 DEF Tables!Choose
    <3>2. DOMAIN next = DOMAIN first /\ (next.active = first.active \/ next.active = None)
      BY HostRenewed
    <3> HIDE DEF next
    <3> QED
      BY <1>2, <3>1, <3>2
  <2> QED
    BY <1>5, <2>1, <2>2
<1>6. ASSUME NEW t, Tables!Unregister(t)
      PROVE  HostInv' /\ Tables!ControlsStayPut
  <2> DEFINE renewed == Tables!Renewed(first.entries \ {t}, first.explicit)
             next == [renewed EXCEPT !.active = IF @ = t THEN Tables!Gone ELSE @,
                                     !.locked = IF @ = t THEN None ELSE @,
                                     !.focus  = IF @ = t THEN "body" ELSE @]
  <2>1. first' = Tables!Torn(t, next)
    BY <1>6 DEF Tables!Unregister
  <2>2. /\ DOMAIN renewed = DOMAIN first
        /\ renewed.active = first.active \/ renewed.active = None
    BY HostRenewed
  <2> HIDE DEF renewed
  <2>3. /\ DOMAIN next = DOMAIN first
        /\ next.active \in {first.active, Tables!Gone, None}
    BY <2>2
  <2> HIDE DEF next
  <2>4. DOMAIN first' = DOMAIN first /\ first'.active = next.active
    BY <2>1, <2>3, HostTorn
  <2> QED
    BY <1>2, <2>3, <2>4
<1>7. ASSUME NEW t, Tables!ScopeChanges(t)
      PROVE  HostInv' /\ Tables!ControlsStayPut
  <2> DEFINE renewed == Tables!Renewed(first.entries,
                                       IF first.explicit = t THEN None ELSE first.explicit)
             next == [renewed EXCEPT !.active = IF @ = t THEN Tables!Gone ELSE @]
  <2>1. first' = Tables!Torn(t, next)
    BY <1>7 DEF Tables!ScopeChanges
  <2>2. /\ DOMAIN renewed = DOMAIN first
        /\ renewed.active = first.active \/ renewed.active = None
    BY HostRenewed
  <2> HIDE DEF renewed
  <2>3. /\ DOMAIN next = DOMAIN first
        /\ next.active \in {first.active, Tables!Gone, None}
    BY <2>2
  <2> HIDE DEF next
  <2>4. DOMAIN first' = DOMAIN first /\ first'.active = next.active
    BY <2>1, <2>3, HostTorn
  <2> QED
    BY <1>2, <2>3, <2>4
<1> QED
  BY <1>1, <1>3, <1>4, <1>5, <1>6, <1>7 DEF Tables!HostNext

-------------------------------------------------------------------------------
(* What an admitted page has read.                                            *)

\* Rendering takes away nothing that has been read.
LEMMA RenderedKeeps ==
  ASSUME AdmittedInv, NEW p, DOMAIN p = DOMAIN first, first' = Admitted!Rendered(p)
  PROVE  /\ first'.cached = p.cached /\ first'.live = p.live
         /\ first'.admission = p.admission
<1>1. DOMAIN p = {"admission", "mounts", "location", "pending", "travel", "loads", "shown",
                  "styles", "arrived", "live", "runtimes", "cached", "reading"}
  BY DEF AdmittedInv
<1> DEFINE q == Admitted!Rendered(p)
<1>2. q.cached = p.cached /\ q.live = p.live /\ q.admission = p.admission
  BY <1>1, RenderedParts
<1>3. first' = q
  OBVIOUS
<1> QED
  BY <1>2, <1>3

\* What has been read stays while the admission does.
LEMMA DataStays ==
  ASSUME AdmittedInv, Admitted!Next
  PROVE  Admitted!DataIsKept
<1>0. /\ DOMAIN first = {"admission", "mounts", "location", "pending", "travel", "loads", "shown",
                        "styles", "arrived", "live", "runtimes", "cached", "reading"}
      /\ first.admission \in Nat
  BY DEF AdmittedInv
<1>1. CASE first'.cached = first.cached
  BY <1>1 DEF Admitted!DataIsKept
<1>2. CASE ~first'.live
  BY <1>2 DEF Admitted!DataIsKept
<1>3. ASSUME NEW mounts, Admitted!Admit(mounts)
      PROVE  Admitted!DataIsKept
  <2> DEFINE gone == Admitted!Retired(first)
             p == [gone EXCEPT !.admission = @ + 1, !.mounts = mounts, !.live = TRUE]
  <2>1. first' = Admitted!Rendered(p)
    BY <1>3 DEF Admitted!Admit
  <2>2. DOMAIN gone = DOMAIN first /\ gone.admission = first.admission
    BY <1>0 DEF Admitted!Retired
  <2> HIDE DEF gone
  <2>3. DOMAIN p = DOMAIN first /\ p.admission = first.admission + 1
    BY <1>0, <2>2
  <2> HIDE DEF p
  <2>4. first'.admission = first.admission + 1
    BY <2>1, <2>3, RenderedKeeps
  <2>5. first'.admission # first.admission
    BY <1>0, <2>4
  <2> QED
    BY <2>5 DEF Admitted!DataIsKept
<1>4. CASE Admitted!SignOut
  <2> DEFINE gone == Admitted!Retired(first)
             p == [gone EXCEPT !.mounts = {}]
  <2>1. first' = Admitted!Rendered(p)
    BY <1>4 DEF Admitted!SignOut
  <2>2. DOMAIN gone = DOMAIN first /\ gone.live = FALSE
    BY <1>0 DEF Admitted!Retired
  <2> HIDE DEF gone
  <2>3. DOMAIN p = DOMAIN first /\ p.live = FALSE
    BY <1>0, <2>2
  <2> HIDE DEF p
  <2>4. first'.live = FALSE
    BY <2>1, <2>3, RenderedKeeps
  <2> QED
    BY <1>2, <2>4
<1>5. CASE Admitted!Retire
  BY <1>0, <1>2, <1>5 DEF Admitted!Retire, Admitted!Retired
<1>6. ASSUME NEW p, DOMAIN p = DOMAIN first, p.cached = first.cached,
             first' = Admitted!Rendered(p)
      PROVE  Admitted!DataIsKept
  BY <1>1, <1>6, RenderedKeeps
<1>7. CASE Admitted!Arrive
  <2> DEFINE p == [first EXCEPT !.location = first.travel.to, !.travel = None,
                                !.arrived = first.travel]
  <2>1. DOMAIN p = DOMAIN first /\ p.cached = first.cached
    BY <1>0
  <2>2. first' = Admitted!Rendered(p)
    BY <1>7 DEF Admitted!Arrive
  <2> HIDE DEF p
  <2> QED
    BY <1>6, <2>1, <2>2
<1>8. ASSUME NEW location, Admitted!Visit(location)
      PROVE  Admitted!DataIsKept
  <2> DEFINE p == [first EXCEPT !.location = location, !.travel = None,
                     !.arrived = IF first.travel # None /\ first.travel.to = location
                                 THEN first.travel ELSE None]
  <2>1. DOMAIN p = DOMAIN first /\ p.cached = first.cached
    BY <1>0
  <2>2. first' = Admitted!Rendered(p)
    BY <1>8 DEF Admitted!Visit
  <2> HIDE DEF p
  <2> QED
    BY <1>6, <2>1, <2>2
<1>9. ASSUME NEW to, NEW value, NEW pending, Admitted!Travel(to, value, pending)
      PROVE  Admitted!DataIsKept
  <2>1. first'.cached = first.cached
    BY <1>0, <1>9 DEF Admitted!Travel, Admitted!Set
  <2> QED
    BY <1>1, <2>1
<1>10. ASSUME NEW key,
              Admitted!Loaded(key) \/ Admitted!NotLoaded(key) \/ Admitted!Read(key)
       PROVE  Admitted!DataIsKept
  <2>1. first'.cached = first.cached
    BY <1>0, <1>10 DEF Admitted!Loaded, Admitted!NotLoaded, Admitted!Read, Admitted!Set
  <2> QED
    BY <1>1, <2>1
<1>11. CASE Admitted!ReadAnswers
  <2>1. PICK more : first'.cached = first.cached \cup more
    BY <1>0, <1>11 DEF Admitted!ReadAnswers, Admitted!Set
  <2> QED
    BY <2>1 DEF Admitted!DataIsKept
<1>12. ASSUME NEW key, NEW segment, Admitted!Go(key, segment)
       PROVE  Admitted!DataIsKept
  BY <1>9, <1>12 DEF Admitted!Go
<1>13. ASSUME NEW key, Admitted!OpenSettings(key)
       PROVE  Admitted!DataIsKept
  BY <1>9, <1>13 DEF Admitted!OpenSettings
<1>14. ASSUME NEW key, NEW href, NEW value, Admitted!OpenWorkspace(key, href, value)
       PROVE  Admitted!DataIsKept
  BY <1>9, <1>14 DEF Admitted!OpenWorkspace
<1> QED
  BY <1>3, <1>4, <1>5, <1>7, <1>8, <1>10, <1>11, <1>12, <1>13, <1>14
     DEF Admitted!Next, Admitted!Refresh

-------------------------------------------------------------------------------
(* The pages together: a behaviour is of one of them, and keeps its invariant. *)

\* Each page's own, while the behaviour is of that page.
PagesInv ==
  /\ surface = "inspect" => PanelInv
  /\ surface = "tools" => ToolInv
  /\ surface = "shell" => ShellInv
  /\ surface = "routes" => RoutesInv /\ RoutesLeft
  /\ surface = "admitted" => AdmittedInv
  /\ surface = "audit" => AuditInv
  /\ surface = "sessions" => AuthInv
  /\ surface = "tasks" => TasksInv
  /\ surface = "administration" => DeskInv
  /\ surface = "schedules" => ScheduleInv
  /\ surface = "actions" => ActionInv
  /\ surface = "setup" => SetupInv
  /\ surface = "watch" => WatchInv
  /\ surface = "resume" => ResumeInv

\* Every page starts with its own.
LEMMA PagesStart ==
  ASSUME Init
  PROVE  PagesInv
BY PanelStarts, ToolStarts, ShellStarts, RoutesStart, AdmittedStarts, AuditStarts, AuthStarts,
   TasksStart, DeskStarts, ScheduleStarts, ActionStarts, SetupStarts, WatchStarts, ResumeStarts
   DEF Init, PagesInv

\* Every step of a page keeps its own.
LEMMA PagesGoOn ==
  ASSUME PagesInv, Next
  PROVE  PagesInv'
BY PanelSteps, ToolSteps, ShellSteps, RoutesSteps, AdmittedSteps, AuditSteps, AuthSteps,
   TasksSteps, DeskSteps, ScheduleSteps, ActionSteps, SetupSteps, WatchSteps, ResumeSteps
   DEF Next, PagesInv

\* The pages stay as they are while nothing happens.
LEMMA PagesRest ==
  ASSUME PagesInv, UNCHANGED vars
  PROVE  PagesInv'
<1>1. /\ surface' = surface /\ first' = first /\ second' = second /\ third' = third
      /\ fourth' = fourth
  BY DEF vars
<1>2. PanelInv' <=> PanelInv
  BY <1>1 DEF PanelInv, PanelTyped, PanelWaits
<1>3. ToolInv' <=> ToolInv
  BY <1>1 DEF ToolInv, ToolTyped, ToolVouches
<1>4. ShellInv' <=> ShellInv
  BY <1>1 DEF ShellInv, ShellTyped, Shell!PreferencesAreOwn
<1>5. (RoutesInv /\ RoutesLeft)' <=> RoutesInv /\ RoutesLeft
  BY <1>1 DEF RoutesInv, RoutesLeft
<1>6. AdmittedInv' <=> AdmittedInv
  BY <1>1 DEF AdmittedInv, Admitted!PagesAreTheirOwn
<1>7. AuditInv' <=> AuditInv
  BY <1>1 DEF AuditInv, Lists!ShowsWhatWasAsked
<1>8. AuthInv' <=> AuthInv
  <2>1. (AuthTyped' <=> AuthTyped) /\ (AuthWaits' <=> AuthWaits)
    BY <1>1 DEF AuthTyped, AuthWaits
  <2>2. Authorizing!AsksAboutWhatIsOpen' <=> Authorizing!AsksAboutWhatIsOpen
    BY <1>1 DEF Authorizing!AsksAboutWhatIsOpen, Authorizing!Revocation
  <2>3. /\ AuthShows(second', first') <=> AuthShows(second, first)
        /\ \A c : AuthCall(c, second', first') <=> AuthCall(c, second, first)
    BY <1>1
  <2> QED
    BY <1>1, <2>1, <2>2, <2>3 DEF AuthInv
<1>9. TasksInv' <=> TasksInv
  BY <1>1 DEF TasksInv, TasksTyped, OneSubmission, DoubtIsShown, Tasks!DialogKeepsItsJob
<1>10. DeskInv' <=> DeskInv
  BY <1>1 DEF DeskInv, DeskTyped, DoubtBlocks, EditsTheRows, RequestsOK
<1>11. ScheduleInv' <=> ScheduleInv
  BY <1>1 DEF ScheduleInv
<1>12. ActionInv' <=> ActionInv
  BY <1>1 DEF ActionInv
<1>13. SetupInv' <=> SetupInv
  BY <1>1 DEF SetupInv
<1>14. WatchInv' <=> WatchInv
  BY <1>1 DEF WatchInv
<1>15. ResumeInv' <=> ResumeInv
  BY <1>1 DEF ResumeInv
<1> QED
  BY <1>1, <1>2, <1>3, <1>4, <1>5, <1>6, <1>7, <1>8, <1>9, <1>10, <1>11, <1>12, <1>13, <1>14,
     <1>15 DEF PagesInv

\* Every page keeps its invariant, whatever the pages, the people and the bounds.
LEMMA AlwaysPagesInv == Spec => []PagesInv
<1>1. PagesInv /\ [Next]_vars => PagesInv'
  BY PagesGoOn, PagesRest
<1> QED
  BY <1>1, PagesStart, PTL DEF Spec

\* What is on the screen belongs to the person, the address, the object and the question it
\* is shown for, in every behaviour of the frame, of admitted pages, of the audit, session and
\* task pages and of the operation contexts.
THEOREM PagesShowTheirOwn == Spec => []ShowsItsOwn
<1>1. PagesInv => ShowsItsOwn
  BY PanelSays, ToolSays, ShellSays, RoutesSay, AdmittedSays, AuditSays, AuthSays, TasksSay
     DEF PagesInv, ShowsItsOwn
<1> QED
  BY <1>1, AlwaysPagesInv, PTL

\* Whatever is lost on the way: after a write nobody confirmed, an administration page sends
\* no other before the reload its operator asks for; when it has been left or rebuilt instead,
\* its successor writes to members, identities and sessions from rows read since then; a
\* session's page revokes no second time; the task page asks nothing more of that job unread.
THEOREM PagesLookFirst == Spec => LooksBeforeRepeating
<1>1. PagesInv /\ [Next]_vars =>
        [/\ surface = "administration" => Administration!LooksBeforeRepeating
         /\ surface = "sessions" => Authorizing!LooksBeforeRevoking
         /\ surface = "tasks" => Tasks!LooksBeforeRepeating]_vars
  BY DeskSteps, AuthSteps, TasksLook DEF PagesInv, Next, DeskActs, AuthActs
<1> QED
  BY <1>1, AlwaysPagesInv, PTL DEF Spec, LooksBeforeRepeating

\* Whatever changes between seeing, asking and being answered: what a page does is what the
\* person saw and chose, on every page the property is about.
THEOREM PagesActAsShown == Spec => ActsOnWhatIsShown
<1>1. PagesInv /\ [Next]_vars =>
        [/\ surface = "administration" => Administration!DecidedOnWhatIs
         /\ surface = "sessions" => Authorizing!ActsOnWhatIsShown
         /\ surface = "schedules" => Scheduling!ChangesWhatWasSeen
         /\ surface = "actions" => Actions!HandlesReachThePage
         /\ surface = "setup" => Setup!NothingIsAssumed
         /\ surface = "resume" => Agent!SessionsStayInTheirScope
         /\ surface = "watch" => Agent!FramesComeInOrder
         /\ surface = "routes" => Routes!LeftPagesMoveNobody]_vars
  BY DeskSteps, AuthSteps, ScheduleSteps, ActionSteps, SetupSteps, ResumeSteps, WatchSteps,
     RoutesSteps DEF PagesInv, Next, DeskActs, AuthActs
<1> QED
  BY <1>1, AlwaysPagesInv, PTL DEF Spec, ActsOnWhatIsShown
\* What the pages keep beside it, each its own.
KeepsInv ==
  /\ surface = "administration" => SecretInv
  /\ surface = "shell" => SavesInv
  /\ surface = "board" => BoardInv
  /\ surface = "presets" => EditorInv
  /\ surface = "dock" => DockInv
  /\ surface = "controls" => HostInv

\* Every page starts with it.
LEMMA KeepsStart ==
  ASSUME Init
  PROVE  KeepsInv
BY SecretStarts, SavesStart, BoardStarts, EditingStarts, DockStarts, HostStarts
   DEF Init, KeepsInv

\* Every step of a page keeps it.
LEMMA KeepsGoOn ==
  ASSUME PagesInv, KeepsInv, Next
  PROVE  KeepsInv'
BY SecretSteps, SavesSteps, BoardSteps, EditorSteps, DockSteps, ControlsStay
   DEF Next, PagesInv, KeepsInv

\* It stays while nothing happens.
LEMMA KeepsRest ==
  ASSUME KeepsInv, UNCHANGED vars
  PROVE  KeepsInv'
<1>1. surface' = surface /\ first' = first /\ second' = second
  BY DEF vars
<1>2. SecretInv' <=> SecretInv
  BY <1>1 DEF SecretInv
<1>3. SavesInv' <=> SavesInv
  BY <1>1 DEF SavesInv
<1>4. BoardInv' <=> BoardInv
  <2>1. (MutationsInv' <=> MutationsInv) /\ (DraftInv' <=> DraftInv)
    BY <1>1 DEF MutationsInv, DraftInv
  <2>2. RetryInv' <=> RetryInv
    BY <1>1 DEF RetryInv, Board!Hidden
  <2> QED
    BY <1>1, <2>1, <2>2 DEF BoardInv
<1>5. EditorInv' <=> EditorInv
  BY <1>1 DEF EditorInv
<1>6. DockInv' <=> DockInv
  BY <1>1 DEF DockInv, Dock!Visible
<1>7. HostInv' <=> HostInv
  BY <1>1 DEF HostInv
<1> QED
  BY <1>1, <1>2, <1>3, <1>4, <1>5, <1>6, <1>7 DEF KeepsInv

\* Whatever comes late, and whatever happens beside it: no page takes away what the person is
\* at: a credential shown once, edits that are not saved, pins of destinations hidden for now,
\* the open view of the dock, a table's open controls, what an admitted page has read.
THEOREM PagesLoseNothing == Spec => NothingIsLostUnasked
<1>1. PagesInv /\ KeepsInv /\ [Next]_vars => KeepsInv'
  BY KeepsGoOn, KeepsRest
<1>2. PagesInv /\ KeepsInv /\ [Next]_vars =>
        [/\ surface = "administration" => Administration!CredentialIsSeen
         /\ surface = "shell" => Shell!EditsAreKept
         /\ surface = "board" => Board!EditsAreKept
         /\ surface = "presets" => Editing!HiddenPinsStay
         /\ surface = "dock" => Dock!LateAnswersAreHarmless
         /\ surface = "admitted" => Admitted!DataIsKept
         /\ surface = "controls" => Tables!ControlsStayPut]_vars
  BY SecretSteps, SavesSteps, BoardSteps, EditorSteps, DockSteps, DataStays, ControlsStay
     DEF PagesInv, KeepsInv, Next
<1> QED
  BY <1>1, <1>2, KeepsStart, AlwaysPagesInv, PTL DEF Spec, NothingIsLostUnasked
=============================================================================

---------------------- MODULE AdministrationTokensProofs ----------------------
(* For any request ids, profiles and number of rotations: what a call is told *)
(* of its work is true, and what it is given was his to have when the work   *)
(* was done or later.                                                        *)
EXTENDS AdministrationTokens, TLAPS

--------------------------------------------------------------------------------
(* The scripts: whatever a handler awaits comes between the dispatch and the work, *)
(* and the three kinds of methods differ in how they disclose.               *)

Early == {"authorize", "list", "see", "grant"}
Steps == Early \cup {"prepare", "dispatch", "work", "complete", "deliver", "verify", "disclose"}
Writes == {"tokensRevoke", "sessionsRevoke"}

LEMMA MethodsAre ==
  Methods = {"usersList", "tokensList", "tokensRevoke", "sessionsRevoke", "issue", "rotate"}
BY DEF Methods, Required

LEMMA Concatenated ==
  ASSUME NEW s \in Seq(Steps), NEW t \in Seq(Steps)
  PROVE  /\ s \o t \in Seq(Steps) /\ Len(s \o t) = Len(s) + Len(t)
         /\ \A i \in 1..Len(s) : (s \o t)[i] = s[i]
         /\ \A i \in 1..Len(t) : (s \o t)[Len(s) + i] = t[i]
OBVIOUS

\* Where a script has what, if c is the place of its "complete".
Shaped(s, c, end) ==
  /\ s \in Seq(Steps) /\ c \in Nat /\ c >= 5 /\ Len(s) = c + Len(end)
  /\ s[1] = "authorize" /\ s[2] = "prepare" /\ s[3] = "dispatch"
  /\ \A i \in 4..(c - 2) : s[i] \in Early
  /\ s[c - 1] = "work" /\ s[c] = "complete"
  /\ \A i \in 1..Len(end) : s[c + i] = end[i]

LEMMA AroundIsShaped ==
  ASSUME NEW handler \in Seq(Early), NEW end \in Seq(Steps)
  PROVE  Shaped(Around(handler \o <<"work">>) \o end, Len(handler) + 5, end)
<1> DEFINE start == <<"authorize", "prepare", "dispatch">>
           work == handler \o <<"work">>
           begun == start \o work
           around == Around(work)
<1>1. /\ start \in Seq(Steps) /\ <<"work">> \in Seq(Steps) /\ <<"complete">> \in Seq(Steps)
      /\ Len(start) = 3 /\ start[1] = "authorize" /\ start[2] = "prepare" /\ start[3] = "dispatch"
  BY DEF Steps, Early
<1>2. handler \in Seq(Steps) /\ Len(handler) \in Nat /\ \A i \in 1..Len(handler) : handler[i] \in Early
  BY DEF Steps
<1>3. /\ work \in Seq(Steps) /\ Len(work) = Len(handler) + 1 /\ work[Len(handler) + 1] = "work"
      /\ \A i \in 1..Len(handler) : work[i] \in Early
  BY <1>1, <1>2, Concatenated
<1> HIDE DEF start, work
<1>4. /\ begun \in Seq(Steps) /\ Len(begun) = Len(handler) + 4
      /\ begun[1] = "authorize" /\ begun[2] = "prepare" /\ begun[3] = "dispatch"
      /\ \A i \in 1..(Len(handler) + 1) : begun[3 + i] = work[i]
  <2>1. /\ begun \in Seq(Steps) /\ Len(begun) = Len(start) + Len(work)
        /\ \A i \in 1..Len(start) : begun[i] = start[i]
        /\ \A i \in 1..Len(work) : begun[Len(start) + i] = work[i]
    BY <1>1, <1>3, Concatenated
  <2> HIDE DEF begun
  <2> QED
    BY <1>1, <1>2, <1>3, <2>1
<1>5. around = begun \o <<"complete">>
  BY DEF Around, start
<1> HIDE DEF begun, around
<1>6. /\ around \in Seq(Steps) /\ Len(around) = Len(handler) + 5
      /\ \A i \in 1..(Len(handler) + 4) : around[i] = begun[i]
      /\ around[Len(handler) + 5] = "complete"
  <2>1. Len(<<"complete">>) = 1 /\ <<"complete">>[1] = "complete"
    OBVIOUS
  <2> QED
    BY <1>1, <1>2, <1>4, <1>5, <2>1, Concatenated
<1>7. /\ around \o end \in Seq(Steps) /\ Len(around \o end) = Len(handler) + 5 + Len(end)
      /\ \A i \in 1..(Len(handler) + 5) : (around \o end)[i] = around[i]
      /\ \A i \in 1..Len(end) : (around \o end)[Len(handler) + 5 + i] = end[i]
  <2>1. Len(around) = Len(handler) + 5 /\ Len(handler) + 5 \in Nat
    BY <1>2, <1>6
  <2>2. /\ around \o end \in Seq(Steps) /\ Len(around \o end) = Len(around) + Len(end)
        /\ \A i \in 1..Len(around) : (around \o end)[i] = around[i]
        /\ \A i \in 1..Len(end) : (around \o end)[Len(around) + i] = end[i]
    BY <1>6, Concatenated
  <2> QED
    BY <2>1, <2>2
<1> DEFINE s == around \o end
<1> HIDE DEF s
<1>8. s[1] = "authorize" /\ s[2] = "prepare" /\ s[3] = "dispatch"
  BY <1>2, <1>4, <1>6, <1>7 DEF s
<1>9. ASSUME NEW i \in 4..(Len(handler) + 3)
      PROVE  s[i] \in Early
  <2>1. i - 3 \in 1..Len(handler) /\ i = 3 + (i - 3)
    BY <1>2
  <2>2. s[i] = begun[i] /\ begun[i] = work[i - 3]
    BY <1>2, <1>4, <1>6, <1>7, <2>1 DEF s
  <2> QED
    BY <1>3, <2>1, <2>2
<1>10. s[Len(handler) + 4] = "work" /\ s[Len(handler) + 5] = "complete"
  <2>1. begun[Len(handler) + 4] = "work"
    BY <1>2, <1>3, <1>4
  <2>2. /\ Len(handler) + 4 \in 1..(Len(handler) + 4) /\ Len(handler) + 4 \in 1..(Len(handler) + 5)
        /\ Len(handler) + 5 \in 1..(Len(handler) + 5)
    BY <1>2
  <2>3. s[Len(handler) + 4] = around[Len(handler) + 4] /\ s[Len(handler) + 5] = around[Len(handler) + 5]
    BY <1>7, <2>2 DEF s
  <2> QED
    BY <1>6, <2>1, <2>2, <2>3
<1>11. Shaped(s, Len(handler) + 5, end)
  BY <1>2, <1>7, <1>8, <1>9, <1>10 DEF Shaped, s
<1> QED
  BY <1>11 DEF s, around, work

EndOf(m) ==
  IF m \in Reads THEN <<"disclose", "authorize">>
  ELSE IF m \in Writes THEN <<"authorize", "disclose">>
  ELSE <<"deliver", "verify", "disclose">>

LEMMA EveryScriptIsShaped ==
  ASSUME NEW m \in Methods
  PROVE  Shaped(Script[m], Completing(m), EndOf(m))
<1>1. \E handler \in Seq(Early) : Script[m] = Around(handler \o <<"work">>) \o EndOf(m)
  <2>1. /\ <<"authorize">> \o <<>> \in Seq(Early) /\ <<"authorize">> \o <<"list">> \in Seq(Early)
        /\ <<"authorize">> \o <<"list", "see", "authorize">> \in Seq(Early)
        /\ <<"authorize", "grant">> \in Seq(Early) /\ <<"authorize">> \in Seq(Early)
    BY DEF Early
  <2>2. CASE m = "usersList"
    BY <2>1, <2>2 DEF Script, UsersList, ReadOf, EndOf, Reads
  <2>3. CASE m = "tokensList"
    BY <2>1, <2>3 DEF Script, TokensList, ReadOf, EndOf, Reads
  <2>4. CASE m = "tokensRevoke"
    BY <2>1, <2>4 DEF Script, TokensRevoke, WriteOf, EndOf, Reads, Writes
  <2>5. CASE m = "sessionsRevoke"
    BY <2>1, <2>5 DEF Script, SessionsRevoke, WriteOf, EndOf, Reads, Writes
  <2>6. CASE m = "issue"
    BY <2>1, <2>6 DEF Script, IssueToken, DeliveryOf, EndOf, Reads, Writes
  <2>7. CASE m = "rotate"
    BY <2>1, <2>7 DEF Script, RotateToken, DeliveryOf, EndOf, Reads, Writes
  <2> QED
    BY <2>2, <2>3, <2>4, <2>5, <2>6, <2>7, MethodsAre
<1>2. PICK handler \in Seq(Early) : Script[m] = Around(handler \o <<"work">>) \o EndOf(m)
  BY <1>1
<1> DEFINE s == Script[m]  end == EndOf(m)  c == Len(handler) + 5
<1>3. end \in Seq(Steps) /\ \A i \in 1..Len(end) : end[i] # "complete"
  <2>1. /\ <<"disclose", "authorize">> \in Seq(Steps) /\ <<"authorize", "disclose">> \in Seq(Steps)
        /\ <<"deliver", "verify", "disclose">> \in Seq(Steps)
    BY DEF Steps, Early
  <2> QED
    BY <2>1 DEF EndOf
<1>4. Shaped(s, c, end)
  BY <1>2, <1>3, AroundIsShaped
<1> HIDE DEF s, end
<1>5. Len(handler) \in Nat /\ Len(end) \in Nat
  BY <1>3
<1> HIDE DEF c
<1>6. ASSUME NEW i \in DOMAIN s, s[i] = "complete"
      PROVE  i = c
  <2>1. i \in 1..(c + Len(end)) /\ c \in Nat /\ c >= 5
    BY <1>4, <1>5 DEF Shaped
  <2>2. i > c => i - c \in 1..Len(end) /\ i = c + (i - c)
    BY <1>5, <2>1
  <2>3. ~(i > c)
    BY <1>3, <1>4, <1>6, <2>2 DEF Shaped
  <2>4. ~(i < c)
    <3>1. i < c => i \in {1, 2, 3, c - 1} \/ i \in 4..(c - 2)
      BY <2>1
    <3> QED
      BY <1>4, <1>6, <3>1 DEF Shaped, Early
  <2> QED
    BY <2>1, <2>3, <2>4
<1>7. c \in DOMAIN s /\ s[c] = "complete"
  BY <1>4, <1>5 DEF Shaped
<1>8. Completing(m) = c
  BY <1>6, <1>7 DEF Completing, s
<1> QED
  BY <1>4, <1>8 DEF s, end

--------------------------------------------------------------------------------
(* What is true of the call that is watched, at each place of its script.    *)

USE ProfilesAssumption, RevisionAssumption, NoneAssumption

Call0 ==
  [method : Methods, entry : {"human", "agent"}, key : Ids, seen : Nat, scopes : SUBSET Actions,
   at : Nat, facts : (SUBSET Actions) \cup {None}, granted : SUBSET Ceiling, made : Nat,
   outcome : {"success", "failure", "unknown"}, effect : BOOLEAN,
   trail : {"none", "intent", "success"}, since : [rights : SUBSET Actions, stands : BOOLEAN]]

\* Its intent, its outcome and its work go with its place.
Placed(c) ==
  LET done == Completing(c.method) IN
  /\ c.at \in DOMAIN Script[c.method]
  /\ c.trail = IF c.at <= 2 THEN "none" ELSE IF c.at <= done THEN "intent" ELSE "success"
  /\ c.at # done => c.outcome = "success"
  /\ c.at < done => ~c.effect
  /\ c.at = done => /\ c.outcome = "success" => c.effect
                    /\ c.outcome = "failure" => ~c.effect
  /\ c.at > done => c.effect

\* Since its work, what he may do has been within since, and so has whether he stands:
\* a credential or a session that is good now was good then.
Grounded(c) ==
  /\ c.entry = "agent" => c.method \in Reads
  /\ c.entry = "agent" \/ c.method \in {"rotate", "tokensRevoke"} =>
       keys[c.key] # None /\ c.seen <= keys[c.key].revision
  /\ c.method \notin Reads => c.facts = None
  /\ c.effect =>
       /\ rights \subseteq c.since.rights
       /\ Stands(c) => c.since.stands
       /\ c.method \in Deliveries \cup {"tokensRevoke"} => keys[c.key] # None
       /\ c.method = "tokensRevoke" =>
            ~keys[c.key].live /\ keys[c.key].revision = c.seen + 1

\* What the steps after the end of the intent have found, when the first of them is past.
Found(c) ==
  /\ c.method \in Reads => c.facts = None /\ c.since.stands
  /\ c.method \notin Reads => Required[c.method] \subseteq c.since.rights
  /\ c.method \in Deliveries => keys[c.key].scopes \subseteq c.since.rights
Earned(c) == c.at > Completing(c.method) + 1 => Found(c)

\* What a call must have, to be answered.
Due(c) ==
  /\ c.since.stands /\ Required[c.method] \subseteq c.since.rights
  /\ c.method \in Deliveries => keys[c.key].scopes \subseteq c.since.rights

CallInv(c) == c \in Call0 /\ Placed(c) /\ Grounded(c) /\ Earned(c)

WorldOK ==
  /\ rights \in SUBSET Actions /\ rights \in Profiles /\ session \in BOOLEAN
  /\ keys \in [Ids -> Keys]
  /\ \A k \in Ids : keys[k] # None /\ keys[k].live => keys[k].revision <= MaxRevision

ToldOK ==
  told # None => /\ told.is \in {"ok", "refused", "unknown", "error"}
                 /\ told.trail \in {"none", "intent", "success", "failure", "unknown"}

IInv ==
  /\ WorldOK /\ (Running => CallInv(current))
  /\ ToldOK /\ DisclosedWithinRights /\ OutcomesAreTrue

--------------------------------------------------------------------------------
(* How keys change.                                                          *)

GoodKey(key, credential) ==
  key.live /\ (credential = key.revision \/ (key.overlap /\ credential = key.revision - 1))

\* A key remains, with its scopes; a dead one as it is; and no credential that was there
\* becomes good again.
Evolves(before, after) ==
  \A k \in Ids : before[k] # None =>
    /\ after[k] # None /\ after[k].scopes = before[k].scopes
    /\ after[k].revision >= before[k].revision
    /\ ~before[k].live => ~after[k].live /\ after[k].revision = before[k].revision
    /\ \A credential \in Nat :
         credential <= before[k].revision /\ GoodKey(after[k], credential)
         => GoodKey(before[k], credential)

KeysOK(ks) ==
  /\ ks \in [Ids -> Keys]
  /\ \A k \in Ids : ks[k] # None /\ ks[k].live => ks[k].revision <= MaxRevision

LEMMA OneKeyEvolves ==
  ASSUME WorldOK, NEW k \in Ids, NEW key \in Key, key.live => key.revision <= MaxRevision,
         keys[k] # None =>
           /\ key.scopes = keys[k].scopes /\ key.revision >= keys[k].revision
           /\ ~keys[k].live => ~key.live /\ key.revision = keys[k].revision
           /\ \A credential \in Nat :
                credential <= keys[k].revision /\ GoodKey(key, credential)
                => GoodKey(keys[k], credential)
  PROVE  LET after == [keys EXCEPT ![k] = key] IN
         KeysOK(after) /\ Evolves(keys, after) /\ after[k] = key /\ after[k] # None
<1> DEFINE after == [keys EXCEPT ![k] = key]
<1>1. /\ after \in [Ids -> Keys] /\ after[k] = key /\ key # None
      /\ \A j \in Ids \ {k} : after[j] = keys[j]
  BY DEF WorldOK, Keys
<1> HIDE DEF after
<1>2. KeysOK(after)
  BY <1>1 DEF KeysOK, WorldOK
<1>3. \A j \in Ids : keys[j] # None => keys[j].revision \in Nat
  BY DEF WorldOK, Keys, Key
<1>4. Evolves(keys, after)
  <2> SUFFICES ASSUME NEW j \in Ids, keys[j] # None
               PROVE  /\ after[j] # None /\ after[j].scopes = keys[j].scopes
                      /\ after[j].revision >= keys[j].revision
                      /\ ~keys[j].live => ~after[j].live /\ after[j].revision = keys[j].revision
                      /\ \A credential \in Nat :
                           credential <= keys[j].revision /\ GoodKey(after[j], credential)
                           => GoodKey(keys[j], credential)
    BY DEF Evolves
  <2>1. CASE j = k
    BY <1>1, <2>1
  <2>2. CASE j # k
    BY <1>1, <1>3, <2>2
  <2> QED
    BY <2>1, <2>2
<1> QED
  BY <1>1, <1>2, <1>4 DEF after

LEMMA NothingEvolves ==
  ASSUME WorldOK
  PROVE  KeysOK(keys) /\ Evolves(keys, keys)
<1>1. \A j \in Ids : keys[j] # None => keys[j].revision \in Nat
  BY DEF WorldOK, Keys, Key
<1> QED
  BY <1>1 DEF KeysOK, Evolves, WorldOK

\* What the database does for a call.
LEMMA RekeyedIs ==
  ASSUME WorldOK, NEW k \in Ids, NEW key, NEW made
  PROVE  /\ Rekeyed(k, key, made).keys = [keys EXCEPT ![k] = key]
         /\ Rekeyed(k, key, made).session = session /\ Rekeyed(k, key, made).made = made
BY DEF Rekeyed, Unchanged

LEMMA KeyChanges ==
  ASSUME NEW key \in Key, key.revision <= MaxRevision, NEW overlap \in BOOLEAN
  PROVE  LET dead == [key EXCEPT !.live = FALSE, !.overlap = FALSE, !.revision = @ + 1]
             turned == [key EXCEPT !.revision = @ + 1, !.overlap = overlap]
         IN
         /\ dead \in Key /\ ~dead.live /\ dead.revision = key.revision + 1
         /\ dead.scopes = key.scopes
         /\ turned \in Key /\ turned.live = key.live /\ turned.revision = key.revision + 1
         /\ turned.scopes = key.scopes
<1>1. key.revision + 1 \in 1..(MaxRevision + 1)
  BY DEF Key
<1> QED
  BY <1>1 DEF Key

LEMMA Older ==
  ASSUME NEW key \in Key, NEW live \in BOOLEAN
  PROVE  LET old == [key EXCEPT !.live = live, !.overlap = FALSE] IN
         /\ old \in Key /\ old.revision = key.revision /\ old.live = live
         /\ old.scopes = key.scopes /\ old.overlap = FALSE /\ key.revision \in Nat
<1> DEFINE old == [key EXCEPT !.live = live, !.overlap = FALSE]
<1>1. old \in Key /\ old.revision = key.revision /\ old.scopes = key.scopes
  BY DEF Key
<1>2. old.live = live
  BY DEF Key
<1>3. old.overlap = FALSE
  BY DEF Key
<1>4. key.revision \in Nat
  BY DEF Key
<1> QED
  BY <1>1, <1>2, <1>3, <1>4

LEMMA EffectsAre ==
  ASSUME NEW c
  PROVE  /\ c.method = "tokensRevoke" => Effects(c) = RevokeKey(c)
         /\ c.method = "sessionsRevoke" => Effects(c) = RevokeSession(c)
         /\ c.method = "issue" => Effects(c) = Issue(c)
         /\ c.method = "rotate" => Effects(c) = Rotate(c)
         /\ c.method \notin {"tokensRevoke", "issue", "rotate", "sessionsRevoke"} =>
              Effects(c) = {Unchanged}
<1>1. c.method = "tokensRevoke" => Effects(c) = RevokeKey(c)
  BY DEF Effects
<1>2. c.method = "sessionsRevoke" => Effects(c) = RevokeSession(c)
  BY DEF Effects
<1>3. c.method = "issue" => Effects(c) = Issue(c)
  BY DEF Effects
<1>4. c.method = "rotate" => Effects(c) = Rotate(c)
  BY DEF Effects
<1>5. c.method \notin {"tokensRevoke", "issue", "rotate", "sessionsRevoke"} => Effects(c) = {Unchanged}
  BY DEF Effects
<1> QED
  BY <1>1, <1>2, <1>3, <1>4, <1>5

LEMMA EffectsEvolve ==
  ASSUME WorldOK, NEW c, c.key \in Ids, c.granted \in SUBSET Ceiling, c.seen \in Nat,
         c.method \in {"rotate", "tokensRevoke"} => keys[c.key] # None,
         NEW effect \in Effects(c)
  PROVE  /\ KeysOK(effect.keys) /\ Evolves(keys, effect.keys)
         /\ effect.made \in Nat /\ effect.session \in {session, FALSE}
         /\ c.method \in Reads => effect.keys = keys /\ effect.session = session
         /\ c.method \in Deliveries \cup {"tokensRevoke"} => effect.keys[c.key] # None
         /\ c.method = "tokensRevoke" =>
              ~effect.keys[c.key].live /\ effect.keys[c.key].revision = c.seen + 1
<1> DEFINE k == c.key
           key == keys[k]
<1>s. SUFFICES
        /\ KeysOK(effect.keys) /\ Evolves(keys, effect.keys)
        /\ effect.made \in Nat
        /\ effect.session = session \/ effect.session = FALSE
        /\ c.method \in Reads => effect.keys = keys /\ effect.session = session
        /\ c.method \in Deliveries \cup {"tokensRevoke"} => effect.keys[k] # None
        /\ c.method = "tokensRevoke" =>
             ~effect.keys[k].live /\ effect.keys[k].revision = c.seen + 1
  OBVIOUS
<1>1. /\ KeysOK(keys) /\ Evolves(keys, keys)
      /\ Unchanged.keys = keys /\ Unchanged.session = session /\ Unchanged.made = 0
  BY NothingEvolves DEF Unchanged
<1>k. key # None => key \in Key /\ key.revision \in Nat /\ key.revision >= 1
  BY DEF WorldOK, Keys, Key
<1>2. CASE c.method = "tokensRevoke"
  <2> DEFINE new == [key EXCEPT !.live = FALSE, !.overlap = FALSE, !.revision = @ + 1]
  <2>1. effect \in RevokeKey(c)
    BY <1>2, EffectsAre
  <2>2. /\ key # None /\ key.live /\ key.revision = c.seen /\ effect = Rekeyed(k, new, 0)
    BY <1>2, <2>1 DEF RevokeKey, Revocable
  <2>3. key.revision <= MaxRevision
    BY <2>2 DEF WorldOK
  <2>4. new \in Key /\ ~new.live /\ new.revision = key.revision + 1 /\ new.scopes = key.scopes
    BY <1>k, <2>2, <2>3, KeyChanges
  <2> HIDE DEF new
  <2>5. effect.keys = [keys EXCEPT ![k] = new] /\ effect.made = 0 /\ effect.session = session
    BY <2>2, RekeyedIs
  <2>6. /\ KeysOK(effect.keys) /\ Evolves(keys, effect.keys) /\ effect.keys[k] = new
        /\ effect.keys[k] # None
    BY <1>k, <2>2, <2>4, <2>5, OneKeyEvolves DEF GoodKey
  <2> QED
    BY <1>2, <2>2, <2>4, <2>5, <2>6 DEF Reads, Deliveries
<1>3. CASE c.method = "issue"
  <2>0. effect \in Issue(c)
    BY <1>3, EffectsAre
  <2>1. CASE key # None
    <3>1. effect = Unchanged
      BY <2>0, <2>1 DEF Issue
    <3> QED
      BY <1>1, <1>3, <2>1, <3>1 DEF Reads, Deliveries
  <2>2. CASE key = None
    <3> DEFINE new == [revision |-> 1, live |-> TRUE, overlap |-> FALSE, scopes |-> c.granted]
    <3>1. effect = Rekeyed(k, new, 1)
      BY <2>0, <2>2 DEF Issue
    <3>2. new \in Key /\ new.revision <= MaxRevision
      BY DEF Key
    <3> HIDE DEF new
    <3>3. effect.keys = [keys EXCEPT ![k] = new] /\ effect.made = 1 /\ effect.session = session
      BY <3>1, RekeyedIs
    <3>4. KeysOK(effect.keys) /\ Evolves(keys, effect.keys) /\ effect.keys[k] # None
      BY <2>2, <3>2, <3>3, OneKeyEvolves
    <3> QED
      BY <1>3, <3>3, <3>4 DEF Reads, Deliveries
  <2> QED
    BY <2>1, <2>2
<1>4. CASE c.method = "rotate"
  <2>0. effect \in Rotate(c) /\ key # None
    BY <1>4, EffectsAre
  <2>1. PICK overlap \in BOOLEAN :
          /\ key.live /\ key.revision = c.seen /\ key.revision < MaxRevision
          /\ effect = Rekeyed(k, [key EXCEPT !.revision = @ + 1, !.overlap = overlap],
                              key.revision + 1)
    BY <2>0 DEF Rotate
  <2> DEFINE new == [key EXCEPT !.revision = @ + 1, !.overlap = overlap]
  <2>a. key \in Key /\ key.revision <= MaxRevision
    BY <1>k, <2>0, <2>1
  <2>b. /\ new \in Key /\ new.live = key.live /\ new.revision = key.revision + 1
        /\ new.scopes = key.scopes
    BY <2>a, KeyChanges
  <2> HIDE DEF new
  <2>c. new.live
    BY <2>1, <2>b
  <2>2. /\ new \in Key /\ new.revision = key.revision + 1 /\ new.scopes = key.scopes
        /\ new.revision <= MaxRevision /\ new.revision >= key.revision
    BY <1>k, <2>0, <2>1, <2>b
  <2>3. /\ effect.keys = [keys EXCEPT ![k] = new] /\ effect.made = key.revision + 1
        /\ effect.session = session
    BY <2>1, RekeyedIs DEF new
  <2>4. \A credential \in Nat : credential <= key.revision /\ GoodKey(new, credential)
                                => GoodKey(key, credential)
    BY <1>k, <2>0, <2>1, <2>2 DEF GoodKey
  <2>5. KeysOK(effect.keys) /\ Evolves(keys, effect.keys) /\ effect.keys[k] # None
    <3>1. ~keys[k].live => ~new.live /\ new.revision = keys[k].revision
      BY <2>1
    <3>2. KeysOK([keys EXCEPT ![k] = new]) /\ Evolves(keys, [keys EXCEPT ![k] = new])
          /\ [keys EXCEPT ![k] = new][k] # None
      BY <2>2, <2>4, <3>1, OneKeyEvolves
    <3> QED
      BY <2>3, <3>2
  <2> QED
    BY <1>k, <1>4, <2>0, <2>1, <2>3, <2>5 DEF Reads, Deliveries
<1>5. CASE c.method = "sessionsRevoke"
  <2>0. effect \in RevokeSession(c)
    BY <1>5, EffectsAre
  <2>1. PICK s \in {session, FALSE} : effect = [Unchanged EXCEPT !.session = s]
    BY <2>0 DEF RevokeSession
  <2>2. effect.keys = keys /\ effect.session = s /\ effect.made = 0
    BY <2>1 DEF Unchanged
  <2> QED
    <3>1. effect.session = session \/ effect.session = FALSE
      BY <2>2
    <3> QED
      BY <1>1, <1>5, <2>2, <3>1 DEF Reads, Deliveries
<1>6. CASE c.method \notin {"tokensRevoke", "issue", "rotate", "sessionsRevoke"}
  <2>1. effect = Unchanged
    BY <1>6, EffectsAre
  <2> QED
    BY <1>1, <1>6, <2>1 DEF Deliveries
<1> QED
  BY <1>2, <1>3, <1>4, <1>5, <1>6

--------------------------------------------------------------------------------
(* The steps of the call that leave the world alone.                         *)

\* Where each step is.
LEMMA Places ==
  ASSUME NEW m \in Methods, NEW at \in DOMAIN Script[m]
  PROVE  LET done == Completing(m)  step == Script[m][at] IN
         /\ done \in Nat /\ done >= 5 /\ at \in Nat /\ at >= 1 /\ at <= Len(Script[m])
         /\ Len(Script[m]) = done + (IF m \in Deliveries THEN 3 ELSE 2)
         /\ step = "prepare" <=> at = 2
         /\ step = "work" <=> at = done - 1
         /\ step = "complete" <=> at = done
         /\ step = "dispatch" => at = 3
         /\ step \in {"list", "see", "grant"} => at < done - 1
         /\ step = "authorize" => \/ at < done - 1
                                  \/ m \in Reads /\ at = done + 2
                                  \/ m \in Writes /\ at = done + 1
         /\ step = "disclose" => \/ m \in Reads /\ at = done + 1
                                 \/ m \notin Reads /\ at = Len(Script[m])
         /\ step = "deliver" => m \in Deliveries /\ at = done + 1
         /\ step = "verify" => m \in Deliveries /\ at = done + 2
<1> DEFINE s == Script[m]  done == Completing(m)  end == EndOf(m)
           Range ==
             /\ done \in Nat /\ done >= 5 /\ at \in Nat /\ at >= 1 /\ at <= Len(s)
             /\ Len(s) = done + (IF m \in Deliveries THEN 3 ELSE 2)
           Claim ==
             /\ s[at] = "prepare" <=> at = 2
             /\ s[at] = "work" <=> at = done - 1
             /\ s[at] = "complete" <=> at = done
             /\ s[at] = "dispatch" => at = 3
             /\ s[at] \in {"list", "see", "grant"} => at < done - 1
             /\ s[at] = "authorize" => \/ at < done - 1
                                       \/ m \in Reads /\ at = done + 2
                                       \/ m \in Writes /\ at = done + 1
             /\ s[at] = "disclose" => \/ m \in Reads /\ at = done + 1
                                      \/ m \notin Reads /\ at = Len(s)
             /\ s[at] = "deliver" => m \in Deliveries /\ at = done + 1
             /\ s[at] = "verify" => m \in Deliveries /\ at = done + 2
<1>0. SUFFICES Range /\ Claim
  OBVIOUS
<1>1. /\ s \in Seq(Steps) /\ done \in Nat /\ done >= 5 /\ Len(s) = done + Len(end)
      /\ s[1] = "authorize" /\ s[2] = "prepare" /\ s[3] = "dispatch"
      /\ \A i \in 4..(done - 2) : s[i] \in Early
      /\ s[done - 1] = "work" /\ s[done] = "complete"
      /\ \A i \in 1..Len(end) : s[done + i] = end[i]
  BY EveryScriptIsShaped DEF Shaped
<1>2. /\ Len(end) = IF m \in Deliveries THEN 3 ELSE 2
      /\ m \in Reads => end[1] = "disclose" /\ end[2] = "authorize"
      /\ m \in Writes => end[1] = "authorize" /\ end[2] = "disclose"
      /\ m \in Deliveries => end[1] = "deliver" /\ end[2] = "verify" /\ end[3] = "disclose"
      /\ \/ m \in Reads /\ m \notin Writes /\ m \notin Deliveries
         \/ m \in Writes /\ m \notin Reads /\ m \notin Deliveries
         \/ m \in Deliveries /\ m \notin Reads /\ m \notin Writes
  BY MethodsAre DEF EndOf, Reads, Writes, Deliveries
<1> HIDE DEF s, done, end
<1>3. at \in 1..(done + Len(end))
  BY <1>1 DEF s
<1>4. \/ at \in {1, 2, 3} \/ at \in 4..(done - 2) \/ at = done - 1 \/ at = done
      \/ at = done + 1 \/ at = done + 2 \/ (at = done + 3 /\ m \in Deliveries)
  BY <1>1, <1>2, <1>3
<1>5. /\ s[done + 1] = end[1] /\ s[done + 2] = end[2]
      /\ m \in Deliveries => s[done + 3] = end[3]
  BY <1>1, <1>2
<1>b. /\ done \in Nat /\ done >= 5 /\ at \in Nat
      /\ Len(s) = done + (IF m \in Deliveries THEN 3 ELSE 2)
  BY <1>1, <1>2, <1>3
<1>r. Range
  BY <1>1, <1>2, <1>3, <1>b
<1>6. CASE at \in {1, 2, 3}
  <2>1. /\ at = 1 => s[at] = "authorize"
        /\ at = 2 => s[at] = "prepare"
        /\ at = 3 => s[at] = "dispatch"
    BY <1>1
  <2> QED
    BY <1>b, <1>6, <2>1
<1>7. CASE at \in 4..(done - 2)
  <2>1. s[at] \in Early /\ at >= 4 /\ at < done - 1
    BY <1>1, <1>7
  <2>2. s[at] \in {"authorize", "list", "see", "grant"}
    BY <2>1 DEF Early
  <2> QED
    BY <1>b, <2>1, <2>2
<1>8. CASE at = done - 1 \/ at = done
  <2>1. (at = done - 1 => s[at] = "work") /\ (at = done => s[at] = "complete")
    BY <1>1
  <2> QED
    BY <1>b, <1>8, <2>1
<1>9. CASE at = done + 1 \/ at = done + 2 \/ (at = done + 3 /\ m \in Deliveries)
  <2>1. /\ at = done + 1 => s[at] = end[1]
        /\ at = done + 2 => s[at] = end[2]
        /\ at = done + 3 => s[at] = end[3]
    BY <1>1, <1>2, <1>5, <1>9
  <2>2. CASE m \in Reads
    BY <1>b, <1>2, <1>9, <2>1, <2>2
  <2>3. CASE m \in Writes
    BY <1>b, <1>2, <1>9, <2>1, <2>3
  <2>4. CASE m \in Deliveries
    BY <1>b, <1>2, <1>9, <2>1, <2>4
  <2> QED
    BY <1>2, <2>2, <2>3, <2>4
<1> QED
  BY <1>4, <1>r, <1>6, <1>7, <1>8, <1>9

LEMMA TheWorldKept ==
  ASSUME UNCHANGED World, NEW d
  PROVE  /\ WorldOK => WorldOK'
         /\ Placed(d) => Placed(d)'
         /\ Grounded(d) => Grounded(d)'
         /\ Earned(d) => Earned(d)'
<1>1. WorldOK => WorldOK'
  BY DEF World, WorldOK
<1>2. Grounded(d) => Grounded(d)'
  BY DEF World, Grounded, Stands, Verifies, Good
<1>3. (Placed(d) => Placed(d)') /\ (Earned(d) => Earned(d)')
  BY DEF World, Placed, Earned, Found
<1> QED
  BY <1>1, <1>2, <1>3

\* The call goes on, or is over and told: what is left to show.
LEMMA GoesOn ==
  ASSUME WorldOK', NEW d, CallInv(d)', Become(d)
  PROVE  IInv'
<1>1. current' = d /\ told' = None
  BY DEF Become
<1>2. (Running => CallInv(current))'
  BY <1>1 DEF CallInv, Placed, Grounded, Earned, Found, Stands, Verifies, Good
<1>3. (ToldOK /\ DisclosedWithinRights /\ OutcomesAreTrue)'
  BY <1>1 DEF ToldOK, DisclosedWithinRights, OutcomesAreTrue
<1> QED
  BY <1>2, <1>3 DEF IInv

LEMMA IsTold ==
  ASSUME IInv, Running, UNCHANGED World,
         NEW answer \in {"ok", "refused", "unknown", "error"},
         NEW trail \in {"none", "intent", "success", "failure", "unknown"},
         Tell(answer, trail),
         answer = "ok" => /\ Due(current) /\ current.effect
                          /\ current.method = "tokensRevoke" =>
                               /\ ~keys[current.key].live
                               /\ keys[current.key].revision = current.seen + 1,
         answer = "refused" => ~current.effect \/ current.method \in Reads,
         trail = "success" => current.effect,
         trail = "failure" => ~current.effect
  PROVE  IInv'
<1> DEFINE t == [is |-> answer, trail |-> trail, to |-> current]
<1>1. told' = t /\ current' = None /\ t.is = answer /\ t.trail = trail /\ t.to = current
  BY DEF Tell
<1> HIDE DEF t
<1>2. WorldOK' /\ (Running => CallInv(current))'
  BY <1>1, TheWorldKept DEF IInv, Running
<1>3. ToldOK'
  BY <1>1 DEF ToldOK
<1>4. DisclosedWithinRights'
  BY <1>1 DEF DisclosedWithinRights, Due, World
<1>5. OutcomesAreTrue'
  BY <1>1 DEF OutcomesAreTrue, World
<1> QED
  BY <1>2, <1>3, <1>4, <1>5 DEF IInv

LEMMA Elsewhere ==
  ASSUME NEW d \in Call0, NEW at \in Nat
  PROVE  LET e == [d EXCEPT !.at = at] IN
         /\ e \in Call0 /\ e.at = at /\ e.method = d.method /\ e.entry = d.entry
         /\ e.key = d.key /\ e.seen = d.seen /\ e.scopes = d.scopes /\ e.effect = d.effect
         /\ e.since = d.since /\ e.outcome = d.outcome /\ e.facts = d.facts /\ e.trail = d.trail
BY DEF Call0

\* A step forward: what it must have found, by its place.
LEMMA AdvanceKeeps ==
  ASSUME IInv, Running, UNCHANGED World, current.at # Completing(current.method) - 1,
         NEW d \in Call0, Advance(d),
         d.method = current.method, d.entry = current.entry, d.key = current.key,
         d.seen = current.seen, d.scopes = current.scopes, d.at = current.at,
         d.effect = current.effect, d.since = current.since, d.outcome = current.outcome,
         d.method \notin Reads => d.facts = None,
         d.trail = IF d.at = 2 THEN "intent"
                   ELSE IF d.at = Completing(d.method) THEN "success" ELSE current.trail,
         d.at = Completing(d.method) => d.outcome = "success",
         d.at > Completing(d.method) /\ d.at < Len(Script[d.method]) => Found(d),
         d.at = Len(Script[d.method]) => Due(current)
  PROVE  IInv'
<1> DEFINE m == d.method  done == Completing(m)  at == d.at  e == [d EXCEPT !.at = @ + 1]
<1>1. CallInv(current) /\ WorldOK
  BY DEF IInv
<1>2. m \in Methods /\ at \in DOMAIN Script[m]
  BY <1>1 DEF Call0, CallInv, Placed
<1>3. /\ done \in Nat /\ done >= 5 /\ at \in Nat /\ at >= 1 /\ at <= Len(Script[m])
      /\ Len(Script[m]) = done + (IF m \in Deliveries THEN 3 ELSE 2)
  BY <1>2, Places
<1>4. CASE at = Len(Script[m])
  <2>1. Tell("ok", d.trail)
    BY <1>4 DEF Advance
  <2>2. at > done /\ at # 2 /\ d.trail = "success" /\ current.effect
    BY <1>1, <1>3, <1>4 DEF CallInv, Placed
  <2>3. current.method = "tokensRevoke" =>
          ~keys[current.key].live /\ keys[current.key].revision = current.seen + 1
    BY <1>1, <2>2 DEF CallInv, Grounded
  <2>4. Due(current)
    BY <1>4
  <2> QED
    BY <2>1, <2>2, <2>3, <2>4, IsTold
<1>5. CASE at # Len(Script[m])
  <2>1. /\ e \in Call0 /\ e.at = at + 1 /\ e.method = m /\ e.entry = d.entry /\ e.key = d.key
        /\ e.seen = d.seen /\ e.scopes = d.scopes /\ e.effect = d.effect /\ e.since = d.since
        /\ e.outcome = d.outcome /\ e.facts = d.facts /\ e.trail = d.trail
    <3>1. at + 1 \in Nat
      BY <1>3
    <3> QED
      BY <3>1, Elsewhere
  <2>2. Become(e)
    BY <1>5 DEF Advance
  <2> HIDE DEF e
  <2>3. Placed(e)
    <3>1. at + 1 \in DOMAIN Script[m]
      <4>1. Script[m] \in Seq(Steps)
        BY <1>2, EveryScriptIsShaped DEF Shaped
      <4> QED
        BY <1>3, <1>5, <4>1
    <3>2. at + 1 # done
      BY <1>3
    <3> QED
      BY <1>1, <1>3, <2>1, <3>1, <3>2 DEF CallInv, Placed
  <2>4. Grounded(e)
    BY <1>1, <2>1 DEF CallInv, Grounded, Stands, Verifies, Good
  <2>5. Earned(e)
    BY <1>3, <1>5, <2>1 DEF Earned, Found
  <2>6. CallInv(e)' /\ WorldOK'
    BY <1>1, <2>1, <2>3, <2>4, <2>5, TheWorldKept DEF CallInv
  <2> QED
    BY <2>2, <2>6, GoesOn
<1> QED
  BY <1>4, <1>5

\* A step throws.
LEMMA ThrowKeeps ==
  ASSUME IInv, Running, UNCHANGED World, current.at # Completing(current.method),
         NEW outcome \in {"failure", "unknown"}, NEW answer \in {"refused", "error"},
         Throw(outcome, answer)
  PROVE  IInv'
<1> DEFINE m == current.method  done == Completing(m)  at == current.at
<1>e. PICK e : e = [current EXCEPT !.outcome = outcome, !.at = done]
  OBVIOUS
<1>1. current \in Call0 /\ Placed(current) /\ Grounded(current) /\ WorldOK
  BY DEF IInv, CallInv
<1>2. m \in Methods /\ at \in DOMAIN Script[m]
  BY <1>1 DEF Call0, Placed
<1>3. /\ done \in Nat /\ done >= 5 /\ at \in Nat /\ at >= 1 /\ at <= Len(Script[m])
      /\ Len(Script[m]) = done + (IF m \in Deliveries THEN 3 ELSE 2)
  BY <1>2, Places
<1>4. CASE current.trail = "intent"
  <2>1. Become(e)
    BY <1>e, <1>4 DEF Throw
  <2>2. /\ e \in Call0 /\ e.at = done /\ e.outcome = outcome /\ e.method = m
        /\ e.entry = current.entry /\ e.key = current.key /\ e.seen = current.seen
        /\ e.effect = current.effect /\ e.facts = current.facts /\ e.trail = "intent"
    BY <1>e, <1>1, <1>3, <1>4 DEF Call0
  <2>3. at < done /\ ~current.effect
    BY <1>1, <1>3, <1>4 DEF Placed
  <2>4. done \in DOMAIN Script[m]
    <3>1. Script[m] \in Seq(Steps)
      BY <1>2, EveryScriptIsShaped DEF Shaped
    <3> QED
      BY <1>3, <3>1
  <2>5. Placed(e)
    BY <1>3, <2>2, <2>3, <2>4 DEF Placed
  <2>6. Grounded(e)
    BY <1>1, <2>2, <2>3 DEF Grounded
  <2>7. Earned(e)
    BY <1>3, <2>2 DEF Earned
  <2>8. CallInv(e)' /\ WorldOK'
    BY <1>1, <2>2, <2>5, <2>6, <2>7, TheWorldKept DEF CallInv
  <2> QED
    BY <2>1, <2>8, GoesOn
<1>5. CASE current.trail # "intent"
  <2>1. Tell(Refused(answer), current.trail)
    BY <1>5 DEF Throw
  <2>2. \/ at <= 2 /\ current.trail = "none" /\ ~current.effect
        \/ at > done /\ current.trail = "success" /\ current.effect
    BY <1>1, <1>3, <1>5 DEF Placed
  <2>t. /\ current.trail \in {"none", "intent", "success", "failure", "unknown"}
        /\ current.trail = "success" => current.effect
        /\ current.trail # "failure"
    BY <2>2
  <2>3. CASE Refused(answer) = answer /\ (~current.effect \/ current.method \in Reads)
    <3>1. Tell(answer, current.trail)
      BY <2>1, <2>3
    <3>2. answer \in {"ok", "refused", "unknown", "error"} /\ answer # "ok"
      OBVIOUS
    <3> QED
      BY <2>t, <2>3, <3>1, <3>2, IsTold
  <2>4. CASE Refused(answer) = "unknown"
    <3>1. Tell("unknown", current.trail)
      BY <2>1, <2>4
    <3> QED
      BY <2>t, <3>1, IsTold
  <2> QED
    BY <2>2, <2>3, <2>4 DEF Refused
<1> QED
  BY <1>4, <1>5

LEMMA DenyKeeps ==
  ASSUME IInv, Running, UNCHANGED World, current.at # Completing(current.method), Deny
  PROVE  IInv'
BY ThrowKeeps DEF Deny

--------------------------------------------------------------------------------
(* Each of those steps.                                                      *)

\* Where the call is, and what is known of it there.
LEMMA TheCall ==
  ASSUME IInv, Running
  PROVE  LET m == current.method  done == Completing(m)  at == current.at IN
         /\ current \in Call0 /\ m \in Methods /\ at \in DOMAIN Script[m]
         /\ Step = Script[m][at] /\ Placed(current) /\ Grounded(current) /\ Earned(current)
         /\ at \in Nat /\ done \in Nat /\ done >= 5 /\ at <= Len(Script[m])
         /\ Len(Script[m]) = done + (IF m \in Deliveries THEN 3 ELSE 2)
         /\ at > done => /\ current.effect /\ rights \subseteq current.since.rights
                         /\ Stands(current) => current.since.stands
                         /\ m \in Deliveries => keys[current.key] # None
<1>1. current \in Call0 /\ Placed(current) /\ Grounded(current) /\ Earned(current)
  BY DEF IInv, CallInv
<1>2. current.method \in Methods /\ current.at \in DOMAIN Script[current.method]
  BY <1>1 DEF Call0, Placed
<1>3. current.at > Completing(current.method) =>
        /\ current.effect /\ rights \subseteq current.since.rights
        /\ Stands(current) => current.since.stands
        /\ current.method \in Deliveries => keys[current.key] # None
  BY <1>1 DEF Placed, Grounded
<1> QED
  BY <1>1, <1>2, <1>3, Places DEF Step

LEMMA OnceIsOne ==
  /\ \A m \in Methods : \/ m \in Reads /\ m \notin Writes /\ m \notin Deliveries
                        \/ m \in Writes /\ m \notin Reads /\ m \notin Deliveries
                        \/ m \in Deliveries /\ m \notin Reads /\ m \notin Writes
BY MethodsAre DEF Reads, Writes, Deliveries

LEMMA AuthorizeKeeps ==
  ASSUME IInv, Authorize
  PROVE  IInv'
<1> DEFINE m == current.method  done == Completing(m)  at == current.at
<1>0. Running /\ UNCHANGED World
  BY DEF Authorize, At
<1>1. PICK d : d = [current EXCEPT !.facts = Phase(current)]
  OBVIOUS
<1>2. Advance(d)
  BY <1>1 DEF Authorize
<1> HIDE DEF m, done, at
<1>3. current.facts \in (SUBSET Actions) \cup {None} /\ rights \in SUBSET Actions
  BY <1>0, TheCall DEF Call0, IInv, WorldOK
<1>4. Phase(current) \in (SUBSET Actions) \cup {None} /\ (m \notin Reads => Phase(current) = None)
  <2>1. Facts(current) \in SUBSET Actions
    <3>1. CASE current.facts = None
      BY <1>3, <3>1 DEF Facts
    <3>2. CASE current.facts # None
      BY <1>3, <3>2 DEF Facts
    <3> QED
      BY <3>1, <3>2
  <2>2. Phase(current) = IF m \in Reads THEN Facts(current) ELSE None
    BY DEF Phase, m
  <2> QED
    BY <2>1, <2>2
<1>5. /\ d \in Call0 /\ d.method = m /\ d.at = at /\ d.facts = Phase(current)
      /\ d.entry = current.entry /\ d.key = current.key
      /\ d.seen = current.seen /\ d.scopes = current.scopes
      /\ d.effect = current.effect /\ d.since = current.since /\ d.outcome = current.outcome
      /\ d.trail = current.trail
  BY <1>0, <1>1, <1>4, TheCall DEF Call0, m, at
<1>6. /\ at # 2 /\ at # done - 1 /\ at # done
      /\ at > done => \/ m \in Reads /\ at = done + 2
                      \/ m \in Writes /\ at = done + 1
  <2>1. Step \in {"authorize", "list"}
    BY DEF Authorize, At
  <2> QED
    BY <1>0, <2>1, TheCall, Places DEF m, at, done
<1>7. at > done => Required[m] \subseteq Allowed(current)
  <2>1. at > done => Step # "list"
    BY <1>0, TheCall, Places DEF m, at, done
  <2> QED
    BY <2>1 DEF Authorize, At, m
<1>8. at > done => Required[m] \subseteq current.since.rights
  <2>1. ASSUME at > done
        PROVE  current.facts = None /\ Facts(current) = rights
    BY <1>0, <1>6, <2>1, TheCall, OnceIsOne DEF Grounded, Earned, Found, Facts, m, at, done
  <2>2. at > done => Allowed(current) \subseteq rights
    BY <2>1 DEF Allowed
  <2> QED
    BY <1>0, <1>7, <2>2, TheCall DEF m, at, done
<1>9. at > done /\ at < Len(Script[m]) => Found(d)
  BY <1>0, <1>5, <1>6, <1>8, TheCall, OnceIsOne DEF Found, m, at, done
<1>10. at = Len(Script[m]) => Due(current)
  BY <1>0, <1>6, <1>8, TheCall, OnceIsOne DEF Due, Earned, Found, m, at, done
<1> QED
  BY <1>0, <1>2, <1>4, <1>5, <1>6, <1>9, <1>10, AdvanceKeeps DEF m, at, done

LEMMA AuthorizeDeniesKeeps ==
  ASSUME IInv, AuthorizeDenies
  PROVE  IInv'
<1>1. Running /\ UNCHANGED World /\ Deny /\ Step \in {"authorize", "list"}
  BY DEF AuthorizeDenies, At
<1>2. current.at # Completing(current.method)
  BY <1>1, TheCall, Places
<1> QED
  BY <1>1, <1>2, DenyKeeps

\* A step that asks nothing of what is known at the end of the call.
LEMMA EarlyStepKeeps ==
  ASSUME IInv, Running, UNCHANGED World, NEW d \in Call0, Advance(d),
         current.at < Completing(current.method) - 1,
         d.method = current.method, d.entry = current.entry, d.key = current.key,
         d.seen = current.seen, d.scopes = current.scopes, d.at = current.at,
         d.effect = current.effect, d.since = current.since, d.outcome = current.outcome,
         d.method \notin Reads => d.facts = None,
         d.trail = IF d.at = 2 THEN "intent" ELSE current.trail
  PROVE  IInv'
<1>1. /\ current.at \in Nat /\ Completing(current.method) \in Nat
      /\ Completing(current.method) < Len(Script[current.method])
      /\ Len(Script[current.method]) \in Nat
  BY TheCall
<1>2. /\ current.at # Completing(current.method) /\ current.at # Completing(current.method) - 1
      /\ ~(current.at > Completing(current.method)) /\ current.at # Len(Script[current.method])
  BY <1>1
<1> QED
  BY <1>2, AdvanceKeeps

LEMMA PrepareKeeps ==
  ASSUME IInv, Prepare
  PROVE  IInv'
<1>0. Running /\ UNCHANGED World /\ Step = "prepare"
  BY DEF Prepare, At
<1>1. current \in Call0 /\ current.at = 2 /\ current.at < Completing(current.method) - 1
  BY <1>0, TheCall, Places
<1>2. (current.method \notin Reads => current.facts = None) /\ ~current.effect
  BY <1>0, <1>1, TheCall DEF Grounded, Placed
<1>3. CASE Advance([current EXCEPT !.trail = "intent"])
  <2>1. PICK d : d = [current EXCEPT !.trail = "intent"]
    OBVIOUS
  <2>2. /\ d \in Call0 /\ d.method = current.method /\ d.entry = current.entry
        /\ d.key = current.key /\ d.seen = current.seen /\ d.scopes = current.scopes
        /\ d.at = current.at /\ d.effect = current.effect /\ d.since = current.since
        /\ d.outcome = current.outcome /\ d.facts = current.facts /\ d.trail = "intent"
    BY <1>1, <2>1 DEF Call0
  <2>3. Advance(d)
    BY <1>3, <2>1
  <2> QED
    BY <1>0, <1>1, <1>2, <2>2, <2>3, EarlyStepKeeps
<1>4. ASSUME NEW trail \in {"none", "intent"}, Tell("unknown", trail)
      PROVE  IInv'
  <2>1. /\ trail \in {"none", "intent", "success", "failure", "unknown"}
        /\ trail # "success" /\ trail # "failure"
    OBVIOUS
  <2> QED
    BY <1>0, <1>4, <2>1, IsTold
<1> QED
  BY <1>3, <1>4 DEF Prepare

LEMMA GrantKeeps ==
  ASSUME IInv, Grant
  PROVE  IInv'
<1>0. Running /\ UNCHANGED World /\ Step = "grant"
  BY DEF Grant, At
<1>1. current \in Call0 /\ current.at < Completing(current.method) - 1 /\ current.at # 2
  BY <1>0, TheCall, Places
<1>2. current.method \notin Reads => current.facts = None
  BY <1>0, TheCall DEF Grounded
<1>3. PICK granted \in SUBSET Ceiling : granted = Ceiling \cap Allowed(current)
  OBVIOUS
<1>4. PICK d : d = [current EXCEPT !.granted = granted]
  OBVIOUS
<1>5. /\ d \in Call0 /\ d.method = current.method /\ d.entry = current.entry
      /\ d.key = current.key /\ d.seen = current.seen /\ d.scopes = current.scopes
      /\ d.at = current.at /\ d.effect = current.effect /\ d.since = current.since
      /\ d.outcome = current.outcome /\ d.facts = current.facts /\ d.trail = current.trail
  BY <1>1, <1>4 DEF Call0
<1>6. Advance(d)
  BY <1>3, <1>4 DEF Grant
<1> QED
  BY <1>0, <1>1, <1>2, <1>5, <1>6, EarlyStepKeeps

LEMMA SeeKeeps ==
  ASSUME IInv, See
  PROVE  IInv'
<1>0. Running /\ UNCHANGED World /\ Step = "see"
  BY DEF See, At
<1>1. /\ current \in Call0 /\ current.at < Completing(current.method) - 1 /\ current.at # 2
      /\ current.at # Completing(current.method)
  BY <1>0, TheCall, Places
<1>2. current.method \notin Reads => current.facts = None
  BY <1>0, TheCall DEF Grounded
<1>3. PICK d : d = current
  OBVIOUS
<1>4. CASE Advance(current)
  <2>1. Advance(d)
    BY <1>3, <1>4
  <2> QED
    BY <1>0, <1>1, <1>2, <1>3, <2>1, EarlyStepKeeps
<1>5. CASE Deny
  BY <1>0, <1>1, <1>5, DenyKeeps
<1> QED
  BY <1>4, <1>5 DEF See

LEMMA BreakKeeps ==
  ASSUME IInv, Break
  PROVE  IInv'
<1>1. Running /\ UNCHANGED World /\ Throw("unknown", "error") /\ Step # "complete"
  BY DEF Break
<1>2. current.at # Completing(current.method)
  BY <1>1, TheCall, Places
<1> QED
  BY <1>1, <1>2, ThrowKeeps

LEMMA WorkRefusedKeeps ==
  ASSUME IInv, WorkRefused
  PROVE  IInv'
<1>1. Running /\ UNCHANGED World /\ Deny /\ Step = "work"
  BY DEF WorkRefused, At
<1>2. current.at # Completing(current.method)
  BY <1>1, TheCall, Places
<1> QED
  BY <1>1, <1>2, DenyKeeps

LEMMA CompleteKeeps ==
  ASSUME IInv, Complete
  PROVE  IInv'
<1>0. Running /\ UNCHANGED World /\ Step = "complete"
  BY DEF Complete, At
<1>1. /\ current \in Call0 /\ current.at = Completing(current.method) /\ current.at # 2
      /\ current.at # Completing(current.method) - 1 /\ current.at < Len(Script[current.method])
      /\ current.outcome \in {"success", "failure", "unknown"}
      /\ current.outcome = "failure" => ~current.effect
      /\ ~(current.at > Completing(current.method))
  BY <1>0, TheCall, Places DEF Call0, Placed
<1>2. current.method \notin Reads => current.facts = None
  BY <1>0, TheCall DEF Grounded
<1>3. CASE current.outcome = "success"
  <2>1. PICK d : d = [current EXCEPT !.trail = "success"]
    OBVIOUS
  <2>2. /\ d \in Call0 /\ d.method = current.method /\ d.entry = current.entry
        /\ d.key = current.key /\ d.seen = current.seen /\ d.scopes = current.scopes
        /\ d.at = current.at /\ d.effect = current.effect /\ d.since = current.since
        /\ d.outcome = current.outcome /\ d.facts = current.facts /\ d.trail = "success"
    BY <1>1, <2>1 DEF Call0
  <2>3. Advance(d)
    BY <1>3, <2>1 DEF Complete
  <2> QED
    BY <1>0, <1>1, <1>2, <1>3, <2>2, <2>3, AdvanceKeeps
<1>4. CASE current.outcome = "failure"
  <2>1. Tell("refused", "failure") /\ ~current.effect
    BY <1>1, <1>4 DEF Complete
  <2> QED
    BY <1>0, <2>1, IsTold
<1>5. CASE current.outcome = "unknown"
  <2>1. Tell("unknown", "unknown")
    BY <1>5 DEF Complete
  <2> QED
    BY <1>0, <2>1, IsTold
<1> QED
  BY <1>1, <1>3, <1>4, <1>5

LEMMA CompleteFailsKeeps ==
  ASSUME IInv, CompleteFails
  PROVE  IInv'
<1>0. Running /\ UNCHANGED World /\ Step = "complete"
  BY DEF CompleteFails, At
<1>1. /\ current.outcome \in {"success", "failure", "unknown"}
      /\ current.outcome = "success" => current.effect
      /\ current.outcome = "failure" => ~current.effect
  BY <1>0, TheCall, Places DEF Call0, Placed
<1>2. PICK trail \in {"intent", current.outcome} : Tell("unknown", trail)
  BY DEF CompleteFails
<1>3. /\ trail \in {"none", "intent", "success", "failure", "unknown"}
      /\ trail = "success" => current.effect
      /\ trail = "failure" => ~current.effect
  BY <1>1, <1>2
<1> QED
  BY <1>0, <1>2, <1>3, IsTold

\* The session or credential of the caller is good, and he may ask for this.
LEMMA AssertCallerKeeps ==
  ASSUME IInv, AssertCaller
  PROVE  IInv'
<1> DEFINE m == current.method  done == Completing(m)  at == current.at
<1>0. Running /\ UNCHANGED World /\ Step \in {"dispatch", "disclose"}
  BY DEF AssertCaller, At
<1> HIDE DEF m, done, at
<1>1. /\ at # 2 /\ at # done - 1 /\ at # done
      /\ at > done => \/ m \in Reads /\ at = done + 1
                      \/ m \notin Reads /\ at = Len(Script[m])
  BY <1>0, TheCall, Places DEF m, at, done
<1>2. CASE ~Enforced(current)
  <2>1. Throw("unknown", "refused")
    BY <1>2 DEF AssertCaller
  <2> QED
    BY <1>0, <1>1, <2>1, ThrowKeeps DEF m, at, done
<1>3. CASE Enforced(current)
  <2>1. PICK d : d = [current EXCEPT !.facts = None]
    OBVIOUS
  <2>2. Advance(d)
    BY <1>3, <2>1 DEF AssertCaller
  <2>3. /\ d \in Call0 /\ d.method = m /\ d.at = at /\ d.facts = None
        /\ d.entry = current.entry /\ d.key = current.key
        /\ d.seen = current.seen /\ d.scopes = current.scopes
        /\ d.effect = current.effect /\ d.since = current.since /\ d.outcome = current.outcome
        /\ d.trail = current.trail
    BY <1>0, <2>1, TheCall DEF Call0, m, at
  <2>4. Stands(current) /\ Required[m] \subseteq rights
    <3>1. Required[m] \subseteq rights \cap (IF current.entry = "human" THEN Actions
                                            ELSE keys[current.key].scopes)
      BY <1>3 DEF Enforced, m
    <3>2. Stands(current)
      BY <1>3 DEF Enforced
    <3> QED
      BY <3>1, <3>2
  <2>5. at > done => current.since.stands /\ Required[m] \subseteq current.since.rights
    BY <1>0, <2>4, TheCall DEF m, at, done
  <2>6. at > done /\ at < Len(Script[m]) => Found(d)
    BY <1>0, <1>1, <2>3, <2>5, TheCall, OnceIsOne DEF Found, m, at, done
  <2>7. at = Len(Script[m]) => Due(current)
    BY <1>0, <1>1, <2>5, TheCall, OnceIsOne DEF Due, Earned, Found, m, at, done
  <2> QED
    BY <1>0, <1>1, <2>2, <2>3, <2>6, <2>7, AdvanceKeeps DEF m, at, done
<1> QED
  BY <1>2, <1>3

\* What he may do now covers the key.
LEMMA DeliverKeeps ==
  ASSUME IInv, Deliver
  PROVE  IInv'
<1>0. Running /\ UNCHANGED World /\ Step = "deliver"
  BY DEF Deliver, At
<1>1. /\ current \in Call0 /\ current.method \in Deliveries /\ current.method \notin Reads
      /\ current.at = Completing(current.method) + 1 /\ current.at # 2
      /\ current.at < Len(Script[current.method]) /\ current.at > Completing(current.method)
      /\ current.at # Completing(current.method) - 1 /\ current.at # Completing(current.method)
      /\ current.entry # "agent" /\ current.facts = None /\ rights \subseteq current.since.rights
  BY <1>0, TheCall, Places, OnceIsOne DEF Grounded
<1>2. PICK d : d = current
  OBVIOUS
<1>3. CASE Deliverable(current)
  <2>1. Advance(d)
    BY <1>2, <1>3 DEF Deliver
  <2>2. Allowed(current) \subseteq rights
    BY <1>1 DEF Allowed, Facts
  <2>3. Found(d)
    BY <1>1, <1>2, <1>3, <2>2 DEF Found, Deliverable
  <2> QED
    BY <1>0, <1>1, <1>2, <2>1, <2>3, AdvanceKeeps
<1>4. CASE ~Deliverable(current)
  <2>1. Deny
    BY <1>4 DEF Deliver
  <2> QED
    BY <1>0, <1>1, <2>1, DenyKeeps
<1> QED
  BY <1>3, <1>4

LEMMA VerifyKeeps ==
  ASSUME IInv, Verify
  PROVE  IInv'
<1>0. Running /\ UNCHANGED World /\ Step = "verify"
  BY DEF Verify, At
<1>1. /\ current \in Call0 /\ current.method \notin Reads
      /\ current.at = Completing(current.method) + 2 /\ current.at # 2
      /\ current.at < Len(Script[current.method]) /\ current.at > Completing(current.method)
      /\ current.at # Completing(current.method) - 1 /\ current.at # Completing(current.method)
      /\ current.facts = None /\ Found(current)
  BY <1>0, TheCall, Places, OnceIsOne DEF Grounded, Earned
<1>2. PICK d : d = current
  OBVIOUS
<1>3. CASE Advance(current)
  <2>1. Advance(d) /\ Found(d)
    BY <1>1, <1>2, <1>3
  <2> QED
    BY <1>0, <1>1, <1>2, <2>1, AdvanceKeeps
<1>4. CASE Deny
  BY <1>0, <1>1, <1>4, DenyKeeps
<1> QED
  BY <1>3, <1>4 DEF Verify

--------------------------------------------------------------------------------
(* The work.                                                                 *)

LEMMA WorldOf ==
  WorldOK <=> /\ rights \in SUBSET Actions /\ rights \in Profiles /\ session \in BOOLEAN
              /\ KeysOK(keys)
BY DEF WorldOK, KeysOK

\* The call after its work, whether it knows of it or not.
LEMMA DidIsGrounded ==
  ASSUME IInv, Running, Step = "work", NEW effect \in Effects(current), Apply(effect),
         NEW outcome \in {"success", "unknown"}, NEW d,
         d = [Did(current, effect) EXCEPT !.outcome = outcome,
                                          !.at = Completing(current.method)]
  PROVE  WorldOK' /\ CallInv(d)'
<1> DEFINE m == current.method  done == Completing(m)
<1>1. /\ current \in Call0 /\ m \in Methods /\ Placed(current) /\ Grounded(current)
      /\ current.at = done - 1 /\ done \in Nat /\ done >= 5 /\ WorldOK
      /\ current.key \in Ids /\ current.granted \in SUBSET Ceiling /\ current.seen \in Nat
  BY TheCall, Places DEF Call0, IInv
<1>2. /\ current.trail = "intent" /\ done \in DOMAIN Script[m]
  <2>1. Script[m] \in Seq(Steps) /\ Len(Script[m]) >= done
    BY <1>1, TheCall, EveryScriptIsShaped DEF Shaped
  <2> QED
    BY <1>1, <2>1 DEF Placed
<1>3. m \in {"rotate", "tokensRevoke"} => keys[current.key] # None
  BY <1>1 DEF Grounded
<1>4. /\ KeysOK(effect.keys) /\ Evolves(keys, effect.keys)
      /\ effect.made \in Nat /\ effect.session \in {session, FALSE}
      /\ m \in Reads => effect.keys = keys /\ effect.session = session
      /\ m \in Deliveries \cup {"tokensRevoke"} => effect.keys[current.key] # None
      /\ m = "tokensRevoke" => /\ ~effect.keys[current.key].live
                               /\ effect.keys[current.key].revision = current.seen + 1
  BY <1>1, <1>3, EffectsEvolve
<1>5. keys' = effect.keys /\ session' = effect.session /\ rights' = rights
  BY DEF Apply
<1>6. session' \in BOOLEAN
  BY <1>1, <1>4, <1>5 DEF WorldOK
<1>7. WorldOK'
  BY <1>1, <1>4, <1>5, <1>6 DEF WorldOK, KeysOK
<1>8. PICK since : since = Did(current, effect).since
  OBVIOUS
<1>9. /\ since.rights = rights
      /\ since.stands = IF current.entry = "human" THEN effect.session ELSE Stands(current)
      /\ since \in [rights : SUBSET Actions, stands : BOOLEAN]
  <2>1. since = [rights |-> rights,
                 stands |-> IF current.entry = "human" THEN effect.session ELSE Stands(current)]
    BY <1>1, <1>8 DEF Did, Call0
  <2>2. (IF current.entry = "human" THEN effect.session ELSE Stands(current)) \in BOOLEAN
    BY <1>5, <1>6 DEF Stands, Verifies, Good
  <2> QED
    BY <1>1, <2>1, <2>2 DEF WorldOK
<1>10. /\ d \in Call0 /\ d.at = done /\ d.method = m /\ d.entry = current.entry
       /\ d.key = current.key /\ d.seen = current.seen /\ d.facts = current.facts
       /\ d.trail = "intent" /\ d.outcome = outcome /\ d.effect = TRUE /\ d.since = since
  BY <1>1, <1>2, <1>4, <1>8, <1>9 DEF Did, Call0
<1>11. Placed(d)'
  BY <1>1, <1>2, <1>10 DEF Placed
<1>12. Earned(d)'
  BY <1>1, <1>10 DEF Earned
<1>13. Grounded(d)'
  <2>1. /\ d.entry = "agent" => d.method \in Reads
        /\ d.method \notin Reads => d.facts = None
    BY <1>1, <1>10 DEF Grounded
  <2>2. d.entry = "agent" \/ d.method \in {"rotate", "tokensRevoke"} =>
          keys'[d.key] # None /\ d.seen <= keys'[d.key].revision
    <3>1. ASSUME d.entry = "agent" \/ d.method \in {"rotate", "tokensRevoke"}
          PROVE  keys'[d.key] # None /\ d.seen <= keys'[d.key].revision
      <4>1. keys[d.key] # None /\ d.seen <= keys[d.key].revision /\ d.key \in Ids /\ d.seen \in Nat
        BY <1>1, <1>10, <3>1 DEF Grounded
      <4>2. keys'[d.key] # None /\ keys'[d.key].revision >= keys[d.key].revision
        BY <1>4, <1>5, <4>1 DEF Evolves
      <4>3. keys[d.key].revision \in Nat /\ keys'[d.key].revision \in Nat
        BY <1>1, <1>7, <4>1, <4>2 DEF WorldOK, Keys, Key
      <4> QED
        BY <4>1, <4>2, <4>3
    <3> QED
      BY <3>1
  <2>3. rights' \subseteq d.since.rights
    BY <1>5, <1>9, <1>10
  <2>4. Stands(d)' => d.since.stands
    <3>1. CASE d.entry = "human"
      BY <1>5, <1>9, <1>10, <3>1 DEF Stands
    <3>2. CASE d.entry # "human"
      <4>1. keys' = keys /\ Stands(current) = Verifies(current.key, current.seen)
        BY <1>1, <1>4, <1>5, <1>10, <2>1, <3>2 DEF Stands, Call0
      <4>2. Stands(d)' => Stands(current)
        BY <1>5, <1>10, <3>2, <4>1 DEF Stands, Verifies, Good
      <4> QED
        BY <1>9, <1>10, <3>2, <4>2
    <3> QED
      BY <3>1, <3>2
  <2>5. /\ d.method \in Deliveries \cup {"tokensRevoke"} => keys'[d.key] # None
        /\ d.method = "tokensRevoke" =>
             ~keys'[d.key].live /\ keys'[d.key].revision = d.seen + 1
    BY <1>4, <1>5, <1>10
  <2> QED
    BY <2>1, <2>2, <2>3, <2>4, <2>5 DEF Grounded
<1> QED
  BY <1>7, <1>10, <1>11, <1>12, <1>13 DEF CallInv

LEMMA WorkKeeps ==
  ASSUME IInv, Work
  PROVE  IInv'
<1>0. Running /\ Step = "work"
  BY DEF Work, At
<1>1. PICK effect \in Effects(current) : Apply(effect) /\ Advance(Did(current, effect))
  BY DEF Work
<1>2. /\ current \in Call0 /\ current.outcome = "success"
      /\ current.at = Completing(current.method) - 1 /\ current.at # Len(Script[current.method])
      /\ Completing(current.method) = current.at + 1
  BY <1>0, TheCall, Places DEF Placed
<1>3. PICK d : d = [Did(current, effect) EXCEPT !.outcome = "success",
                                                !.at = Completing(current.method)]
  OBVIOUS
<1>4. Become(d)
  <2>1. /\ Did(current, effect).at = current.at /\ Did(current, effect).method = current.method
        /\ [Did(current, effect) EXCEPT !.at = @ + 1] = d
    BY <1>2, <1>3 DEF Did, Call0
  <2> QED
    BY <1>1, <1>2, <2>1 DEF Advance
<1>5. WorldOK' /\ CallInv(d)'
  BY <1>0, <1>1, <1>3, DidIsGrounded
<1> QED
  BY <1>4, <1>5, GoesOn

LEMMA WorkBreaksKeeps ==
  ASSUME IInv, WorkBreaks
  PROVE  IInv'
<1>0. Running /\ Step = "work"
  BY DEF WorkBreaks, At
<1>1. /\ current \in Call0 /\ current.at # Completing(current.method)
      /\ Completing(current.method) = current.at + 1
  BY <1>0, TheCall, Places
<1>2. CASE Throw("unknown", "error") /\ UNCHANGED World
  BY <1>0, <1>1, <1>2, ThrowKeeps
<1>3. ASSUME NEW effect \in Effects(current), Apply(effect),
             Become([Did(current, effect) EXCEPT !.outcome = "unknown", !.at = @ + 1])
      PROVE  IInv'
  <2>1. PICK d : d = [Did(current, effect) EXCEPT !.outcome = "unknown",
                                                  !.at = Completing(current.method)]
    OBVIOUS
  <2>2. Become(d)
    <3>1. [Did(current, effect) EXCEPT !.outcome = "unknown", !.at = @ + 1] = d
      BY <1>1, <2>1 DEF Did, Call0
    <3> QED
      BY <1>3, <3>1
  <2>3. WorldOK' /\ CallInv(d)'
    BY <1>0, <1>3, <2>1, DidIsGrounded
  <2> QED
    BY <2>2, <2>3, GoesOn
<1> QED
  BY <1>2, <1>3 DEF WorkBreaks

--------------------------------------------------------------------------------
(* What happens meanwhile.                                                   *)

LEMMA NothingIsTold ==
  ASSUME told' = None, WorldOK', (Running => CallInv(current))'
  PROVE  IInv'
BY DEF IInv, ToldOK, DisclosedWithinRights, OutcomesAreTrue

LEMMA RightsChangeKeeps ==
  ASSUME IInv, NEW allowed \in Profiles, RightsChange(allowed)
  PROVE  IInv'
<1>1. rights' = allowed /\ told' = None /\ keys' = keys /\ session' = session
  BY DEF RightsChange
<1>2. WorldOK'
  BY <1>1 DEF IInv, WorldOK
<1>3. CASE ~Running
  <2>1. current' = None
    BY <1>3 DEF RightsChange, Running
  <2> QED
    BY <1>1, <1>2, <2>1, NothingIsTold DEF Running
<1>4. CASE Running
  <2>1. /\ current \in Call0 /\ Placed(current) /\ Grounded(current) /\ Earned(current)
        /\ current.at \in Nat /\ Completing(current.method) \in Nat
    BY <1>4, TheCall
  <2>2. CASE ~current.effect
    <3>1. PICK d : d = current /\ current' = d
      BY <2>2 DEF RightsChange
    <3>2. ~(d.at > Completing(d.method))
      BY <2>1, <2>2, <3>1 DEF Placed
    <3>3. Grounded(d)'
      BY <1>1, <2>1, <2>2, <3>1 DEF Grounded
    <3>4. Placed(d)' /\ Earned(d)'
      BY <2>1, <3>1, <3>2 DEF Placed, Earned
    <3>5. CallInv(d)'
      BY <2>1, <3>1, <3>3, <3>4 DEF CallInv
    <3>6. IInv'
      <4>1. (Running => CallInv(current))'
        BY <3>1, <3>5 DEF CallInv, Placed, Grounded, Earned, Found, Stands, Verifies, Good
      <4> QED
        BY <1>1, <1>2, <4>1, NothingIsTold
    <3> QED
      BY <3>6
  <2>3. CASE current.effect
    <3>1. PICK since : since = Since(current, allowed)
      OBVIOUS
    <3>2. PICK d : d = [current EXCEPT !.since = since] /\ current' = d
      BY <1>4, <2>3, <3>1 DEF RightsChange
    <3>3. /\ since \in [rights : SUBSET Actions, stands : BOOLEAN]
          /\ since.rights = current.since.rights \cup allowed
          /\ since.stands <=> \/ current.since.stands
                              \/ /\ current.entry = "agent" /\ allowed # {}
                                 /\ Good(current.key, current.seen)
      BY <2>1, <3>1, ProfilesAssumption DEF Since, Call0, Good
    <3>4. /\ d \in Call0 /\ d.method = current.method /\ d.entry = current.entry
          /\ d.key = current.key /\ d.seen = current.seen /\ d.scopes = current.scopes
          /\ d.at = current.at /\ d.effect = current.effect /\ d.since = since
          /\ d.outcome = current.outcome /\ d.facts = current.facts /\ d.trail = current.trail
      BY <2>1, <3>2, <3>3 DEF Call0
    <3>5. Placed(d)'
      BY <2>1, <3>4 DEF Placed
    <3>6. Earned(d)'
      BY <1>1, <2>1, <3>3, <3>4 DEF Earned, Found
    <3>7. Stands(d)' => since.stands
      <4>1. CASE d.entry = "human"
        BY <1>1, <2>1, <2>3, <3>3, <3>4, <4>1 DEF Grounded, Stands
      <4>2. CASE d.entry # "human"
        <5>1. d.entry = "agent"
          BY <3>4, <4>2 DEF Call0
        <5> QED
          BY <1>1, <3>3, <3>4, <4>2, <5>1 DEF Stands, Verifies, Good
      <4> QED
        BY <4>1, <4>2
    <3>8. Grounded(d)'
      BY <1>1, <2>1, <2>3, <3>3, <3>4, <3>7 DEF Grounded
    <3>9. CallInv(d)'
      BY <3>4, <3>5, <3>6, <3>8 DEF CallInv
    <3>10. (Running => CallInv(current))'
      BY <3>2, <3>9 DEF CallInv, Placed, Grounded, Earned, Found, Stands, Verifies, Good
    <3> QED
      BY <1>1, <1>2, <3>10, NothingIsTold
  <2> QED
    BY <2>2, <2>3
<1> QED
  BY <1>3, <1>4

LEMMA SignOutKeeps ==
  ASSUME IInv, SignOut
  PROVE  IInv'
<1>1. /\ session' = FALSE /\ told' = None /\ rights' = rights /\ keys' = keys
      /\ current' = current
  BY DEF SignOut
<1>2. WorldOK'
  BY <1>1 DEF IInv, WorldOK
<1>3. ASSUME Running
      PROVE  CallInv(current)'
  <2>1. /\ current \in Call0 /\ Placed(current) /\ Grounded(current) /\ Earned(current)
    BY <1>3, TheCall
  <2>2. Stands(current)' => Stands(current)
    BY <1>1 DEF Stands, Verifies, Good
  <2>3. Grounded(current)'
    BY <1>1, <2>1, <2>2 DEF Grounded
  <2>4. Placed(current)' /\ Earned(current)'
    BY <1>1, <2>1 DEF Placed, Earned, Found
  <2> QED
    BY <1>1, <2>1, <2>3, <2>4 DEF CallInv
<1> QED
  BY <1>1, <1>2, <1>3, NothingIsTold DEF Running

\* The keys change, and nothing that was given up comes back.
LEMMA EvolvingKeeps ==
  ASSUME IInv, KeysOK(keys'), Evolves(keys, keys'), told' = None,
         UNCHANGED <<rights, session, current>>
  PROVE  IInv'
<1>2. WorldOK'
  BY WorldOf DEF IInv, WorldOK, KeysOK
<1>3. ASSUME Running
      PROVE  CallInv(current)'
  <2> DEFINE k == current.key
  <2>1. /\ current \in Call0 /\ Placed(current) /\ Grounded(current) /\ Earned(current)
        /\ k \in Ids /\ current.seen \in Nat /\ WorldOK
        /\ current.at > Completing(current.method) => current.effect
    BY <1>3, TheCall DEF Call0, IInv
  <2>2. keys[k] # None =>
          /\ keys'[k] # None /\ keys'[k].scopes = keys[k].scopes
          /\ keys'[k].revision >= keys[k].revision
          /\ keys[k].revision \in Nat /\ keys'[k].revision \in Nat
          /\ ~keys[k].live => ~keys'[k].live /\ keys'[k].revision = keys[k].revision
          /\ current.seen <= keys[k].revision /\ GoodKey(keys'[k], current.seen)
             => GoodKey(keys[k], current.seen)
    BY <1>2, <2>1 DEF Evolves, WorldOK, Keys, Key
  <2>3. Stands(current)' => Stands(current)
    <3>1. CASE current.entry = "human"
      BY <3>1 DEF Stands
    <3>2. CASE current.entry # "human"
      <4>1. keys[k] # None /\ current.seen <= keys[k].revision
        BY <2>1, <3>2 DEF Grounded, Call0
      <4> QED
        BY <2>2, <3>2, <4>1 DEF Stands, Verifies, Good, GoodKey
    <3> QED
      BY <3>1, <3>2
  <2>4. Grounded(current)'
    <3>1. /\ current.entry = "agent" => current.method \in Reads
          /\ current.method \notin Reads => current.facts = None
      BY <2>1 DEF Grounded
    <3>2. current.entry = "agent" \/ current.method \in {"rotate", "tokensRevoke"} =>
            keys'[k] # None /\ current.seen <= keys'[k].revision
      BY <2>1, <2>2 DEF Grounded
    <3>3. current.effect =>
            /\ rights \subseteq current.since.rights /\ (Stands(current)' => current.since.stands)
            /\ current.method \in Deliveries \cup {"tokensRevoke"} => keys'[k] # None
      BY <2>1, <2>2, <2>3 DEF Grounded
    <3>4. current.effect /\ current.method = "tokensRevoke" =>
            ~keys'[k].live /\ keys'[k].revision = current.seen + 1
      BY <2>1, <2>2 DEF Grounded
    <3> QED
      BY <3>1, <3>2, <3>3, <3>4 DEF Grounded
  <2>5. Placed(current)'
    BY <2>1 DEF Placed
  <2>6. Earned(current)'
    <3>1. current.at > Completing(current.method) + 1 /\ current.method \in Deliveries =>
            keys[k] # None
      BY <1>3, TheCall DEF Grounded
    <3> QED
      BY <2>1, <2>2, <3>1 DEF Earned, Found
  <2> QED
    BY <2>1, <2>4, <2>5, <2>6 DEF CallInv
<1> QED
  BY <1>2, <1>3, NothingIsTold DEF Running

LEMMA ExpireKeeps ==
  ASSUME IInv, NEW k \in Ids, Expire(k)
  PROVE  IInv'
<1>1. /\ keys[k] # None /\ told' = None /\ UNCHANGED <<rights, session, current>> /\ WorldOK
  BY DEF Expire, IInv
<1>2. PICK live \in {keys[k].live, FALSE} :
        keys' = [keys EXCEPT ![k] = [keys[k] EXCEPT !.live = live, !.overlap = FALSE]]
  BY DEF Expire
<1>3. PICK key : key = [keys[k] EXCEPT !.live = live, !.overlap = FALSE]
  OBVIOUS
<1>4. keys[k] \in Key
  BY <1>1 DEF WorldOK, Keys
<1>5. live \in BOOLEAN /\ (live => keys[k].live)
  <2>1. keys[k].live \in BOOLEAN
    BY <1>4 DEF Key
  <2>2. CASE live = keys[k].live
    BY <2>1, <2>2
  <2>3. CASE live = FALSE
    BY <2>3
  <2> QED
    BY <1>2, <2>2, <2>3
<1>6. /\ key \in Key /\ key.revision = keys[k].revision /\ key.live = live
      /\ key.scopes = keys[k].scopes /\ key.overlap = FALSE /\ keys[k].revision \in Nat
  BY <1>3, <1>4, <1>5, Older
<1>7. key.live => key.revision <= MaxRevision
  BY <1>1, <1>5, <1>6 DEF WorldOK
<1>8. /\ key.revision >= keys[k].revision
      /\ ~keys[k].live => ~key.live /\ key.revision = keys[k].revision
      /\ \A credential \in Nat :
           credential <= keys[k].revision /\ GoodKey(key, credential) => GoodKey(keys[k], credential)
  BY <1>5, <1>6 DEF GoodKey
<1>9. KeysOK(keys') /\ Evolves(keys, keys')
  BY <1>1, <1>2, <1>3, <1>6, <1>7, <1>8, OneKeyEvolves
<1> QED
  BY <1>1, <1>9, EvolvingKeeps

LEMMA MeanwhileKeeps ==
  ASSUME IInv, NEW k \in Ids, Meanwhile(k)
  PROVE  IInv'
<1>1. told' = None /\ UNCHANGED <<rights, session, current>> /\ WorldOK
  BY DEF Meanwhile, IInv
<1>2. PICK method \in {"issue", "rotate", "tokensRevoke"}, granted \in SUBSET Ceiling,
           seen \in 1..MaxRevision :
        /\ method # "issue" => keys[k] # None
        /\ \E effect \in Effects([Call(method, "human", k, seen, Actions)
                                  EXCEPT !.granted = granted]) : keys' = effect.keys
  BY DEF Meanwhile
<1>3. PICK c : c = [Call(method, "human", k, seen, Actions) EXCEPT !.granted = granted]
  OBVIOUS
<1>4. PICK effect \in Effects(c) : keys' = effect.keys
  BY <1>2, <1>3
<1>5. c.method = method /\ c.key = k /\ c.seen = seen /\ c.granted = granted /\ seen \in Nat
  BY <1>3 DEF Call
<1>6. KeysOK(effect.keys) /\ Evolves(keys, effect.keys)
  BY <1>1, <1>2, <1>5, EffectsEvolve
<1> QED
  BY <1>1, <1>4, <1>6, EvolvingKeeps

--------------------------------------------------------------------------------
(* A call begins.                                                            *)

LEMMA BeginningKeeps ==
  ASSUME IInv, UNCHANGED World,
         NEW method \in Methods, NEW entry \in {"human", "agent"}, NEW k \in Ids,
         NEW seen \in Nat, NEW scopes \in SUBSET Actions,
         entry = "agent" => method \in Reads,
         entry = "agent" \/ method \in {"rotate", "tokensRevoke"} =>
           keys[k] # None /\ seen <= keys[k].revision,
         Become(Call(method, entry, k, seen, scopes))
  PROVE  IInv'
<1>1. PICK d : d = Call(method, entry, k, seen, scopes)
  OBVIOUS
<1>2. /\ d \in Call0 /\ d.method = method /\ d.entry = entry /\ d.key = k /\ d.seen = seen
      /\ d.at = 1 /\ d.facts = None /\ d.outcome = "success" /\ d.effect = FALSE
      /\ d.trail = "none"
  BY <1>1 DEF Call, Call0
<1>3. 1 \in DOMAIN Script[method] /\ Completing(method) \in Nat /\ Completing(method) >= 5
  BY EveryScriptIsShaped DEF Shaped
<1>4. Placed(d) /\ Grounded(d) /\ Earned(d)
  BY <1>2, <1>3 DEF Placed, Grounded, Earned
<1>5. CallInv(d)' /\ WorldOK'
  BY <1>2, <1>4, TheWorldKept DEF CallInv, IInv
<1> QED
  BY <1>1, <1>5, GoesOn

LEMMA AskKeeps ==
  ASSUME IInv, NEW method \in Methods, NEW k \in Ids, NEW seen \in 0..MaxRevision,
         Ask(method, k, seen)
  PROVE  IInv'
<1>1. /\ UNCHANGED World /\ Become(Call(method, "human", k, seen, Actions))
      /\ method \in {"rotate", "tokensRevoke"} => keys[k] # None /\ seen <= keys[k].revision
  BY DEF Ask
<1>2. seen \in Nat /\ Actions \in SUBSET Actions /\ "human" \in {"human", "agent"}
  OBVIOUS
<1> QED
  BY <1>1, <1>2, BeginningKeeps

LEMMA AskAgentKeeps ==
  ASSUME IInv, NEW method \in Reads, NEW k \in Ids, NEW seen \in 0..MaxRevision,
         AskAgent(method, k, seen)
  PROVE  IInv'
<1>1. PICK scopes : scopes = keys[k].scopes \cap rights
  OBVIOUS
<1>2. /\ UNCHANGED World /\ Become(Call(method, "agent", k, seen, scopes))
      /\ keys[k] # None /\ Good(k, seen)
  BY <1>1 DEF AskAgent, Verifies, Good
<1>3. keys[k].revision \in Nat /\ rights \in SUBSET Actions
  BY <1>2 DEF IInv, WorldOK, Keys, Key
<1>4. seen \in Nat /\ seen <= keys[k].revision
  BY <1>2, <1>3 DEF Good
<1>5. method \in Methods /\ scopes \in SUBSET Actions /\ method \notin {"rotate", "tokensRevoke"}
  BY <1>1, <1>3, MethodsAre DEF Reads
<1> QED
  BY <1>2, <1>4, <1>5, BeginningKeeps

--------------------------------------------------------------------------------
LEMMA InitIsGood ==
  ASSUME Init
  PROVE  IInv
<1>1. WorldOK
  BY ProfilesAssumption DEF Init, WorldOK, Keys
<1>2. ~Running /\ told = None
  BY DEF Init, Running
<1> QED
  BY <1>1, <1>2 DEF IInv, ToldOK, DisclosedWithinRights, OutcomesAreTrue

LEMMA NextKeeps ==
  ASSUME IInv, Next
  PROVE  IInv'
BY AskKeeps, AskAgentKeeps, AuthorizeKeeps, AuthorizeDeniesKeeps, PrepareKeeps,
   AssertCallerKeeps, SeeKeeps, GrantKeeps, WorkKeeps, WorkRefusedKeeps, WorkBreaksKeeps,
   CompleteKeeps, CompleteFailsKeeps, DeliverKeeps, VerifyKeeps, BreakKeeps,
   RightsChangeKeeps, SignOutKeeps, ExpireKeeps, MeanwhileKeeps
   DEF Next

LEMMA StutterKeeps ==
  ASSUME IInv, UNCHANGED vars
  PROVE  IInv'
<1>1. UNCHANGED World /\ current' = current /\ told' = told
  BY DEF vars, World
<1>2. WorldOK'
  BY <1>1, TheWorldKept DEF IInv
<1>3. (Running => CallInv(current))'
  <2>1. PICK d : d = current
    OBVIOUS
  <2>2. Running => CallInv(d)'
    BY <1>1, <2>1, TheWorldKept DEF IInv, CallInv
  <2> QED
    BY <1>1, <2>1, <2>2 DEF Running, CallInv, Placed, Grounded, Earned, Found, Stands, Verifies, Good
<1>4. (ToldOK /\ DisclosedWithinRights /\ OutcomesAreTrue)'
  BY <1>1 DEF IInv, ToldOK, DisclosedWithinRights, OutcomesAreTrue, World
<1> QED
  BY <1>2, <1>3, <1>4 DEF IInv

\* The inductive invariant: where a call is in its script tells what became of its intent
\* and its work, and what the caller lost since the work is not among what he is credited with.
THEOREM Inductive == Spec => []IInv
<1>1. IInv /\ [Next]_vars => IInv'
  BY NextKeeps, StutterKeeps
<1> QED
  BY <1>1, InitIsGood, PTL DEF Spec

\* The type invariant.
THEOREM TypeCorrect == Spec => []TypeOK
<1>1. IInv => TypeOK
  BY DEF IInv, TypeOK, WorldOK, CallInv, Placed, ToldOK
<1> QED
  BY <1>1, Inductive, PTL

\* No answer discloses what the caller lost the right to before the work was done.
THEOREM DisclosuresAreWithinRights == Spec => []DisclosedWithinRights
<1>1. IInv => DisclosedWithinRights
  BY DEF IInv
<1> QED
  BY <1>1, Inductive, PTL

\* Answers and the trail say of the work what became of it.
THEOREM TheOutcomesAreTrue == Spec => []OutcomesAreTrue
<1>1. IInv => OutcomesAreTrue
  BY DEF IInv
<1> QED
  BY <1>1, Inductive, PTL
==============================================================================

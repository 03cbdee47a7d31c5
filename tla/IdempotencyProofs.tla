-------------------------- MODULE IdempotencyProofs --------------------------
(***************************************************************************)
(* The reservation protocol for any number of requests, keys and leads and *)
(* for any deadline, grace and TTLs that satisfy TimesAssumption, in three *)
(* parts: at most one request of a key judges (SingleFlight), the protocol *)
(* implements JudgeOnce, and what callers are told is true and kept.       *)
(*                                                                         *)
(* Part one: a request Claims its key from the answer to its SET NX    *)
(* (or take-over script) until its DEL has run or it has answered.  While  *)
(* it does, the key is never absent and never holds a judgement that a     *)
(* take-over could match, and its remaining time plus the request's age    *)
(* is at least the in-flight TTL -- more than any request lives, so it     *)
(* cannot expire under its holder.  Only a claimant sends a DEL.           *)
(***************************************************************************)
EXTENDS Idempotency, TLAPS

Claims(r) == pc[r] \in {"judge", "confirm", "release"} \/ Cmd("delete", r) \in wire

OneClaim ==
    \A r, s \in Requests : Claims(r) /\ Claims(s) /\ KeyOf[r] = KeyOf[s] => r = s

ClaimHolds ==
    \A r \in Requests : Claims(r) =>
        /\ \/ idem[KeyOf[r]] = Reserved(r)
           \/ idem[KeyOf[r]].st = "judgement" /\ idem[KeyOf[r]].schema = schema
        /\ ttl[KeyOf[r]] + elapsed[r] >= InflightTtl

\* What a take-over compares with is a judgement this schema refuses.
TakeOverIsStale ==
    \A r \in Requests : pc[r] = "takeover" \/ Cmd("takeover", r) \in wire =>
        seen[r].st = "judgement" /\ seen[r].schema # schema

\* A take-over or DEL left on the wire belongs to a request that has ended.
SenderEnded ==
    \A r \in Requests : Cmd("takeover", r) \in wire \/ Cmd("delete", r) \in wire
                         => pc[r] \in {"done", "killed"}

IInv == TypeOK /\ OneClaim /\ ClaimHolds /\ TakeOverIsStale /\ SenderEnded

-----------------------------------------------------------------------------
\* The reservation outlives every request and not the stored judgement.
LEMMA Times ==
    /\ Deadline \in Nat /\ Grace \in Nat /\ LongTtl \in Nat /\ MaxSchema \in Nat
    /\ InflightTtl \in Nat /\ InflightTtl > Deadline + Grace /\ LongTtl >= InflightTtl
<1>1. Multiplier * Deadline \in Nat BY TimesAssumption
<1> QED BY <1>1, TimesAssumption DEF InflightTtl

LEMMA Entries ==
    /\ Absent \in Entry
    /\ \A r \in Requests : Reserved(r) \in Entry
    /\ schema \in 0..MaxSchema => \A r \in Requests : Judgement(r) \in Entry
BY Times DEF Absent, Reserved, Judgement, Entry

\* Whatever the server does for a command keeps the store well typed.
LEMMA PutType ==
    ASSUME NEW k \in Keys, NEW v \in Entry, NEW t \in 0..LongTtl, TypeOK, Put(k, v, t)
    PROVE  idem' \in [Keys -> Entry] /\ ttl' \in [Keys -> 0..LongTtl]
BY DEF Put, TypeOK

LEMMA ServerType ==
    ASSUME TypeOK, NEW r \in Requests,
           SetNX(r) \/ TakeOverScript(r) \/ SetXX(r) \/ Del(r) \/ NoEffect
    PROVE  idem' \in [Keys -> Entry] /\ ttl' \in [Keys -> 0..LongTtl]
<1>1. KeyOf[r] \in Keys BY RequestsAssumption
<1>2. InflightTtl \in 0..LongTtl /\ LongTtl \in 0..LongTtl /\ 0 \in 0..LongTtl BY Times
<1>3. Absent \in Entry /\ Reserved(r) \in Entry /\ Judgement(r) \in Entry
  BY Entries DEF TypeOK
<1>4. NoEffect => idem' \in [Keys -> Entry] /\ ttl' \in [Keys -> 0..LongTtl]
  BY DEF NoEffect, TypeOK
<1>5. CASE SetNX(r) BY <1>1, <1>2, <1>3, <1>4, <1>5, PutType DEF SetNX
<1>6. CASE TakeOverScript(r) BY <1>1, <1>2, <1>3, <1>4, <1>6, PutType DEF TakeOverScript
<1>7. CASE SetXX(r) BY <1>1, <1>2, <1>3, <1>4, <1>7, PutType DEF SetXX
<1>8. CASE Del(r) BY <1>1, <1>2, <1>3, <1>8, PutType DEF Del
<1> QED BY <1>4, <1>5, <1>6, <1>7, <1>8

\* Every state satisfies the type invariant.
LEMMA TypeInit == Init => TypeOK
BY Times, Entries, RequestsAssumption
   DEF Init, TypeOK, PC, InFlight, Body, Answers

LEMMA TypeNext ==
    ASSUME TypeOK, [Next]_vars
    PROVE  TypeOK'
<1> USE DEF TypeOK, Goto, Finish, CutOff, Cmd, Ops, PC, InFlight, Body, Answers
<1>1. ASSUME NEW r \in Requests, Start(r) PROVE TypeOK'
  BY <1>1 DEF Start, NoEffect
<1>2. ASSUME NEW r \in Requests, ReserveAnswered(r) PROVE TypeOK'
  <2>1. idem' \in [Keys -> Entry] /\ ttl' \in [Keys -> 0..LongTtl]
    BY <1>2, ServerType DEF ReserveAnswered
  <2>2. (idem[KeyOf[r]].st = "none") \in BOOLEAN OBVIOUS
  <2> QED BY <1>2, <2>1, <2>2 DEF ReserveAnswered
<1>3. ASSUME NEW r \in Requests, ReadAnswered(r) PROVE TypeOK'
  <2>1. idem[KeyOf[r]] \in Entry BY RequestsAssumption
  <2> QED BY <1>3, <2>1 DEF ReadAnswered, NoEffect
<1>4. ASSUME NEW r \in Requests, TakeOverAnswered(r) PROVE TypeOK'
  <2>1. idem' \in [Keys -> Entry] /\ ttl' \in [Keys -> 0..LongTtl]
    BY <1>4, ServerType DEF TakeOverAnswered
  <2> QED BY <1>4, <2>1 DEF TakeOverAnswered
<1>5. ASSUME NEW r \in Requests, ClaimFails(r) PROVE TypeOK'
  BY <1>5 DEF ClaimFails, NoEffect
<1>6. ASSUME NEW r \in Requests, Judge(r) PROVE TypeOK'
  BY <1>6 DEF Judge, NoEffect
<1>7. ASSUME NEW r \in Requests, Confirm(r) PROVE TypeOK'
  <2>1. idem' \in [Keys -> Entry] /\ ttl' \in [Keys -> 0..LongTtl]
    BY <1>7, ServerType DEF Confirm
  <2>2. storeFailed' \in [Requests -> BOOLEAN] BY <1>7, Zenon DEF Confirm
  <2>3. wire' \subseteq [op : Ops, by : Requests] BY <1>7 DEF Confirm
  <2>4. pc' \in [Requests -> PC] BY <1>7 DEF Confirm
  <2>5. UNCHANGED <<elapsed, seen, answer, claimed, schema>> BY <1>7 DEF Confirm
  <2> QED BY <2>1, <2>2, <2>3, <2>4, <2>5, Zenon
<1>8. ASSUME NEW r \in Requests, Reference(r) PROVE TypeOK'
  BY <1>8 DEF Reference, NoEffect
<1>9. ASSUME NEW r \in Requests, Release(r) PROVE TypeOK'
  <2>1. idem' \in [Keys -> Entry] /\ ttl' \in [Keys -> 0..LongTtl]
    BY <1>9, ServerType DEF Release
  <2>2. storeFailed' \in [Requests -> BOOLEAN] BY <1>9, Zenon DEF Release
  <2>3. wire' \subseteq [op : Ops, by : Requests] BY <1>9 DEF Release
  <2>4. pc' \in [Requests -> PC] BY <1>9 DEF Release
  <2>5. UNCHANGED <<elapsed, seen, answer, claimed, schema>> BY <1>9 DEF Release
  <2> QED BY <2>1, <2>2, <2>3, <2>4, <2>5, Zenon
<1>10. ASSUME NEW r \in Requests, Cancel(r) PROVE TypeOK'
  BY <1>10 DEF Cancel, CancelBeforeClaim, CancelInTry, CancelAfterTry, NoEffect
<1>11. ASSUME NEW r \in Requests, Kill(r) PROVE TypeOK'
  <2>1. Awaited(r) \subseteq [op : Ops, by : Requests] BY DEF Awaited
  <2>2. wire' \subseteq [op : Ops, by : Requests] BY <1>11, <2>1 DEF Kill
  <2> QED BY <1>11, <2>2 DEF Kill, NoEffect
<1>12. CASE Late
  <2>1. PICK c \in wire : /\ wire' = wire \ {c}
                          /\ RunLate(c) \/ DropLate(c)
                          /\ UNCHANGED <<pc, elapsed, seen, answer, claimed, schema>>
    BY <1>12 DEF Late
  <2>2. c.by \in Requests OBVIOUS
  <2>3. idem' \in [Keys -> Entry] /\ ttl' \in [Keys -> 0..LongTtl]
    BY <2>1, <2>2, ServerType DEF RunLate, DropLate
  <2>4. storeFailed' \in [Requests -> BOOLEAN] BY <2>1, <2>2 DEF RunLate, DropLate
  <2> QED BY <2>1, <2>3, <2>4
<1>13. CASE Tick
  <2>1. idem' \in [Keys -> Entry] BY <1>13, Entries DEF Tick, Advance
  <2>2. ttl' \in [Keys -> 0..LongTtl] BY <1>13, Times DEF Tick, Advance
  <2>3. elapsed' \in [Requests -> 0..(Deadline + Grace)]
    BY <1>13, Times DEF Tick, Advance
  <2> QED BY <1>13, <2>1, <2>2, <2>3 DEF Tick, Advance
<1>14. CASE Deploy
  BY <1>14, Times DEF Deploy, NoEffect
<1>15. CASE UNCHANGED vars
  BY <1>15 DEF vars
<1> QED BY <1>1, <1>2, <1>3, <1>4, <1>5, <1>6, <1>7, <1>8, <1>9, <1>10, <1>11,
           <1>12, <1>13, <1>14, <1>15 DEF Next, Step

-----------------------------------------------------------------------------
(* SingleFlight *)

LEMMA InitIInv == Init => IInv
BY TypeInit DEF Init, IInv, OneClaim, ClaimHolds, TakeOverIsStale, SenderEnded,
   Claims

\* What a claimed key holds.
LEMMA Held ==
    ASSUME IInv, NEW s \in Requests, Claims(s)
    PROVE  /\ \/ idem[KeyOf[s]] = Reserved(s)
              \/ idem[KeyOf[s]].st = "judgement" /\ idem[KeyOf[s]].schema = schema
           /\ idem[KeyOf[s]].st # "none"
           /\ \A v : v.st = "judgement" /\ v.schema # schema => idem[KeyOf[s]] # v
<1>1. \/ idem[KeyOf[s]] = Reserved(s)
      \/ idem[KeyOf[s]].st = "judgement" /\ idem[KeyOf[s]].schema = schema
  BY Zenon DEF IInv, ClaimHolds
<1> QED BY <1>1 DEF Reserved

\* A step that starts no claim and leaves the held keys alone keeps the claims.
LEMMA ClaimsKept ==
    ASSUME IInv,
           \A s \in Requests : Claims(s)' => Claims(s),
           \A s \in Requests : Claims(s) =>
               /\ \/ idem'[KeyOf[s]] = idem[KeyOf[s]]
                  \/ /\ idem'[KeyOf[s]].st = "judgement"
                     /\ idem'[KeyOf[s]].schema = schema
               /\ \/ ttl'[KeyOf[s]] = ttl[KeyOf[s]]
                  \/ ttl'[KeyOf[s]] = LongTtl,
           elapsed' = elapsed, schema' = schema
    PROVE  OneClaim' /\ ClaimHolds'
<1>1. OneClaim' BY DEF IInv, OneClaim
<1>2. ASSUME NEW s \in Requests, Claims(s)' PROVE ClaimHolds!(s)!2'
  <2>1. Claims(s) BY <1>2
  <2>2. KeyOf[s] \in Keys /\ elapsed[s] \in Nat /\ ttl[KeyOf[s]] \in Nat
    BY RequestsAssumption, Times DEF IInv, TypeOK
  <2> QED BY <2>1, <2>2, Times DEF IInv, ClaimHolds, Reserved
<1> QED BY <1>1, <1>2 DEF ClaimHolds

\* A step by which r takes a key nobody holds makes r its one claimant.
LEMMA ClaimMade ==
    ASSUME IInv, NEW r \in Requests,
           \A s \in Requests : Claims(s)' => Claims(s) \/ s = r,
           \A s \in Requests : Claims(s) => KeyOf[s] # KeyOf[r],
           Put(KeyOf[r], Reserved(r), InflightTtl),
           elapsed' = elapsed, schema' = schema
    PROVE  OneClaim' /\ ClaimHolds'
<1>1. OneClaim' BY DEF IInv, OneClaim
<1>2. ASSUME NEW s \in Requests, Claims(s)' PROVE ClaimHolds!(s)!2'
  <2>1. KeyOf[s] \in Keys /\ elapsed[s] \in Nat /\ ttl[KeyOf[s]] \in Nat
    BY RequestsAssumption, Times DEF IInv, TypeOK
  <2>2. CASE s = r
    BY <2>1, <2>2, Times DEF Put, IInv, TypeOK, Reserved
  <2>3. CASE s # r
    BY <1>2, <2>1, <2>3 DEF Put, IInv, TypeOK, ClaimHolds, Reserved
  <2> QED BY <2>2, <2>3
<1> QED BY <1>1, <1>2 DEF ClaimHolds

\* What each command does to a held key: nothing, or a judgement in this
\* schema for the long TTL; a DEL of the holder's own key needs no such fact.
LEMMA ServerKeeps ==
    ASSUME IInv, NEW r \in Requests, NEW s \in Requests, Claims(s),
           \/ SetNX(r) \/ SetXX(r) \/ NoEffect
           \/ TakeOverScript(r) /\ (pc[r] = "takeover" \/ Cmd("takeover", r) \in wire)
           \/ Del(r) /\ Claims(r) /\ s # r
    PROVE  /\ \/ idem'[KeyOf[s]] = idem[KeyOf[s]]
              \/ /\ idem'[KeyOf[s]].st = "judgement"
                 /\ idem'[KeyOf[s]].schema = schema
           /\ \/ ttl'[KeyOf[s]] = ttl[KeyOf[s]]
              \/ ttl'[KeyOf[s]] = LongTtl
<1>1. KeyOf[r] \in Keys /\ KeyOf[s] \in Keys BY RequestsAssumption
<1>2. idem[KeyOf[s]].st # "none" BY Held
<1>3. idem \in [Keys -> Entry] /\ ttl \in [Keys -> 0..LongTtl] BY DEF IInv, TypeOK
<1>4. CASE SetNX(r) BY <1>1, <1>2, <1>3, <1>4 DEF SetNX, Put, NoEffect
<1>5. CASE SetXX(r) BY <1>1, <1>2, <1>3, <1>5 DEF SetXX, Put, NoEffect, Judgement
<1>6. CASE NoEffect BY <1>6 DEF NoEffect
<1>7. CASE TakeOverScript(r) /\ (pc[r] = "takeover" \/ Cmd("takeover", r) \in wire)
  <2>1. seen[r].st = "judgement" /\ seen[r].schema # schema
    BY <1>7 DEF IInv, TakeOverIsStale
  <2>2. idem[KeyOf[s]] # seen[r] BY <2>1, Held
  <2> QED BY <1>1, <1>3, <1>7, <2>2 DEF TakeOverScript, Put, NoEffect
<1>8. CASE Del(r) /\ Claims(r) /\ s # r
  <2>1. KeyOf[s] # KeyOf[r] BY <1>8 DEF IInv, OneClaim
  <2> QED BY <1>1, <1>3, <1>8, <2>1 DEF Del, Put
<1> QED BY <1>4, <1>5, <1>6, <1>7, <1>8

\* What a command left on the wire says of its sender survives a step that
\* sends no take-over and lets no sender of one resume.
LEMMA StaleKept ==
    ASSUME IInv,
           \A s \in Requests :
               pc'[s] = "takeover" \/ Cmd("takeover", s) \in wire'
                 => pc[s] = "takeover" \/ Cmd("takeover", s) \in wire,
           \A s \in Requests : pc[s] # "existing" => seen'[s] = seen[s],
           \A s \in Requests : Cmd("takeover", s) \in wire' \/ Cmd("delete", s) \in wire'
                                 => pc'[s] \in {"done", "killed"},
           schema' = schema
    PROVE  TakeOverIsStale' /\ SenderEnded'
BY DEF IInv, TakeOverIsStale, SenderEnded

\* A DEL, run by or for the request that claims the key, gives the key up.
LEMMA DelKeeps ==
    ASSUME IInv, NEW r \in Requests, Claims(r), Del(r),
           \A s \in Requests : Claims(s)' => Claims(s),
           ~Claims(r)',
           elapsed' = elapsed, schema' = schema
    PROVE  OneClaim' /\ ClaimHolds'
<1>1. OneClaim' BY DEF IInv, OneClaim
<1>2. ASSUME NEW s \in Requests, Claims(s)' PROVE ClaimHolds!(s)!2'
  <2>1. Claims(s) /\ s # r /\ KeyOf[s] # KeyOf[r] BY <1>2 DEF IInv, OneClaim
  <2>2. KeyOf[s] \in Keys /\ KeyOf[r] \in Keys BY RequestsAssumption
  <2>3. idem'[KeyOf[s]] = idem[KeyOf[s]] /\ ttl'[KeyOf[s]] = ttl[KeyOf[s]]
    BY <2>1, <2>2 DEF Del, Put, IInv, TypeOK
  <2> QED BY <2>1, <2>3 DEF IInv, ClaimHolds, Reserved
<1> QED BY <1>1, <1>2 DEF ClaimHolds

\* A tick does not expire a key under its claimant.
LEMMA TickKeeps ==
    ASSUME IInv, Tick, NEW s \in Requests, Claims(s)
    PROVE  /\ idem'[KeyOf[s]] = idem[KeyOf[s]]
           /\ ttl'[KeyOf[s]] + elapsed'[s] >= InflightTtl
<1>1. Live(s) BY DEF Live, Claims, InFlight, Body, Cmd
<1>2. elapsed[s] < Deadline + Grace /\ elapsed'[s] = elapsed[s] + 1
  BY <1>1 DEF Tick, Advance
<1>3. /\ KeyOf[s] \in Keys /\ elapsed[s] \in Nat /\ ttl[KeyOf[s]] \in Nat
      /\ ttl[KeyOf[s]] + elapsed[s] >= InflightTtl
  BY RequestsAssumption, Times DEF IInv, TypeOK, ClaimHolds
<1>4. ttl[KeyOf[s]] > 1 BY <1>2, <1>3, Times
<1> QED BY <1>2, <1>3, <1>4 DEF Tick, Advance

\* Each action keeps the inductive invariant.
LEMMA NextIInv ==
    ASSUME IInv, [Next]_vars
    PROVE  IInv'
<1> USE DEF Claims, Goto, Finish, CutOff, Cmd
<1>t. TypeOK' /\ TypeOK BY TypeNext DEF IInv
<1>k. \A s \in Requests : KeyOf[s] \in Keys BY RequestsAssumption
<1>p. pc \in [Requests -> PC] BY <1>t DEF TypeOK
<1>a. \A s \in Requests : Cmd("takeover", s) \in wire \/ Cmd("delete", s) \in wire
                            => pc[s] \in {"done", "killed"}
  BY DEF IInv, SenderEnded
<1> DEFINE Safe == OneClaim' /\ ClaimHolds'
           Stale == TakeOverIsStale' /\ SenderEnded'
<1>1. ASSUME NEW r \in Requests, Start(r) PROVE Safe /\ Stale
  <2>1. Safe BY <1>1, <1>p, ClaimsKept DEF Start, NoEffect
  <2>2. Stale BY <1>1, <1>p, <1>a, StaleKept DEF Start
  <2> QED BY <2>1, <2>2
<1>2. ASSUME NEW r \in Requests, ReserveAnswered(r) PROVE Safe /\ Stale
  <2>0. Stale BY <1>2, <1>p, <1>a, StaleKept DEF ReserveAnswered
  <2>1. CASE idem[KeyOf[r]].st = "none"
    <3>1. \A s \in Requests : Claims(s) => KeyOf[s] # KeyOf[r]
      BY <2>1, Held
    <3>2. \A s \in Requests : Claims(s)' => Claims(s) \/ s = r
      BY <1>2, <1>p DEF ReserveAnswered
    <3>3. Put(KeyOf[r], Reserved(r), InflightTtl) BY <1>2, <2>1 DEF ReserveAnswered, SetNX
    <3>4. elapsed' = elapsed /\ schema' = schema BY <1>2 DEF ReserveAnswered
    <3> HIDE DEF Claims
    <3> QED BY <2>0, <3>1, <3>2, <3>3, <3>4, ClaimMade
  <2>2. CASE idem[KeyOf[r]].st # "none"
    <3>1. \A s \in Requests : Claims(s)' => Claims(s) BY <1>2, <1>p, <2>2 DEF ReserveAnswered
    <3>2. idem' = idem /\ ttl' = ttl BY <1>2, <2>2 DEF ReserveAnswered, SetNX, NoEffect
    <3>3. elapsed' = elapsed /\ schema' = schema BY <1>2 DEF ReserveAnswered
    <3> HIDE DEF Claims
    <3> QED BY <2>0, <3>1, <3>2, <3>3, ClaimsKept
  <2> QED BY <2>1, <2>2, <2>0
<1>3. ASSUME NEW r \in Requests, ReadAnswered(r) PROVE Safe /\ Stale
  <2>1. Safe BY <1>3, <1>p, ClaimsKept DEF ReadAnswered, NoEffect
  <2>2. wire' = wire /\ schema' = schema /\ pc[r] = "existing"
    BY <1>3 DEF ReadAnswered
  <2>3. \A s \in Requests \ {r} : pc'[s] = pc[s] /\ seen'[s] = seen[s]
    BY <1>3, <1>p, <1>t DEF ReadAnswered, TypeOK
  <2>4. pc'[r] = "takeover" => seen'[r].st = "judgement" /\ seen'[r].schema # schema
    BY <1>3, <1>p, <1>t DEF ReadAnswered, TypeOK
  <2>5. Cmd("takeover", r) \notin wire /\ Cmd("delete", r) \notin wire
    BY <1>a, <2>2
  <2>6. TakeOverIsStale'
    BY <2>2, <2>3, <2>4, <2>5 DEF IInv, TakeOverIsStale
  <2>7. SenderEnded'
    BY <1>a, <2>2, <2>3, <2>5 DEF SenderEnded
  <2> QED BY <2>1, <2>6, <2>7
<1>4. ASSUME NEW r \in Requests, TakeOverAnswered(r) PROVE Safe /\ Stale
  <2>0. Stale BY <1>4, <1>p, <1>a, StaleKept DEF TakeOverAnswered
  <2>1. CASE idem[KeyOf[r]] = seen[r]
    <3>1. seen[r].st = "judgement" /\ seen[r].schema # schema
      BY <1>4 DEF TakeOverAnswered, IInv, TakeOverIsStale
    <3>2. \A s \in Requests : Claims(s) => KeyOf[s] # KeyOf[r]
      <4>1. ASSUME NEW s \in Requests, Claims(s), KeyOf[s] = KeyOf[r] PROVE FALSE
        BY <2>1, <3>1, <4>1, Held
      <4> QED BY <4>1
    <3>3. \A s \in Requests : Claims(s)' => Claims(s) \/ s = r
      BY <1>4, <1>p DEF TakeOverAnswered
    <3>4. Put(KeyOf[r], Reserved(r), InflightTtl)
      BY <1>4, <2>1 DEF TakeOverAnswered, TakeOverScript
    <3>5. elapsed' = elapsed /\ schema' = schema BY <1>4 DEF TakeOverAnswered
    <3> HIDE DEF Claims
    <3> QED BY <2>0, <3>2, <3>3, <3>4, <3>5, ClaimMade
  <2>2. CASE idem[KeyOf[r]] # seen[r]
    <3>1. \A s \in Requests : Claims(s)' => Claims(s) BY <1>4, <1>p, <2>2 DEF TakeOverAnswered
    <3>2. idem' = idem /\ ttl' = ttl BY <1>4, <2>2 DEF TakeOverAnswered, TakeOverScript, NoEffect
    <3>3. elapsed' = elapsed /\ schema' = schema BY <1>4 DEF TakeOverAnswered
    <3> HIDE DEF Claims
    <3> QED BY <2>0, <3>1, <3>2, <3>3, ClaimsKept
  <2> QED BY <2>1, <2>2, <2>0
<1>5. ASSUME NEW r \in Requests, ClaimFails(r) PROVE Safe /\ Stale
  <2>1. Safe BY <1>5, <1>p, ClaimsKept DEF ClaimFails, NoEffect
  <2>2. Stale BY <1>5, <1>p, <1>a, StaleKept DEF ClaimFails
  <2> QED BY <2>1, <2>2
<1>6. ASSUME NEW r \in Requests, Judge(r) PROVE Safe /\ Stale
  <2>1. Safe BY <1>6, <1>p, ClaimsKept DEF Judge, NoEffect
  <2>2. Stale BY <1>6, <1>p, <1>a, StaleKept DEF Judge
  <2> QED BY <2>1, <2>2
<1>7. ASSUME NEW r \in Requests, Confirm(r) PROVE Safe /\ Stale
  <2>1. SetXX(r) \/ NoEffect BY <1>7 DEF Confirm
  <2>2. \A s \in Requests : Claims(s)' => Claims(s) BY <1>7, <1>p DEF Confirm
  <2>3. elapsed' = elapsed /\ schema' = schema BY <1>7 DEF Confirm
  <2>4. Safe BY <2>1, <2>2, <2>3, ServerKeeps, ClaimsKept
  <2>5. Stale BY <1>7, <1>p, <1>a, StaleKept DEF Confirm
  <2> QED BY <2>4, <2>5
<1>8. ASSUME NEW r \in Requests, Reference(r) PROVE Safe /\ Stale
  <2>1. Safe BY <1>8, <1>p, ClaimsKept DEF Reference, NoEffect
  <2>2. Stale BY <1>8, <1>p, <1>a, StaleKept DEF Reference
  <2> QED BY <2>1, <2>2
<1>9. ASSUME NEW r \in Requests, Release(r) PROVE Safe /\ Stale
  <2>0. Stale BY <1>9, <1>p, <1>a, StaleKept DEF Release
  <2>1. Claims(r) /\ (Del(r) \/ NoEffect) BY <1>9 DEF Release
  <2>2. \A s \in Requests : Claims(s)' => Claims(s) BY <1>9, <1>p DEF Release
  <2>3. elapsed' = elapsed /\ schema' = schema BY <1>9 DEF Release
  <2>4. CASE NoEffect
    <3>1. idem' = idem /\ ttl' = ttl BY <2>4 DEF NoEffect
    <3> HIDE DEF Claims
    <3> QED BY <2>0, <2>2, <2>3, <3>1, ClaimsKept
  <2>5. CASE ~NoEffect
    <3>1. Del(r) /\ ~Claims(r)'
      BY <1>9, <1>p, <1>a, <2>5 DEF Release
    <3> HIDE DEF Claims
    <3> QED BY <2>0, <2>1, <2>2, <2>3, <3>1, DelKeeps
  <2> QED BY <2>1, <2>4, <2>5, <2>0
<1>10. ASSUME NEW r \in Requests, Cancel(r) PROVE Safe /\ Stale
  <2> USE DEF Cancel, CancelBeforeClaim, CancelInTry, CancelAfterTry
  <2>1. Safe BY <1>10, <1>p, ClaimsKept DEF NoEffect
  <2>2. Stale BY <1>10, <1>p, <1>a, StaleKept
  <2> QED BY <2>1, <2>2
<1>11. ASSUME NEW r \in Requests, Kill(r) PROVE Safe /\ Stale
  <2>1. \A s \in Requests : Claims(s)' => Claims(s)
    BY <1>11, <1>p DEF Kill, Awaited, InFlight, Body
  <2>3. idem' = idem /\ ttl' = ttl /\ elapsed' = elapsed /\ schema' = schema
    BY <1>11 DEF Kill, NoEffect
  <2>2. Stale BY <1>11, <1>p, <1>a, StaleKept DEF Kill, Awaited, InFlight, Body
  <2> HIDE DEF Claims
  <2>4. Safe BY <2>1, <2>3, ClaimsKept
  <2> QED BY <2>2, <2>4
<1>12. ASSUME Late PROVE Safe /\ Stale
  <2>1. PICK c \in wire : /\ wire' = wire \ {c}
                          /\ RunLate(c) \/ DropLate(c)
                          /\ UNCHANGED <<pc, elapsed, seen, answer, claimed, schema>>
    BY <1>12 DEF Late
  <2>0. Stale BY <2>1, <1>a, StaleKept
  <2>2. c.by \in Requests /\ c = Cmd(c.op, c.by) BY <1>t DEF TypeOK
  <2>3. \A s \in Requests : Claims(s)' => Claims(s) BY <2>1
  <2>4. CASE c.op = "delete" /\ Del(c.by)
    <3>1. Claims(c.by) /\ ~Claims(c.by)' BY <1>a, <2>1, <2>2, <2>4
    <3>2. elapsed' = elapsed /\ schema' = schema BY <2>1
    <3> HIDE DEF Claims
    <3> QED BY <2>0, <2>2, <2>3, <2>4, <3>1, <3>2, DelKeeps
  <2>5. CASE ~(c.op = "delete" /\ Del(c.by))
    <3>1. \/ SetNX(c.by) \/ SetXX(c.by) \/ NoEffect
          \/ TakeOverScript(c.by) /\ Cmd("takeover", c.by) \in wire
      BY <2>1, <2>2, <2>5 DEF RunLate, DropLate
    <3>2. elapsed' = elapsed /\ schema' = schema BY <2>1
    <3> HIDE DEF Claims
    <3>3. \A s \in Requests : Claims(s) =>
             /\ \/ idem'[KeyOf[s]] = idem[KeyOf[s]]
                \/ /\ idem'[KeyOf[s]].st = "judgement"
                   /\ idem'[KeyOf[s]].schema = schema
             /\ \/ ttl'[KeyOf[s]] = ttl[KeyOf[s]]
                \/ ttl'[KeyOf[s]] = LongTtl
      BY <2>2, <3>1, ServerKeeps
    <3> QED BY <2>0, <2>3, <3>2, <3>3, ClaimsKept
  <2> QED BY <2>4, <2>5, <2>0
<1>13. ASSUME Tick PROVE Safe /\ Stale
  <2>1. Stale BY <1>13 DEF Tick, Advance, IInv, TakeOverIsStale, SenderEnded
  <2>2. OneClaim' BY <1>13 DEF Tick, Advance, IInv, OneClaim
  <2>3. ASSUME NEW s \in Requests, Claims(s)' PROVE ClaimHolds!(s)!2'
    <3>1. Claims(s) /\ schema' = schema BY <1>13, <2>3 DEF Tick, Advance
    <3> QED BY <1>13, <3>1, TickKeeps DEF IInv, ClaimHolds, Reserved
  <2>4. ClaimHolds' BY <2>3, Zenon DEF ClaimHolds
  <2> QED BY <2>1, <2>2, <2>4
<1>14. ASSUME Deploy PROVE Safe /\ Stale
  <2>1. \A s \in Requests : ~Claims(s)' /\ pc'[s] # "takeover" /\ wire' = {}
    BY <1>14, <1>p DEF Deploy, InFlight, Body
  <2>2. TakeOverIsStale' /\ SenderEnded' BY <2>1 DEF TakeOverIsStale, SenderEnded
  <2> HIDE DEF Claims
  <2>3. OneClaim' /\ ClaimHolds' BY <2>1, Zenon DEF OneClaim, ClaimHolds
  <2> QED BY <2>2, <2>3
<1>15. ASSUME UNCHANGED vars PROVE Safe /\ Stale
  <2>1. /\ UNCHANGED <<idem, ttl, elapsed, schema>>
        /\ UNCHANGED <<pc, wire, seen>>
    BY <1>15 DEF vars
  <2>2. \A s \in Requests : Claims(s)' => Claims(s) BY <2>1
  <2>3. Stale BY <2>1, <1>a, StaleKept
  <2> HIDE DEF Claims
  <2>4. Safe BY <2>1, <2>2, ClaimsKept
  <2> QED BY <2>3, <2>4
<1> QED
  <2>1. CASE UNCHANGED vars BY <2>1, <1>15, <1>t DEF IInv
  <2>2. CASE Next
    BY <2>2, <1>t, <1>1, <1>2, <1>3, <1>4, <1>5, <1>6, <1>7, <1>8, <1>9, <1>10,
       <1>11, <1>12, <1>13, <1>14 DEF Next, Step, IInv
  <2> QED BY <2>1, <2>2

THEOREM IdempotencyInvariant == Spec => []IInv
BY InitIInv, NextIInv, PTL DEF Spec

\* Every value in the store, every clock and every request's state keeps its
\* type; in particular no request outlives its deadline and its db2 timeouts.
THEOREM IdempotencyTypeOK == Spec => []TypeOK
<1>1. IInv => TypeOK BY DEF IInv
<1> QED BY <1>1, IdempotencyInvariant, PTL

\* Two judgements for one key are never under way at once (pipeline._judge,
\* state.py): however requests are cancelled, killed, expire or land late.
THEOREM IdempotencySingleFlight == Spec => []SingleFlight
<1>1. IInv => SingleFlight BY DEF IInv, OneClaim, SingleFlight, Claims
<1> QED BY <1>1, IdempotencyInvariant, PTL

-----------------------------------------------------------------------------
(* Part two.  Idempotency implements JudgeOnce: the initial state maps to  *)
(* the initial state and every step to a step or a stutter.                *)
(*                                                                         *)
(* On top of IInv the argument needs that only who was told it holds a key *)
(* judges or stores, that no caller is answered early, and that no stored  *)
(* judgement is of a schema to come.                                       *)

JudgesIfClaimed ==
    \A r \in Requests :
        /\ pc[r] \in {"judge", "confirm"} => claimed[r]
        /\ pc[r] \in {"arrive", "reserve", "existing", "takeover"} => ~claimed[r]

StoresIfClaimed ==
    \A r \in Requests : Cmd("confirm", r) \in wire =>
        claimed[r] /\ pc[r] \in {"release", "reference", "done", "killed"}

UnansweredInFlight ==
    \A r \in Requests : pc[r] \notin {"release", "done", "killed"} => answer[r] = "none"

ReleasingUntold ==
    \A r \in Requests : pc[r] = "release" => answer[r] \notin {"judged", "replayed"}

SchemaPast ==
    \A k \in Keys : idem[k].st = "judgement" => idem[k].by \in Requests /\ idem[k].schema <= schema

RInv == JudgesIfClaimed /\ StoresIfClaimed /\ UnansweredInFlight /\ ReleasingUntold
        /\ SchemaPast

-----------------------------------------------------------------------------
LEMMA InitRInv == Init => RInv
BY RequestsAssumption DEF Init, RInv, JudgesIfClaimed, StoresIfClaimed, UnansweredInFlight,
                            ReleasingUntold, SchemaPast, Absent

\* Whatever the server does for a command stores no schema but the current one.
LEMMA ServerPast ==
    ASSUME IInv, SchemaPast, NEW r \in Requests, schema' = schema,
           SetNX(r) \/ TakeOverScript(r) \/ SetXX(r) \/ Del(r) \/ NoEffect
    PROVE  SchemaPast'
<1>1. /\ KeyOf[r] \in Keys /\ idem \in [Keys -> Entry] /\ schema \in Nat
  BY RequestsAssumption, Times DEF IInv, TypeOK
<1> QED
  BY <1>1 DEF SchemaPast, SetNX, TakeOverScript, SetXX, Del, NoEffect, Put, Reserved,
              Absent, Judgement

LEMMA NextRInv == IInv /\ RInv /\ [Next]_vars => RInv'
<1> SUFFICES ASSUME IInv, RInv, [Next]_vars PROVE RInv'
  OBVIOUS
<1> USE DEF Goto, Finish, CutOff, Cmd
<1>t. /\ pc \in [Requests -> PC] /\ claimed \in [Requests -> BOOLEAN]
      /\ answer \in [Requests -> Answers] /\ wire \subseteq [op : Ops, by : Requests]
  BY DEF IInv, TypeOK
<1>i. JudgesIfClaimed /\ StoresIfClaimed /\ UnansweredInFlight /\ ReleasingUntold /\ SchemaPast BY DEF RInv
<1> DEFINE Flags == JudgesIfClaimed' /\ StoresIfClaimed' /\ UnansweredInFlight'
                    /\ ReleasingUntold'
<1> USE DEF JudgesIfClaimed, StoresIfClaimed, UnansweredInFlight, ReleasingUntold
<1>1. ASSUME NEW r \in Requests, Start(r) PROVE Flags /\ SchemaPast'
  <2>1. Flags BY <1>1, <1>t, <1>i DEF Start
  <2>2. SchemaPast' BY <1>1, <1>i, ServerPast DEF Start
  <2> QED BY <2>1, <2>2
<1>2. ASSUME NEW r \in Requests, ReserveAnswered(r) PROVE Flags /\ SchemaPast'
  <2>1. Flags BY <1>2, <1>t, <1>i DEF ReserveAnswered
  <2>2. SchemaPast' BY <1>2, <1>i, ServerPast DEF ReserveAnswered
  <2> QED BY <2>1, <2>2
<1>3. ASSUME NEW r \in Requests, ReadAnswered(r) PROVE Flags /\ SchemaPast'
  <2>1. Flags BY <1>3, <1>t, <1>i DEF ReadAnswered
  <2>2. SchemaPast' BY <1>3, <1>i, ServerPast DEF ReadAnswered
  <2> QED BY <2>1, <2>2
<1>4. ASSUME NEW r \in Requests, TakeOverAnswered(r) PROVE Flags /\ SchemaPast'
  <2>1. Flags BY <1>4, <1>t, <1>i DEF TakeOverAnswered
  <2>2. SchemaPast' BY <1>4, <1>i, ServerPast DEF TakeOverAnswered
  <2> QED BY <2>1, <2>2
<1>5. ASSUME NEW r \in Requests, ClaimFails(r) PROVE Flags /\ SchemaPast'
  <2>1. Flags BY <1>5, <1>t, <1>i DEF ClaimFails
  <2>2. SchemaPast' BY <1>5, <1>i, ServerPast DEF ClaimFails
  <2> QED BY <2>1, <2>2
<1>6. ASSUME NEW r \in Requests, Judge(r) PROVE Flags /\ SchemaPast'
  <2>1. Flags BY <1>6, <1>t, <1>i DEF Judge
  <2>2. SchemaPast' BY <1>6, <1>i, ServerPast DEF Judge
  <2> QED BY <2>1, <2>2
<1>7. ASSUME NEW r \in Requests, Confirm(r) PROVE Flags /\ SchemaPast'
  <2>1. Flags BY <1>7, <1>t, <1>i DEF Confirm
  <2>2. SchemaPast' BY <1>7, <1>i, ServerPast DEF Confirm
  <2> QED BY <2>1, <2>2
<1>8. ASSUME NEW r \in Requests, Reference(r) PROVE Flags /\ SchemaPast'
  <2>1. Flags BY <1>8, <1>t, <1>i DEF Reference
  <2>2. SchemaPast' BY <1>8, <1>i, ServerPast DEF Reference
  <2> QED BY <2>1, <2>2
<1>9. ASSUME NEW r \in Requests, Release(r) PROVE Flags /\ SchemaPast'
  <2>1. Flags BY <1>9, <1>t, <1>i DEF Release
  <2>2. SchemaPast' BY <1>9, <1>i, ServerPast DEF Release
  <2> QED BY <2>1, <2>2
<1>10. ASSUME NEW r \in Requests, Cancel(r) PROVE Flags /\ SchemaPast'
  <2> USE DEF Cancel, CancelBeforeClaim, CancelInTry, CancelAfterTry
  <2>1. Flags BY <1>10, <1>t, <1>i
  <2>2. SchemaPast' BY <1>10, <1>i, ServerPast
  <2> QED BY <2>1, <2>2
<1>11. ASSUME NEW r \in Requests, Kill(r) PROVE Flags /\ SchemaPast'
  <2>1. Flags BY <1>11, <1>t, <1>i DEF Kill, Awaited
  <2>2. SchemaPast' BY <1>11, <1>i, ServerPast DEF Kill
  <2> QED BY <2>1, <2>2
<1>12. ASSUME Late PROVE Flags /\ SchemaPast'
  <2>1. PICK c \in wire : /\ wire' = wire \ {c}
                          /\ RunLate(c) \/ DropLate(c)
                          /\ UNCHANGED <<pc, elapsed, seen, answer, claimed, schema>>
    BY <1>12 DEF Late
  <2>2. Flags BY <2>1, <1>i
  <2>3. c.by \in Requests BY <1>t
  <2>4. SchemaPast' BY <2>1, <2>3, <1>i, ServerPast DEF RunLate, DropLate
  <2> QED BY <2>2, <2>4
<1>13. ASSUME Tick PROVE Flags /\ SchemaPast'
  BY <1>13, <1>i DEF Tick, Advance, SchemaPast, Absent
<1>14. ASSUME Deploy PROVE Flags /\ SchemaPast'
  <2>1. Flags BY <1>14, <1>t, <1>i DEF Deploy
  <2>2. schema \in Nat /\ schema' = schema + 1 /\ idem' = idem /\ idem \in [Keys -> Entry]
    BY <1>14, Times DEF Deploy, NoEffect, IInv, TypeOK
  <2>3. SchemaPast' BY <2>2, <1>i, Times DEF SchemaPast, Entry
  <2> QED BY <2>1, <2>3
<1>15. CASE UNCHANGED vars
  BY <1>15, <1>i DEF vars, RInv, SchemaPast
<1> QED
  BY <1>1, <1>2, <1>3, <1>4, <1>5, <1>6, <1>7, <1>8, <1>9, <1>10, <1>11, <1>12,
     <1>13, <1>14, <1>15 DEF Next, Step, RInv

-----------------------------------------------------------------------------
(* How each abstract variable moves with the code's. *)

LEMMA PhasesMove ==
    ASSUME TypeOK, NEW r \in Requests, NEW p \in PC, Goto(r, p)
    PROVE  Phases' = [Phases EXCEPT ![r] = PhaseOf(p)]
BY DEF TypeOK, Goto, Phases, PhaseOf

LEMMA ShelvesStay == ASSUME idem' = idem, schema' = schema PROVE Shelves' = Shelves
BY DEF Shelves

LEMMA ToldStays ==
    ASSUME \A r \in Requests : /\ answer'[r] = answer[r] \/ {answer'[r], answer[r]} \cap
                                                            {"judged", "replayed"} = {}
                               /\ answer[r] = "replayed" => seen'[r] = seen[r]
    PROVE  Told' = Told
BY DEF Told

LEMMA BegunStays == ASSUME claimed' = claimed PROVE Begun' = Begun
BY DEF Begun

\* A put moves one shelf: to the value's own, if it is a judgement of today.
LEMMA ShelvesPut ==
    ASSUME TypeOK, NEW r \in Requests, NEW v, NEW t, Put(KeyOf[r], v, t), schema' = schema
    PROVE  Shelves' = [Shelves EXCEPT ![KeyOf[r]] =
                         IF v.st = "judgement" /\ v.schema = schema THEN v.by ELSE Nobody]
BY RequestsAssumption DEF TypeOK, Put, Shelves

\* A reservation empties a shelf that has nothing on it.
LEMMA ShelvesReserve ==
    ASSUME TypeOK, NEW r \in Requests, Shelves[KeyOf[r]] = Nobody, schema' = schema,
           Put(KeyOf[r], Reserved(r), InflightTtl)
    PROVE  Shelves' = Shelves
<1>1. Shelves' = [Shelves EXCEPT ![KeyOf[r]] = Nobody]
  BY ShelvesPut, "reserved" # "judgement" DEF Reserved
<1> QED BY <1>1, RequestsAssumption DEF Shelves

\* A confirm puts the request's judgement on its shelf, or finds no key.
LEMMA ShelvesConfirm ==
    ASSUME TypeOK, NEW r \in Requests, SetXX(r), schema' = schema
    PROVE  Shelves' = Shelves \/ Shelves' = [Shelves EXCEPT ![KeyOf[r]] = r]
<1> DEFINE v == Judgement(r)
<1>1. v.st = "judgement" /\ v.schema = schema /\ v.by = r BY DEF Judgement
<1>2. Put(KeyOf[r], v, LongTtl) \/ NoEffect BY DEF SetXX
<1> HIDE DEF v
<1>3. CASE Put(KeyOf[r], v, LongTtl) BY <1>1, <1>3, ShelvesPut
<1>4. CASE NoEffect BY <1>4, ShelvesStay DEF NoEffect
<1> QED BY <1>2, <1>3, <1>4

\* A DEL, or an expiry, clears shelves and puts nothing on one.
LEMMA ShelvesClear ==
    ASSUME SchemaPast, schema \in Nat, schema' \in Nat, schema' >= schema,
           \A k \in Keys : idem'[k] = idem[k] \/ idem'[k].st # "judgement"
    PROVE  /\ Shelves' \in [Keys -> Requests \cup {Nobody}]
           /\ \A k \in Keys : Shelves'[k] \in {Shelves[k], Nobody}
BY DEF Shelves, SchemaPast

\* Nothing is on the shelf of a key that is absent or whose judgement is stale.
LEMMA NothingShelved ==
    ASSUME NEW r \in Requests,
           idem[KeyOf[r]].st # "judgement" \/ idem[KeyOf[r]].schema # schema
    PROVE  Shelves[KeyOf[r]] = Nobody
BY RequestsAssumption DEF Shelves

-----------------------------------------------------------------------------
\* A step on which the request gives up, seen from outside.
LEMMA GivesUp ==
    ASSUME TypeOK, NEW r \in Requests, NEW p \in PC, Goto(r, p),
           PhaseOf(pc[r]) # "ended", PhaseOf(p) = "ended",
           Shelves' = Shelves, Told' = Told, Begun' = Begun
    PROVE  JO!Next
<1>1. JO!GiveUp(r) BY PhasesMove DEF JO!GiveUp, JO!Goto, Phases
<1> QED BY <1>1 DEF JO!Next

\* A step on which the request stays in the phase it is in.
LEMMA StaysInPhase ==
    ASSUME TypeOK, NEW r \in Requests, NEW p \in PC, Goto(r, p),
           PhaseOf(p) = PhaseOf(pc[r])
    PROVE  Phases' = Phases
BY PhasesMove DEF Phases

\* Shelves are cleared and phases stay: seen from outside, a JudgeOnce Clear.
LEMMA Clears ==
    ASSUME SchemaPast, schema \in Nat, schema' = schema,
           \A k \in Keys : idem'[k] = idem[k] \/ idem'[k].st # "judgement",
           Phases' = Phases, Told' = Told, Begun' = Begun
    PROVE  JO!Next
<1>1. /\ Phases \in [Requests -> {"waiting", "judging", "made", "ended"}]
  BY DEF Phases, PhaseOf
<1>2. JO!Clear BY <1>1, ShelvesClear DEF JO!Clear
<1> QED BY <1>2 DEF JO!Next

LEMMA Simulates == IInv /\ RInv /\ [Next]_vars => [JO!Next]_(JO!promised)
<1> SUFFICES ASSUME IInv, RInv, [Next]_vars
             PROVE  JO!Next \/ UNCHANGED JO!promised
  OBVIOUS
<1>t. TypeOK BY DEF IInv
<1>p. pc \in [Requests -> PC] /\ answer \in [Requests -> Answers] BY <1>t DEF TypeOK
<1>n. Nobody \notin Requests BY RequestsAssumption
<1>s. ASSUME UNCHANGED <<Phases, Shelves, Told, Begun>> PROVE UNCHANGED JO!promised
  BY <1>s DEF JO!promised
<1> DEFINE Goal == JO!Next \/ UNCHANGED JO!promised
<1>1. ASSUME NEW r \in Requests, Start(r) PROVE Goal
  <2>1. Phases' = Phases BY <1>1, <1>t, StaysInPhase DEF Start, PhaseOf, PC, InFlight, Body
  <2>2. Shelves' = Shelves BY <1>1, ShelvesStay DEF Start, NoEffect
  <2>3. Told' = Told BY <1>1, ToldStays DEF Start
  <2>4. Begun' = Begun BY <1>1, BegunStays DEF Start
  <2> QED BY <2>1, <2>2, <2>3, <2>4, <1>s
<1>2. ASSUME NEW r \in Requests, ReserveAnswered(r) PROVE Goal
  <2>1. Told' = Told BY <1>2, ToldStays DEF ReserveAnswered
  <2>2. CASE idem[KeyOf[r]].st = "none"
    <3>1. Shelves[KeyOf[r]] = Nobody BY <2>2, NothingShelved
    <3>2. Put(KeyOf[r], Reserved(r), InflightTtl) /\ schema' = schema
      BY <1>2, <2>2 DEF ReserveAnswered, SetNX
    <3>3. Shelves' = Shelves BY <3>1, <3>2, <1>t, ShelvesReserve
    <3>4. Goto(r, "judge") /\ pc[r] = "reserve" BY <1>2, <2>2 DEF ReserveAnswered
    <3>5. Phases' = [Phases EXCEPT ![r] = "judging"] /\ Phases[r] = "waiting"
      BY <3>4, <1>t, PhasesMove DEF PhaseOf, PC, InFlight, Body, Phases
    <3>6. Begun' = Begun \cup {r}
      BY <1>2, <2>2, <1>t DEF ReserveAnswered, Begun, TypeOK
    <3>7. \A s \in Requests : KeyOf[s] = KeyOf[r] => Phases[s] # "judging"
      BY <2>2, Held DEF Claims, Phases, PhaseOf
    <3>8. JO!Begin(r) BY <2>1, <3>1, <3>3, <3>5, <3>6, <3>7 DEF JO!Begin, JO!Goto
    <3> QED BY <3>8 DEF JO!Next
  <2>3. CASE idem[KeyOf[r]].st # "none"
    <3>1. Phases' = Phases
      BY <1>2, <2>3, <1>t, StaysInPhase DEF ReserveAnswered, PhaseOf, PC, InFlight, Body
    <3>2. Shelves' = Shelves
      BY <1>2, <2>3, ShelvesStay DEF ReserveAnswered, SetNX, NoEffect
    <3>3. ~claimed[r] BY <1>2 DEF ReserveAnswered, RInv, JudgesIfClaimed
    <3>4. Begun' = Begun BY <1>2, <2>3, <3>3, <1>t DEF ReserveAnswered, Begun, TypeOK
    <3> QED BY <2>1, <3>1, <3>2, <3>4, <1>s
  <2> QED BY <2>2, <2>3
<1>3. ASSUME NEW r \in Requests, ReadAnswered(r) PROVE Goal
  <2> DEFINE v == idem[KeyOf[r]]
  <2>1. Shelves' = Shelves BY <1>3, ShelvesStay DEF ReadAnswered, NoEffect
  <2>2. Begun' = Begun BY <1>3, BegunStays DEF ReadAnswered
  <2>3. pc[r] = "existing" BY <1>3 DEF ReadAnswered
  <2>4. CASE Finish(r, "duplicate") /\ UNCHANGED seen
    <3>1. Told' = Told
      BY <2>3, <2>4, <1>p, ToldStays DEF Finish
    <3> QED BY <2>1, <2>2, <2>3, <2>4, <3>1, <1>t, GivesUp DEF Finish, PhaseOf, PC
  <2>5. CASE /\ v.st = "judgement" /\ v.schema # schema
             /\ Goto(r, "takeover") /\ seen' = [seen EXCEPT ![r] = v] /\ UNCHANGED answer
    <3>1. Phases' = Phases
      BY <2>3, <2>5, <1>t, StaysInPhase DEF PhaseOf, PC, InFlight, Body
    <3>2. answer[r] = "none" BY <2>3 DEF RInv, UnansweredInFlight
    <3>3. Told' = Told BY <2>5, <3>2, <1>t, ToldStays DEF TypeOK
    <3> QED BY <2>1, <2>2, <3>1, <3>3, <1>s
  <2>6. CASE /\ v.st = "judgement" /\ v.schema = schema /\ LeadOf[v.by] = LeadOf[r]
             /\ Finish(r, "replayed") /\ seen' = [seen EXCEPT ![r] = v]
    <3>1. Shelves[KeyOf[r]] = v.by /\ v.by \in Requests
      BY <2>6, RequestsAssumption DEF Shelves, RInv, SchemaPast
    <3>2. Told' = [Told EXCEPT ![r] = v.by]
      BY <2>6, <1>t DEF Told, Finish, TypeOK
    <3>3. Phases' = [Phases EXCEPT ![r] = "ended"] /\ Phases[r] = "waiting"
      BY <2>3, <2>6, <1>t, PhasesMove DEF Finish, PhaseOf, PC, Phases
    <3>4. JO!Replay(r)
      BY <2>1, <2>2, <2>6, <3>1, <3>2, <3>3, <1>n DEF JO!Replay, JO!Goto
    <3> QED BY <3>4 DEF JO!Next
  <2> QED BY <1>3, <2>4, <2>5, <2>6 DEF ReadAnswered
<1>4. ASSUME NEW r \in Requests, TakeOverAnswered(r) PROVE Goal
  <2>1. pc[r] = "takeover" /\ answer[r] = "none" /\ ~claimed[r] /\ schema' = schema
    BY <1>4 DEF TakeOverAnswered, RInv, UnansweredInFlight, JudgesIfClaimed
  <2>2. Told' = Told
    BY <1>4, <2>1, <1>p, ToldStays DEF TakeOverAnswered, Finish
  <2>3. CASE idem[KeyOf[r]] = seen[r]
    <3>1. seen[r].st = "judgement" /\ seen[r].schema # schema
      BY <1>4 DEF TakeOverAnswered, IInv, TakeOverIsStale
    <3>2. Shelves[KeyOf[r]] = Nobody BY <2>3, <3>1, NothingShelved
    <3>3. Put(KeyOf[r], Reserved(r), InflightTtl) BY <1>4, <2>3 DEF TakeOverAnswered, TakeOverScript
    <3>4. Shelves' = Shelves BY <2>1, <3>2, <3>3, <1>t, ShelvesReserve
    <3>5. Goto(r, "judge") BY <1>4, <2>3 DEF TakeOverAnswered
    <3>6. Phases' = [Phases EXCEPT ![r] = "judging"] /\ Phases[r] = "waiting"
      BY <2>1, <3>5, <1>t, PhasesMove DEF PhaseOf, PC, InFlight, Body, Phases
    <3>7. Begun' = Begun \cup {r}
      BY <1>4, <2>3, <1>t DEF TakeOverAnswered, Begun, TypeOK
    <3>8. \A s \in Requests : KeyOf[s] = KeyOf[r] => Phases[s] # "judging"
      BY <2>3, <3>1, Held DEF Claims, Phases, PhaseOf
    <3>9. JO!Begin(r) BY <2>2, <3>2, <3>4, <3>6, <3>7, <3>8 DEF JO!Begin, JO!Goto
    <3> QED BY <3>9 DEF JO!Next
  <2>4. CASE idem[KeyOf[r]] # seen[r]
    <3>1. Shelves' = Shelves
      BY <1>4, <2>4, ShelvesStay DEF TakeOverAnswered, TakeOverScript, NoEffect
    <3>2. Begun' = Begun BY <1>4, <2>4, BegunStays DEF TakeOverAnswered
    <3> QED BY <1>4, <2>1, <2>2, <2>4, <3>1, <3>2, <1>t, GivesUp
            DEF TakeOverAnswered, Finish, PhaseOf, PC
  <2> QED BY <2>3, <2>4
<1>5. ASSUME NEW r \in Requests, ClaimFails(r) PROVE Goal
  <2>1. pc[r] \in {"reserve", "existing", "takeover"} /\ answer[r] = "none"
    BY <1>5 DEF ClaimFails, RInv, UnansweredInFlight
  <2>2. Shelves' = Shelves BY <1>5, ShelvesStay DEF ClaimFails, NoEffect
  <2>3. Told' = Told BY <1>5, <2>1, <1>p, ToldStays DEF ClaimFails, Finish
  <2>4. Begun' = Begun BY <1>5, BegunStays DEF ClaimFails
  <2> QED BY <1>5, <2>1, <2>2, <2>3, <2>4, <1>t, GivesUp DEF ClaimFails, Finish, PhaseOf, PC
<1>6. ASSUME NEW r \in Requests, Judge(r) PROVE Goal
  <2>1. pc[r] = "judge" /\ answer[r] = "none"
    BY <1>6 DEF Judge, RInv, UnansweredInFlight
  <2>2. Shelves' = Shelves BY <1>6, ShelvesStay DEF Judge, NoEffect
  <2>3. Told' = Told BY <1>6, <2>1, <1>p, ToldStays DEF Judge
  <2>4. Begun' = Begun BY <1>6, BegunStays DEF Judge
  <2>5. CASE Goto(r, "confirm")
    <3>1. Phases' = Phases
      BY <2>1, <2>5, <1>t, StaysInPhase DEF PhaseOf, PC, InFlight, Body
    <3> QED BY <2>2, <2>3, <2>4, <3>1, <1>s
  <2>6. CASE Goto(r, "release")
    BY <2>1, <2>2, <2>3, <2>4, <2>6, <1>t, GivesUp DEF PhaseOf, PC, InFlight
  <2> QED BY <1>6, <2>5, <2>6 DEF Judge
<1>7. ASSUME NEW r \in Requests, Confirm(r) PROVE Goal
  <2>1. pc[r] = "confirm" /\ Goto(r, "reference") /\ schema' = schema BY <1>7 DEF Confirm
  <2>2. Phases' = [Phases EXCEPT ![r] = "made"] /\ Phases[r] = "judging"
    BY <2>1, <1>t, PhasesMove DEF PhaseOf, PC, InFlight, Body, Phases
  <2>3. Told' = Told BY <1>7, ToldStays DEF Confirm
  <2>4. Begun' = Begun BY <1>7, BegunStays DEF Confirm
  <2>5. Shelves' = Shelves \/ Shelves' = [Shelves EXCEPT ![KeyOf[r]] = r]
    BY <1>7, <2>1, <1>t, ShelvesConfirm, ShelvesStay DEF Confirm, NoEffect
  <2>6. JO!Make(r) BY <2>2, <2>3, <2>4, <2>5 DEF JO!Make, JO!Goto
  <2> QED BY <2>6 DEF JO!Next
<1>8. ASSUME NEW r \in Requests, Reference(r) PROVE Goal
  <2>1. pc[r] = "reference" /\ Goto(r, "done") BY <1>8 DEF Reference, Finish
  <2>2. Phases' = [Phases EXCEPT ![r] = "ended"] /\ Phases[r] = "made"
    BY <2>1, <1>t, PhasesMove DEF PhaseOf, PC, Phases
  <2>3. Told' = [Told EXCEPT ![r] = r] BY <1>8, <1>p DEF Reference, Finish, Told
  <2>4. Begun' = Begun BY <1>8, BegunStays DEF Reference
  <2>5. Shelves' = Shelves BY <1>8, ShelvesStay DEF Reference, NoEffect
  <2>6. JO!Deliver(r) BY <2>2, <2>3, <2>4, <2>5 DEF JO!Deliver, JO!Goto
  <2> QED BY <2>6 DEF JO!Next
<1>c. schema \in Nat /\ SchemaPast BY <1>t, Times DEF TypeOK, RInv
<1>k. \A r \in Requests : KeyOf[r] \in Keys /\ idem \in [Keys -> Entry]
  BY RequestsAssumption, <1>t DEF TypeOK
<1>9. ASSUME NEW r \in Requests, Release(r) PROVE Goal
  <2>1. pc[r] = "release" /\ Goto(r, "done") /\ schema' = schema BY <1>9 DEF Release
  <2>2. Phases' = Phases BY <2>1, <1>t, StaysInPhase DEF PhaseOf, PC
  <2>3. Told' = Told BY <1>9, ToldStays DEF Release
  <2>4. Begun' = Begun BY <1>9, BegunStays DEF Release
  <2>5. CASE NoEffect
    <3>1. Shelves' = Shelves BY <2>1, <2>5, ShelvesStay DEF NoEffect
    <3> QED BY <2>2, <2>3, <2>4, <3>1, <1>s
  <2>6. CASE Del(r)
    <3>1. \A k \in Keys : idem'[k] = idem[k] \/ idem'[k].st # "judgement"
      BY <2>6, <1>k DEF Del, Put, Absent
    <3> QED BY <2>1, <2>2, <2>3, <2>4, <3>1, <1>c, Clears
  <2> QED BY <1>9, <2>5, <2>6 DEF Release
<1>10. ASSUME NEW r \in Requests, Cancel(r) PROVE Goal
  <2> USE DEF Cancel, CancelBeforeClaim, CancelInTry, CancelAfterTry
  <2>1. Shelves' = Shelves BY <1>10, ShelvesStay DEF NoEffect
  <2>2. Begun' = Begun BY <1>10, BegunStays
  <2>3. CASE pc[r] = "release"
    <3>1. Phases' = Phases BY <1>10, <2>3, <1>t, StaysInPhase DEF PhaseOf, PC
    <3>2. answer[r] \notin {"judged", "replayed"}
      BY <2>3 DEF RInv, ReleasingUntold
    <3>3. Told' = Told BY <1>10, <3>2, <1>p, ToldStays
    <3> QED BY <2>1, <2>2, <3>1, <3>3, <1>s
  <2>4. CASE pc[r] # "release"
    <3>1. answer[r] = "none" BY <1>10, <2>4 DEF RInv, UnansweredInFlight
    <3>2. Told' = Told BY <1>10, <3>1, <1>p, ToldStays
    <3>3. PhaseOf(pc[r]) # "ended" /\ \E p \in {"done", "release"} : Goto(r, p)
      BY <1>10, <2>4 DEF PhaseOf
    <3> QED BY <2>1, <2>2, <3>2, <3>3, <1>t, GivesUp DEF PhaseOf, PC, InFlight
  <2> QED BY <2>3, <2>4
<1>11. ASSUME NEW r \in Requests, Kill(r) PROVE Goal
  <2>1. Shelves' = Shelves BY <1>11, ShelvesStay DEF Kill, NoEffect
  <2>2. Begun' = Begun BY <1>11, BegunStays DEF Kill
  <2>3. Told' = Told BY <1>11, ToldStays DEF Kill
  <2>4. Goto(r, "killed") /\ PhaseOf("killed") = "ended" /\ "killed" \in PC
    BY <1>11 DEF Kill, PhaseOf, PC
  <2>5. CASE PhaseOf(pc[r]) = "ended"
    <3>1. Phases' = Phases BY <2>4, <2>5, <1>t, StaysInPhase
    <3> QED BY <2>1, <2>2, <2>3, <3>1, <1>s
  <2>6. CASE PhaseOf(pc[r]) # "ended"
    BY <2>1, <2>2, <2>3, <2>4, <2>6, <1>t, GivesUp
  <2> QED BY <2>5, <2>6
<1>12. ASSUME Late PROVE Goal
  <2>1. PICK c \in wire : /\ wire' = wire \ {c}
                          /\ RunLate(c) \/ DropLate(c)
                          /\ UNCHANGED <<pc, elapsed, seen, answer, claimed, schema>>
    BY <1>12 DEF Late
  <2>2. Phases' = Phases BY <2>1 DEF Phases
  <2>3. Told' = Told BY <2>1, ToldStays
  <2>4. Begun' = Begun BY <2>1, BegunStays
  <2>r. c.by \in Requests /\ c = Cmd(c.op, c.by) /\ KeyOf[c.by] \in Keys
    BY <1>t, RequestsAssumption DEF TypeOK, Cmd
  <2>5. CASE NoEffect
    <3>1. Shelves' = Shelves BY <2>1, <2>5, ShelvesStay DEF NoEffect
    <3> QED BY <2>2, <2>3, <2>4, <3>1, <1>s
  <2>6. CASE c.op = "reserve" /\ SetNX(c.by) /\ ~NoEffect
    <3>1. idem[KeyOf[c.by]].st = "none" /\ Put(KeyOf[c.by], Reserved(c.by), InflightTtl)
      BY <2>6 DEF SetNX
    <3>2. Shelves' = Shelves BY <2>1, <2>r, <3>1, <1>t, NothingShelved, ShelvesReserve
    <3> QED BY <2>2, <2>3, <2>4, <3>2, <1>s
  <2>7. CASE c.op = "takeover" /\ TakeOverScript(c.by) /\ ~NoEffect
    <3>1. idem[KeyOf[c.by]] = seen[c.by] /\ Put(KeyOf[c.by], Reserved(c.by), InflightTtl)
      BY <2>7 DEF TakeOverScript
    <3>2. seen[c.by].schema # schema BY <2>7, <2>r DEF IInv, TakeOverIsStale
    <3>3. Shelves' = Shelves BY <2>1, <2>r, <3>1, <3>2, <1>t, NothingShelved, ShelvesReserve
    <3> QED BY <2>2, <2>3, <2>4, <3>3, <1>s
  <2>8. CASE c.op = "confirm" /\ SetXX(c.by)
    <3>1. Shelves' = Shelves \/ Shelves' = [Shelves EXCEPT ![KeyOf[c.by]] = c.by]
      BY <2>1, <2>r, <2>8, <1>t, ShelvesConfirm
    <3>2. c.by \in Begun /\ Phases[c.by] \in {"made", "ended"}
      BY <2>r, <2>8 DEF RInv, StoresIfClaimed, Begun, Phases, PhaseOf
    <3>3. JO!ShelveLate(c.by) \/ UNCHANGED <<Phases, Shelves, Told, Begun>>
      BY <2>2, <2>3, <2>4, <3>1, <3>2 DEF JO!ShelveLate
    <3> QED BY <2>r, <3>3, <1>s DEF JO!Next
  <2>9. CASE c.op = "delete" /\ Del(c.by)
    <3>1. \A k \in Keys : idem'[k] = idem[k] \/ idem'[k].st # "judgement"
      BY <2>9, <2>r, <1>k DEF Del, Put, Absent
    <3> QED BY <2>1, <2>2, <2>3, <2>4, <3>1, <1>c, Clears
  <2> QED BY <2>1, <2>5, <2>6, <2>7, <2>8, <2>9 DEF RunLate, DropLate
<1>13. ASSUME Tick PROVE Goal
  <2>1. /\ UNCHANGED <<pc, seen, answer, claimed, schema>>
        /\ \A k \in Keys : idem'[k] = idem[k] \/ idem'[k].st # "judgement"
    BY <1>13 DEF Tick, Advance, Absent
  <2> QED BY <2>1, <1>c, ToldStays, BegunStays, Clears DEF Phases
<1>14. ASSUME Deploy PROVE Goal
  <2>1. Told' = Told BY <1>14, ToldStays DEF Deploy
  <2>2. Begun' = Begun BY <1>14, BegunStays DEF Deploy
  <2>3. /\ Phases' \in [Requests -> {"waiting", "judging", "made", "ended"}]
        /\ \A r \in Requests : Phases'[r] \in {Phases[r], "ended"}
    BY <1>14 DEF Deploy, Phases, PhaseOf
  <2>4. schema' \in Nat /\ schema' >= schema /\ idem' = idem
    BY <1>14, <1>c DEF Deploy, NoEffect
  <2>5. /\ Shelves' \in [Keys -> Requests \cup {Nobody}]
        /\ \A k \in Keys : Shelves'[k] \in {Shelves[k], Nobody}
    BY <2>4, <1>c, ShelvesClear
  <2>6. JO!Clear BY <2>1, <2>2, <2>3, <2>5 DEF JO!Clear
  <2> QED BY <2>6 DEF JO!Next
<1>15. CASE UNCHANGED vars
  BY <1>15, <1>s DEF vars, Phases, Shelves, Told, Begun
<1> QED
  BY <1>1, <1>2, <1>3, <1>4, <1>5, <1>6, <1>7, <1>8, <1>9, <1>10, <1>11, <1>12,
     <1>13, <1>14, <1>15 DEF Next, Step

\* InitIInv, NextIInv and NextRInv carry both invariants along every behaviour.
LEMMA RefinementInvariant == Spec => [](IInv /\ RInv)
<1>1. IInv /\ [Next]_vars => IInv' BY NextIInv
<1> QED BY <1>1, InitIInv, InitRInv, NextRInv, PTL DEF Spec

LEMMA InitSimulates == Init => JO!Init
BY DEF Init, JO!Init, Phases, PhaseOf, Shelves, Absent, Told, Begun

\* The reservation protocol (state.py, pipeline._judge) implements JudgeOnce:
\* whatever is cancelled, killed, lost, late, expired or deployed, one request
\* of a key judges at a time, none while a judgement can be replayed, and a
\* caller is given a judgement made for its own key and lead.
THEOREM IdempotencyJudgesOnce == Spec => JudgesOnce
<1> QED BY InitSimulates, Simulates, RefinementInvariant, PTL DEF Spec, JudgesOnce, JO!Promise

-----------------------------------------------------------------------------
(* Part three.  What becomes of answers and reservations: a replay is of   *)
(* the caller's own question, an answered judgement goes away only by      *)
(* expiring, and a failure leaves no reservation unless db2 failed it.     *)
(*                                                                         *)
(* Beside IInv and RInv the argument follows a confirm left on the wire by *)
(* a request that answers all the same (Kept): nobody can claim its key    *)
(* before it has landed or been lost.  A judgement found under a key that  *)
(* somebody claims was therefore never given to a caller.                  *)

KeyHome ==
    \A k \in Keys : idem[k].st # "none" => idem[k].by \in Requests /\ KeyOf[idem[k].by] = k

\* A claim is sent once, and by who never learnt of it only if it was cut off.
UnclaimedSender ==
    \A r \in Requests : Cmd("reserve", r) \in wire \/ Cmd("takeover", r) \in wire
                         => ~claimed[r] /\ pc[r] \in {"done", "killed"}
DeleterUntold ==
    \A r \in Requests : Cmd("delete", r) \in wire => answer[r] \notin {"judged", "replayed"}

HeldForAReason ==
    \A r \in Requests : claimed[r] /\ idem[KeyOf[r]] = Reserved(r) =>
        \/ pc[r] \in {"judge", "confirm", "release", "killed"} \/ storeFailed[r]
        \/ \E c \in wire : c.by = r

Kept(r) == Cmd("confirm", r) \in wire /\ (pc[r] = "reference" \/ answer[r] = "judged")
KeptHolds ==
    \A r \in Requests : Kept(r) =>
        /\ \/ idem[KeyOf[r]] = Reserved(r)
           \/ idem[KeyOf[r]].st = "judgement" /\ idem[KeyOf[r]].schema = schema
        /\ ttl[KeyOf[r]] + elapsed[r] >= InflightTtl
KeptAlone == \A r, s \in Requests : Kept(r) /\ Claims(s) => KeyOf[r] # KeyOf[s]

Given(r) == pc[r] = "reference" \/ answer[r] = "judged"
\* What a claimant's DEL or confirm may wipe out.
DoomedUntold ==
    \A r \in Requests : Claims(r) /\ idem[KeyOf[r]].st = "judgement" => ~Given(idem[KeyOf[r]].by)

Told1 == UnclaimedSender /\ DeleterUntold /\ ReplayFaithful
Shelf == KeptHolds /\ KeptAlone /\ DoomedUntold
KInv == KeyHome /\ Told1 /\ HeldForAReason /\ Shelf

-----------------------------------------------------------------------------
(* The server *)

\* The commands that can run for a request, other than its own confirm.
Runs(r) ==
    \/ NoEffect
    \/ SetNX(r)
    \/ TakeOverScript(r) /\ (pc[r] = "takeover" \/ Cmd("takeover", r) \in wire)
    \/ SetXX(r) /\ Cmd("confirm", r) \in wire
    \/ Del(r) /\ Claims(r)

LEMMA Puts ==
    ASSUME IInv, NEW r \in Requests,
           SetNX(r) \/ TakeOverScript(r) \/ SetXX(r) \/ Del(r) \/ NoEffect
    PROVE  /\ KeyOf[r] \in Keys
           /\ \A k \in Keys \ {KeyOf[r]} : idem'[k] = idem[k] /\ ttl'[k] = ttl[k]
           /\ idem'[KeyOf[r]] \in {idem[KeyOf[r]], Reserved(r), Judgement(r), Absent}
<1>1. KeyOf[r] \in Keys /\ idem \in [Keys -> Entry] /\ ttl \in [Keys -> 0..LongTtl]
  BY RequestsAssumption DEF IInv, TypeOK
<1> QED
  BY <1>1 DEF SetNX, TakeOverScript, SetXX, Del, NoEffect, Put

LEMMA HomeKept ==
    ASSUME IInv, KeyHome, NEW r \in Requests,
           SetNX(r) \/ TakeOverScript(r) \/ SetXX(r) \/ Del(r) \/ NoEffect
    PROVE  KeyHome'
<1>p. /\ KeyOf[r] \in Keys
      /\ \A k \in Keys \ {KeyOf[r]} : idem'[k] = idem[k] /\ ttl'[k] = ttl[k]
      /\ idem'[KeyOf[r]] \in {idem[KeyOf[r]], Reserved(r), Judgement(r), Absent}
  BY Puts
<1>1. /\ Reserved(r).by = r /\ Judgement(r).by = r /\ Absent.st = "none"
  BY DEF Reserved, Judgement, Absent
<1> QED
  BY <1>p, <1>1 DEF KeyHome

LEMMA OthersReserved ==
    ASSUME IInv, NEW r \in Requests, NEW s \in Requests \ {r},
           SetNX(r) \/ TakeOverScript(r) \/ SetXX(r) \/ Del(r) \/ NoEffect,
           idem'[KeyOf[s]] = Reserved(s)
    PROVE  idem[KeyOf[s]] = Reserved(s)
<1>p. /\ KeyOf[r] \in Keys
      /\ \A k \in Keys \ {KeyOf[r]} : idem'[k] = idem[k] /\ ttl'[k] = ttl[k]
      /\ idem'[KeyOf[r]] \in {idem[KeyOf[r]], Reserved(r), Judgement(r), Absent}
  BY Puts
<1>1. KeyOf[s] \in Keys
  BY RequestsAssumption
<1>r. Reserved(s).st = "reserved" /\ Reserved(s).by = s /\ Reserved(r).by = r
      /\ Judgement(r).by = r /\ Absent.st = "none"
  BY DEF Reserved, Judgement, Absent
<1>2. CASE KeyOf[s] # KeyOf[r]
  BY <1>1, <1>2, <1>p
<1>3. CASE KeyOf[s] = KeyOf[r]
  BY <1>3, <1>p, <1>r
<1> QED
  BY <1>2, <1>3

LEMMA KeptUntouched ==
    ASSUME IInv, KInv, NEW r \in Requests, NEW s \in Requests, Kept(s), Runs(r)
    PROVE  /\ \/ idem'[KeyOf[s]] = idem[KeyOf[s]]
              \/ idem'[KeyOf[s]].st = "judgement" /\ idem'[KeyOf[s]].schema = schema
           /\ ttl'[KeyOf[s]] = ttl[KeyOf[s]] \/ ttl'[KeyOf[s]] = LongTtl
<1>1. KeyOf[r] \in Keys /\ KeyOf[s] \in Keys
  BY RequestsAssumption
<1>2. idem \in [Keys -> Entry] /\ ttl \in [Keys -> 0..LongTtl]
  BY DEF IInv, TypeOK
<1>h. \/ idem[KeyOf[s]] = Reserved(s)
      \/ idem[KeyOf[s]].st = "judgement" /\ idem[KeyOf[s]].schema = schema
  BY DEF KInv, Shelf, KeptHolds
<1>3. idem[KeyOf[s]].st # "none"
  BY <1>h DEF Reserved
<1>4. CASE NoEffect BY <1>4 DEF NoEffect
<1>5. CASE SetNX(r) BY <1>1, <1>2, <1>3, <1>5 DEF SetNX, Put, NoEffect
<1>6. CASE SetXX(r) BY <1>1, <1>2, <1>6 DEF SetXX, Put, NoEffect, Judgement
<1>7. CASE TakeOverScript(r) /\ (pc[r] = "takeover" \/ Cmd("takeover", r) \in wire)
  <2>1. seen[r].st = "judgement" /\ seen[r].schema # schema
    BY <1>7 DEF IInv, TakeOverIsStale
  <2>2. idem[KeyOf[s]] # seen[r]
    BY <1>h, <2>1 DEF Reserved
  <2> QED
    BY <1>1, <1>2, <1>7, <2>2 DEF TakeOverScript, Put, NoEffect
<1>8. CASE Del(r) /\ Claims(r)
  <2>1. KeyOf[s] # KeyOf[r]
    BY <1>8 DEF KInv, Shelf, KeptAlone
  <2> QED
    BY <1>1, <1>2, <1>8, <2>1 DEF Del, Put
<1> QED
  BY <1>4, <1>5, <1>6, <1>7, <1>8 DEF Runs

\* A step that claims nothing and gives no answer that was not given before.
LEMMA ShelfKept ==
    ASSUME IInv, KInv, NEW r \in Requests, Runs(r),
           \A s \in Requests : Kept(s)' => Kept(s),
           \A s \in Requests : Claims(s)' => Claims(s),
           \A s \in Requests : Given(s)' => Given(s),
           elapsed' = elapsed, schema' = schema
    PROVE  Shelf'
<1>k. \A s \in Requests : KeyOf[s] \in Keys
  BY RequestsAssumption
<1>1. ASSUME NEW s \in Requests, Kept(s)' PROVE KeptHolds!(s)!2'
  <2>1. Kept(s)
    BY <1>1
  <2>2. elapsed[s] \in Nat /\ ttl[KeyOf[s]] \in Nat
    BY <1>k, Times DEF IInv, TypeOK
  <2>3. /\ \/ idem[KeyOf[s]] = Reserved(s)
           \/ idem[KeyOf[s]].st = "judgement" /\ idem[KeyOf[s]].schema = schema
        /\ ttl[KeyOf[s]] + elapsed[s] >= InflightTtl
    BY <2>1 DEF KInv, Shelf, KeptHolds
  <2> QED
    BY <2>1, <2>2, <2>3, KeptUntouched, Times DEF Reserved
<1>2. KeptHolds'
  BY <1>1 DEF KeptHolds
<1>3. KeptAlone'
  BY DEF KInv, Shelf, KeptAlone
<1>4. ASSUME NEW s \in Requests, Claims(s)', idem'[KeyOf[s]].st = "judgement"
      PROVE  LET b == idem'[KeyOf[s]].by IN pc'[b] # "reference" /\ answer'[b] # "judged"
  <2>1. Claims(s)
    BY <1>4
  <2>2. CASE idem'[KeyOf[s]] = idem[KeyOf[s]]
    <3>1. idem[KeyOf[s]].by \in Requests /\ ~Given(idem[KeyOf[s]].by)
      BY <1>k, <1>4, <2>1, <2>2 DEF KInv, KeyHome, Shelf, DoomedUntold
    <3> QED
      BY <2>2, <3>1 DEF Given
  <2>3. CASE idem'[KeyOf[s]] # idem[KeyOf[s]]
    <3>1. KeyOf[r] = KeyOf[s] /\ idem'[KeyOf[s]] = Judgement(r)
      <4>1. /\ KeyOf[r] \in Keys
            /\ \A k \in Keys \ {KeyOf[r]} : idem'[k] = idem[k]
            /\ idem'[KeyOf[r]] \in {idem[KeyOf[r]], Reserved(r), Judgement(r), Absent}
        BY Puts DEF Runs
      <4>2. Reserved(r).st = "reserved" /\ Absent.st = "none"
        BY DEF Reserved, Absent
      <4> QED
        BY <1>k, <1>4, <2>3, <4>1, <4>2
    <3>2. SetXX(r) /\ Cmd("confirm", r) \in wire
      BY <1>k, <2>3, <3>1 DEF Runs, SetNX, TakeOverScript, Del, Put, NoEffect, Reserved, Absent,
                              Judgement, IInv, TypeOK
    <3>3. ~Kept(r)
      BY <2>1, <3>1 DEF KInv, Shelf, KeptAlone
    <3>4. ~Given(r)
      BY <3>2, <3>3 DEF Kept, Given
    <3>5. idem'[KeyOf[s]].by = r
      BY <3>1 DEF Judgement
    <3> QED
      BY <3>4, <3>5 DEF Given
  <2> QED
    BY <2>2, <2>3
<1>5. DoomedUntold'
  BY <1>4 DEF DoomedUntold, Given
<1> QED
  BY <1>2, <1>3, <1>5 DEF Shelf

\* A step by which r takes a key nobody holds.
LEMMA ShelfClaimed ==
    ASSUME IInv, KInv, NEW r \in Requests,
           Put(KeyOf[r], Reserved(r), InflightTtl),
           \A s \in Requests : Kept(s)' => Kept(s),
           \A s \in Requests : Claims(s)' => Claims(s) \/ s = r,
           \A s \in Requests : Given(s)' => Given(s),
           \A s \in Requests : Claims(s) => KeyOf[s] # KeyOf[r],
           \A s \in Requests : Kept(s) => KeyOf[s] # KeyOf[r],
           elapsed' = elapsed, schema' = schema
    PROVE  Shelf'
<1>k. \A s \in Requests : KeyOf[s] \in Keys
  BY RequestsAssumption
<1>1. /\ idem'[KeyOf[r]] = Reserved(r)
      /\ \A k \in Keys \ {KeyOf[r]} : idem'[k] = idem[k] /\ ttl'[k] = ttl[k]
  BY <1>k DEF Put, IInv, TypeOK
<1>2. KeptHolds'
  <2>1. ASSUME NEW s \in Requests, Kept(s)' PROVE KeptHolds!(s)!2'
    <3>1. Kept(s) /\ KeyOf[s] # KeyOf[r]
      BY <2>1
    <3>2. idem'[KeyOf[s]] = idem[KeyOf[s]] /\ ttl'[KeyOf[s]] = ttl[KeyOf[s]]
      BY <1>k, <1>1, <3>1
    <3> QED
      BY <3>1, <3>2 DEF KInv, Shelf, KeptHolds, Reserved
  <2> QED
    BY <2>1 DEF KeptHolds
<1>3. KeptAlone'
  BY DEF KInv, Shelf, KeptAlone
<1>4. ASSUME NEW s \in Requests, Claims(s)', idem'[KeyOf[s]].st = "judgement"
      PROVE  LET b == idem'[KeyOf[s]].by IN pc'[b] # "reference" /\ answer'[b] # "judged"
  <2>1. s # r
    BY <1>1, <1>4 DEF Reserved
  <2>2. Claims(s) /\ idem'[KeyOf[s]] = idem[KeyOf[s]]
    BY <1>k, <1>1, <1>4, <2>1
  <2>3. idem[KeyOf[s]].by \in Requests /\ ~Given(idem[KeyOf[s]].by)
    BY <1>k, <1>4, <2>2 DEF KInv, KeyHome, Shelf, DoomedUntold
  <2> QED
    BY <2>2, <2>3 DEF Given
<1>5. DoomedUntold'
  BY <1>4 DEF DoomedUntold, Given
<1> QED
  BY <1>2, <1>3, <1>5 DEF Shelf

\* r takes its key: neither a claimant nor a confirm still to land holds it.
LEMMA NobodyHolds ==
    ASSUME IInv, KInv, NEW r \in Requests,
           \/ idem[KeyOf[r]].st = "none"
           \/ idem[KeyOf[r]].st = "judgement" /\ idem[KeyOf[r]].schema # schema
    PROVE  \A s \in Requests : Claims(s) \/ Kept(s) => KeyOf[s] # KeyOf[r]
<1>1. ASSUME NEW s \in Requests, Claims(s) \/ Kept(s)
      PROVE  \/ idem[KeyOf[s]] = Reserved(s)
             \/ idem[KeyOf[s]].st = "judgement" /\ idem[KeyOf[s]].schema = schema
  <2>1. CASE Claims(s) BY <2>1, Held
  <2>2. CASE Kept(s)   BY <2>2 DEF KInv, Shelf, KeptHolds
  <2> QED BY <1>1, <2>1, <2>2
<1>2. \A s \in Requests : Reserved(s).st = "reserved"
  BY DEF Reserved
<1> QED
  BY <1>1, <1>2

-----------------------------------------------------------------------------
(* What the callers are told *)

\* Each action keeps who sent what, and what they have been told.
LEMMA NextTold == ASSUME IInv, RInv, KInv, [Next]_vars PROVE Told1'
<1> USE DEF Goto, Finish, CutOff, Cmd
<1>t. /\ pc \in [Requests -> PC] /\ claimed \in [Requests -> BOOLEAN]
      /\ answer \in [Requests -> Answers] /\ wire \subseteq [op : Ops, by : Requests]
      /\ seen \in [Requests -> Entry]
  BY DEF IInv, TypeOK
<1>i. UnclaimedSender /\ DeleterUntold /\ ReplayFaithful
  BY DEF KInv, Told1
<1>r. JudgesIfClaimed /\ UnansweredInFlight /\ ReleasingUntold /\ SenderEnded
  BY DEF RInv, IInv
<1> DEFINE Senders == UnclaimedSender' /\ DeleterUntold'
<1> USE DEF UnclaimedSender, DeleterUntold, JudgesIfClaimed, UnansweredInFlight,
            ReleasingUntold, SenderEnded
\* A replay told stays as it was told.
<1>f. ASSUME \A s \in Requests : answer'[s] = "replayed" => answer[s] = "replayed" /\ seen'[s] = seen[s]
      PROVE  ReplayFaithful'
  BY <1>f, <1>i DEF ReplayFaithful
<1>1. ASSUME NEW r \in Requests, Start(r) PROVE Told1'
  <2>1. Senders BY <1>1, <1>t, <1>i, <1>r DEF Start
  <2>2. ReplayFaithful' BY <1>1, <1>t, <1>f DEF Start
  <2> QED BY <2>1, <2>2 DEF Told1
<1>2. ASSUME NEW r \in Requests, ReserveAnswered(r) PROVE Told1'
  <2>1. Senders BY <1>2, <1>t, <1>i, <1>r DEF ReserveAnswered
  <2>2. ReplayFaithful' BY <1>2, <1>t, <1>f DEF ReserveAnswered
  <2> QED BY <2>1, <2>2 DEF Told1
<1>3. ASSUME NEW r \in Requests, ReadAnswered(r) PROVE Told1'
  <2>1. Senders BY <1>3, <1>t, <1>i, <1>r DEF ReadAnswered
  <2>2. ReplayFaithful'
    <3>1. ASSUME NEW s \in Requests, answer'[s] = "replayed", s # r
          PROVE  answer[s] = "replayed" /\ seen'[s] = seen[s]
      BY <1>3, <1>t, <3>1 DEF ReadAnswered
    <3>2. ASSUME answer'[r] = "replayed"
          PROVE  /\ seen'[r] = idem[KeyOf[r]] /\ idem[KeyOf[r]].st = "judgement"
                 /\ LeadOf[idem[KeyOf[r]].by] = LeadOf[r]
      BY <1>3, <1>t, <1>r, <3>2 DEF ReadAnswered
    <3>3. idem[KeyOf[r]].st # "none" => KeyOf[idem[KeyOf[r]].by] = KeyOf[r]
      BY RequestsAssumption DEF KInv, KeyHome
    <3> QED
      BY <1>i, <3>1, <3>2, <3>3 DEF ReplayFaithful
  <2> QED BY <2>1, <2>2 DEF Told1
<1>4. ASSUME NEW r \in Requests, TakeOverAnswered(r) PROVE Told1'
  <2>1. Senders BY <1>4, <1>t, <1>i, <1>r DEF TakeOverAnswered
  <2>2. ReplayFaithful' BY <1>4, <1>t, <1>f DEF TakeOverAnswered
  <2> QED BY <2>1, <2>2 DEF Told1
<1>5. ASSUME NEW r \in Requests, ClaimFails(r) PROVE Told1'
  <2>1. Senders BY <1>5, <1>t, <1>i, <1>r DEF ClaimFails
  <2>2. ReplayFaithful' BY <1>5, <1>t, <1>f DEF ClaimFails
  <2> QED BY <2>1, <2>2 DEF Told1
<1>6. ASSUME NEW r \in Requests, Judge(r) PROVE Told1'
  <2>1. Senders BY <1>6, <1>t, <1>i, <1>r DEF Judge
  <2>2. ReplayFaithful' BY <1>6, <1>t, <1>f DEF Judge
  <2> QED BY <2>1, <2>2 DEF Told1
<1>7. ASSUME NEW r \in Requests, Confirm(r) PROVE Told1'
  <2>1. Senders BY <1>7, <1>t, <1>i, <1>r DEF Confirm
  <2>2. ReplayFaithful' BY <1>7, <1>t, <1>f DEF Confirm
  <2> QED BY <2>1, <2>2 DEF Told1
<1>8. ASSUME NEW r \in Requests, Reference(r) PROVE Told1'
  <2>1. Senders BY <1>8, <1>t, <1>i, <1>r DEF Reference
  <2>2. ReplayFaithful' BY <1>8, <1>t, <1>f DEF Reference
  <2> QED BY <2>1, <2>2 DEF Told1
<1>9. ASSUME NEW r \in Requests, Release(r) PROVE Told1'
  <2>1. Senders BY <1>9, <1>t, <1>i, <1>r DEF Release
  <2>2. ReplayFaithful' BY <1>9, <1>t, <1>f DEF Release
  <2> QED BY <2>1, <2>2 DEF Told1
<1>10. ASSUME NEW r \in Requests, Cancel(r) PROVE Told1'
  <2>1. Senders BY <1>10, <1>t, <1>i, <1>r DEF Cancel, CancelBeforeClaim, CancelInTry, CancelAfterTry
  <2>2. ReplayFaithful' BY <1>10, <1>t, <1>f DEF Cancel, CancelBeforeClaim, CancelInTry, CancelAfterTry
  <2> QED BY <2>1, <2>2 DEF Told1
<1>11. ASSUME NEW r \in Requests, Kill(r) PROVE Told1'
  <2>1. Senders BY <1>11, <1>t, <1>i, <1>r DEF Kill, Awaited, InFlight, Body
  <2>2. ReplayFaithful' BY <1>11, <1>t, <1>f DEF Kill, Awaited, InFlight, Body
  <2> QED BY <2>1, <2>2 DEF Told1
<1>12. ASSUME Late PROVE Told1'
  <2>1. wire' \subseteq wire /\ UNCHANGED <<pc, seen, answer, claimed>>
    BY <1>12 DEF Late
  <2>2. Senders BY <2>1, <1>i
  <2>3. ReplayFaithful' BY <2>1, <1>f
  <2> QED BY <2>2, <2>3 DEF Told1
<1>13. ASSUME Tick PROVE Told1'
  <2>1. UNCHANGED <<wire, pc, seen, answer, claimed>>
    BY <1>13 DEF Tick, Advance
  <2>2. Senders BY <2>1, <1>i
  <2>3. ReplayFaithful' BY <2>1, <1>f
  <2> QED BY <2>2, <2>3 DEF Told1
<1>14. ASSUME Deploy PROVE Told1'
  <2>1. wire' = {} /\ UNCHANGED <<seen, answer>>
    BY <1>14 DEF Deploy
  <2>2. Senders BY <2>1
  <2>3. ReplayFaithful' BY <2>1, <1>f
  <2> QED BY <2>2, <2>3 DEF Told1
<1>15. ASSUME UNCHANGED vars PROVE Told1'
  <2>1. UNCHANGED <<wire, pc, seen, answer, claimed>>
    BY <1>15 DEF vars
  <2>2. Senders BY <2>1, <1>i
  <2>3. ReplayFaithful' BY <2>1, <1>f
  <2> QED BY <2>2, <2>3 DEF Told1
<1> QED
  BY <1>1, <1>2, <1>3, <1>4, <1>5, <1>6, <1>7, <1>8, <1>9, <1>10, <1>11, <1>12, <1>13, <1>14,
     <1>15 DEF Next, Step

-----------------------------------------------------------------------------
(* What is left behind *)

\* Each action leaves a reservation only to who will, or cannot, give it back.
LEMMA NextHeld == ASSUME IInv, RInv, KInv, [Next]_vars PROVE HeldForAReason'
<1> USE DEF Goto, Finish, CutOff, Cmd
<1>t. /\ pc \in [Requests -> PC] /\ claimed \in [Requests -> BOOLEAN]
      /\ storeFailed \in [Requests -> BOOLEAN] /\ wire \subseteq [op : Ops, by : Requests]
  BY DEF IInv, TypeOK
<1>i. HeldForAReason /\ UnclaimedSender /\ JudgesIfClaimed
  BY DEF KInv, Told1, RInv
<1>r. \A s \in Requests : Reserved(s).st = "reserved" /\ Judgement(s).st = "judgement" /\ Absent.st = "none"
  BY DEF Reserved, Judgement, Absent
\* A step of r: the others are where they were, and r has its own reason.
<1>s. ASSUME NEW r \in Requests,
             SetNX(r) \/ TakeOverScript(r) \/ SetXX(r) \/ Del(r) \/ NoEffect,
             \A s \in Requests \ {r} :
                pc'[s] = pc[s] /\ claimed'[s] = claimed[s] /\ storeFailed'[s] = storeFailed[s],
             \A c \in wire : c.by # r => c \in wire',
             claimed'[r] /\ idem'[KeyOf[r]] = Reserved(r) =>
                \/ pc'[r] \in {"judge", "confirm", "release", "killed"} \/ storeFailed'[r]
                \/ \E c \in wire' : c.by = r
      PROVE  HeldForAReason'
  <2>1. ASSUME NEW s \in Requests, s # r, claimed'[s], idem'[KeyOf[s]] = Reserved(s)
        PROVE  \/ pc'[s] \in {"judge", "confirm", "release", "killed"} \/ storeFailed'[s]
               \/ \E c \in wire' : c.by = s
    <3>1. idem[KeyOf[s]] = Reserved(s)
      BY <1>s, <2>1, OthersReserved
    <3> QED
      BY <1>i, <1>s, <2>1, <3>1 DEF HeldForAReason
  <2> QED
    BY <1>s, <2>1 DEF HeldForAReason
<1>1. ASSUME NEW r \in Requests, Start(r) PROVE HeldForAReason'
  <2>1. NoEffect BY <1>1 DEF Start
  <2>2. \A s \in Requests \ {r} :
           pc'[s] = pc[s] /\ claimed'[s] = claimed[s] /\ storeFailed'[s] = storeFailed[s]
    BY <1>1, <1>t DEF Start
  <2>3. \A c \in wire : c \in wire' BY <1>1 DEF Start
  <2>4. claimed'[r] /\ idem'[KeyOf[r]] = Reserved(r) =>
           \/ pc'[r] \in {"judge", "confirm", "release", "killed"} \/ storeFailed'[r]
           \/ \E c \in wire' : c.by = r
    BY <1>1, <1>t, <1>i DEF Start, JudgesIfClaimed
  <2> QED BY <2>1, <2>2, <2>3, <2>4, <1>s
<1>2. ASSUME NEW r \in Requests, ReserveAnswered(r) PROVE HeldForAReason'
  <2>1. SetNX(r) BY <1>2 DEF ReserveAnswered
  <2>2. \A s \in Requests \ {r} :
           pc'[s] = pc[s] /\ claimed'[s] = claimed[s] /\ storeFailed'[s] = storeFailed[s]
    BY <1>2, <1>t DEF ReserveAnswered
  <2>3. \A c \in wire : c \in wire' BY <1>2 DEF ReserveAnswered
  <2>4. claimed'[r] /\ idem'[KeyOf[r]] = Reserved(r) =>
           \/ pc'[r] \in {"judge", "confirm", "release", "killed"} \/ storeFailed'[r]
           \/ \E c \in wire' : c.by = r
    BY <1>2, <1>t, <1>i DEF ReserveAnswered
  <2> QED BY <2>1, <2>2, <2>3, <2>4, <1>s
<1>3. ASSUME NEW r \in Requests, ReadAnswered(r) PROVE HeldForAReason'
  <2>1. NoEffect BY <1>3 DEF ReadAnswered
  <2>2. \A s \in Requests \ {r} :
           pc'[s] = pc[s] /\ claimed'[s] = claimed[s] /\ storeFailed'[s] = storeFailed[s]
    BY <1>3, <1>t DEF ReadAnswered
  <2>3. \A c \in wire : c \in wire' BY <1>3 DEF ReadAnswered
  <2>4. claimed'[r] /\ idem'[KeyOf[r]] = Reserved(r) =>
           \/ pc'[r] \in {"judge", "confirm", "release", "killed"} \/ storeFailed'[r]
           \/ \E c \in wire' : c.by = r
    BY <1>3, <1>t, <1>i DEF ReadAnswered, JudgesIfClaimed
  <2> QED BY <2>1, <2>2, <2>3, <2>4, <1>s
<1>4. ASSUME NEW r \in Requests, TakeOverAnswered(r) PROVE HeldForAReason'
  <2>1. TakeOverScript(r) BY <1>4 DEF TakeOverAnswered
  <2>2. \A s \in Requests \ {r} :
           pc'[s] = pc[s] /\ claimed'[s] = claimed[s] /\ storeFailed'[s] = storeFailed[s]
    BY <1>4, <1>t DEF TakeOverAnswered
  <2>3. \A c \in wire : c \in wire' BY <1>4 DEF TakeOverAnswered
  <2>4. claimed'[r] /\ idem'[KeyOf[r]] = Reserved(r) =>
           \/ pc'[r] \in {"judge", "confirm", "release", "killed"} \/ storeFailed'[r]
           \/ \E c \in wire' : c.by = r
    BY <1>4, <1>t, <1>i DEF TakeOverAnswered, JudgesIfClaimed
  <2> QED BY <2>1, <2>2, <2>3, <2>4, <1>s
<1>5. ASSUME NEW r \in Requests, ClaimFails(r) PROVE HeldForAReason'
  <2>1. NoEffect BY <1>5 DEF ClaimFails
  <2>2. \A s \in Requests \ {r} :
           pc'[s] = pc[s] /\ claimed'[s] = claimed[s] /\ storeFailed'[s] = storeFailed[s]
    BY <1>5, <1>t DEF ClaimFails
  <2>3. \A c \in wire : c \in wire' BY <1>5 DEF ClaimFails
  <2>4. claimed'[r] /\ idem'[KeyOf[r]] = Reserved(r) =>
           \/ pc'[r] \in {"judge", "confirm", "release", "killed"} \/ storeFailed'[r]
           \/ \E c \in wire' : c.by = r
    BY <1>5, <1>t, <1>i DEF ClaimFails
  <2> QED BY <2>1, <2>2, <2>3, <2>4, <1>s
<1>6. ASSUME NEW r \in Requests, Judge(r) PROVE HeldForAReason'
  <2>1. NoEffect BY <1>6 DEF Judge
  <2>2. \A s \in Requests \ {r} :
           pc'[s] = pc[s] /\ claimed'[s] = claimed[s] /\ storeFailed'[s] = storeFailed[s]
    BY <1>6, <1>t DEF Judge
  <2>3. \A c \in wire : c \in wire' BY <1>6 DEF Judge
  <2>4. claimed'[r] /\ idem'[KeyOf[r]] = Reserved(r) =>
           \/ pc'[r] \in {"judge", "confirm", "release", "killed"} \/ storeFailed'[r]
           \/ \E c \in wire' : c.by = r
    BY <1>6, <1>t, <1>i DEF Judge
  <2> QED BY <2>1, <2>2, <2>3, <2>4, <1>s
<1>7. ASSUME NEW r \in Requests, Confirm(r) PROVE HeldForAReason'
  <2>1. SetXX(r) \/ NoEffect BY <1>7 DEF Confirm
  <2>2. \A s \in Requests \ {r} :
           pc'[s] = pc[s] /\ claimed'[s] = claimed[s] /\ storeFailed'[s] = storeFailed[s]
    BY <1>7, <1>t DEF Confirm
  <2>3. \A c \in wire : c \in wire' BY <1>7 DEF Confirm
  <2>4. claimed'[r] /\ idem'[KeyOf[r]] = Reserved(r) =>
           \/ pc'[r] \in {"judge", "confirm", "release", "killed"} \/ storeFailed'[r]
           \/ \E c \in wire' : c.by = r
    <3>1. CASE SetXX(r)
      <4>1. idem'[KeyOf[r]] # Reserved(r)
        BY <1>r, <3>1, RequestsAssumption DEF SetXX, Put, NoEffect, IInv, TypeOK
      <4> QED BY <4>1
    <3>2. CASE ~SetXX(r) BY <1>7, <1>t, <3>2 DEF Confirm
    <3> QED BY <3>1, <3>2
  <2> QED BY <2>1, <2>2, <2>3, <2>4, <1>s
<1>8. ASSUME NEW r \in Requests, Reference(r) PROVE HeldForAReason'
  <2>1. NoEffect BY <1>8 DEF Reference
  <2>2. \A s \in Requests \ {r} :
           pc'[s] = pc[s] /\ claimed'[s] = claimed[s] /\ storeFailed'[s] = storeFailed[s]
    BY <1>8, <1>t DEF Reference
  <2>3. \A c \in wire : c \in wire' BY <1>8 DEF Reference
  <2>4. claimed'[r] /\ idem'[KeyOf[r]] = Reserved(r) =>
           \/ pc'[r] \in {"judge", "confirm", "release", "killed"} \/ storeFailed'[r]
           \/ \E c \in wire' : c.by = r
    BY <1>8, <1>t, <1>i DEF Reference, NoEffect, HeldForAReason
  <2> QED BY <2>1, <2>2, <2>3, <2>4, <1>s
<1>9. ASSUME NEW r \in Requests, Release(r) PROVE HeldForAReason'
  <2>1. Del(r) \/ NoEffect BY <1>9 DEF Release
  <2>2. \A s \in Requests \ {r} :
           pc'[s] = pc[s] /\ claimed'[s] = claimed[s] /\ storeFailed'[s] = storeFailed[s]
    BY <1>9, <1>t DEF Release
  <2>3. \A c \in wire : c \in wire' BY <1>9 DEF Release
  <2>4. claimed'[r] /\ idem'[KeyOf[r]] = Reserved(r) =>
           \/ pc'[r] \in {"judge", "confirm", "release", "killed"} \/ storeFailed'[r]
           \/ \E c \in wire' : c.by = r
    <3>1. CASE Del(r)
      <4>1. idem'[KeyOf[r]] # Reserved(r)
        BY <1>r, <3>1, RequestsAssumption DEF Del, Put, IInv, TypeOK
      <4> QED BY <4>1
    <3>2. CASE ~Del(r) BY <1>9, <1>t, <3>2 DEF Release
    <3> QED BY <3>1, <3>2
  <2> QED BY <2>1, <2>2, <2>3, <2>4, <1>s
<1>10. ASSUME NEW r \in Requests, Cancel(r) PROVE HeldForAReason'
  <2>1. NoEffect BY <1>10 DEF Cancel, CancelBeforeClaim, CancelInTry, CancelAfterTry
  <2>2. \A s \in Requests \ {r} :
           pc'[s] = pc[s] /\ claimed'[s] = claimed[s] /\ storeFailed'[s] = storeFailed[s]
    BY <1>10, <1>t DEF Cancel, CancelBeforeClaim, CancelInTry, CancelAfterTry
  <2>3. \A c \in wire : c \in wire' BY <1>10 DEF Cancel, CancelBeforeClaim, CancelInTry, CancelAfterTry
  <2>4. claimed'[r] /\ idem'[KeyOf[r]] = Reserved(r) =>
           \/ pc'[r] \in {"judge", "confirm", "release", "killed"} \/ storeFailed'[r]
           \/ \E c \in wire' : c.by = r
    <3>1. CASE CancelBeforeClaim(r)
      BY <1>10, <3>1, <1>t, <1>i DEF Cancel, CancelBeforeClaim, JudgesIfClaimed
    <3>2. CASE CancelInTry(r)
      BY <1>10, <3>2, <1>t DEF Cancel, CancelInTry
    <3>3. CASE pc[r] = "release" /\ wire' = wire \cup {Cmd("delete", r)}
      <4>1. Cmd("delete", r) \in wire' /\ Cmd("delete", r).by = r BY <3>3
      <4> QED BY <4>1
    <3>4. CASE pc[r] = "reference" /\ UNCHANGED wire
      BY <1>10, <3>4, <1>t, <1>i DEF Cancel, CancelAfterTry, CancelBeforeClaim, CancelInTry,
                                     NoEffect, HeldForAReason, Reserved
    <3> QED BY <1>10, <3>1, <3>2, <3>3, <3>4 DEF Cancel, CancelAfterTry
  <2> QED BY <2>1, <2>2, <2>3, <2>4, <1>s
<1>11. ASSUME NEW r \in Requests, Kill(r) PROVE HeldForAReason'
  <2>1. NoEffect BY <1>11 DEF Kill, Awaited, InFlight, Body
  <2>2. \A s \in Requests \ {r} :
           pc'[s] = pc[s] /\ claimed'[s] = claimed[s] /\ storeFailed'[s] = storeFailed[s]
    BY <1>11, <1>t DEF Kill, Awaited, InFlight, Body
  <2>3. \A c \in wire : c \in wire' BY <1>11 DEF Kill, Awaited, InFlight, Body
  <2>4. claimed'[r] /\ idem'[KeyOf[r]] = Reserved(r) =>
           \/ pc'[r] \in {"judge", "confirm", "release", "killed"} \/ storeFailed'[r]
           \/ \E c \in wire' : c.by = r
    BY <1>11, <1>t, <1>i DEF Kill, Awaited, InFlight, Body
  <2> QED BY <2>1, <2>2, <2>3, <2>4, <1>s
<1>12. ASSUME Late PROVE HeldForAReason'
  <2>1. PICK c \in wire : /\ wire' = wire \ {c} /\ (RunLate(c) \/ DropLate(c))
                          /\ UNCHANGED <<pc, elapsed, seen, answer, claimed, schema>>
    BY <1>12 DEF Late
  <2>2. c.by \in Requests /\ c = [op |-> c.op, by |-> c.by] BY <2>1, <1>t
  <2>3. /\ SetNX(c.by) \/ TakeOverScript(c.by) \/ SetXX(c.by) \/ Del(c.by) \/ NoEffect
        /\ \A s \in Requests \ {c.by} : storeFailed'[s] = storeFailed[s]
    BY <2>1, <1>t DEF RunLate, DropLate
  <2>4. ASSUME claimed'[c.by], idem'[KeyOf[c.by]] = Reserved(c.by), ~storeFailed'[c.by]
        PROVE  FALSE
    <3>1. c.op \notin {"reserve", "takeover"}
      BY <2>1, <2>2, <2>4, <1>i DEF UnclaimedSender
    <3>2. (c.op = "confirm" /\ SetXX(c.by)) \/ (c.op = "delete" /\ Del(c.by))
      BY <2>1, <2>2, <2>4, <3>1, <1>t DEF RunLate, DropLate
    <3>3. idem'[KeyOf[c.by]] # Reserved(c.by)
      BY <2>2, <3>2, <1>r, RequestsAssumption DEF SetXX, Del, Put, NoEffect, IInv, TypeOK
    <3> QED BY <2>4, <3>3
  <2> QED BY <2>1, <2>2, <2>3, <2>4, <1>s
<1>13. ASSUME Tick PROVE HeldForAReason'
  <2>1. /\ UNCHANGED <<wire, pc, claimed, storeFailed>>
        /\ idem' = [k \in Keys |-> IF ttl[k] = 1 THEN Absent ELSE idem[k]]
    BY <1>13 DEF Tick, Advance
  <2>2. \A s \in Requests : idem'[KeyOf[s]] = Reserved(s) => idem[KeyOf[s]] = Reserved(s)
    BY <2>1, <1>r, RequestsAssumption
  <2> QED BY <2>1, <2>2, <1>i DEF HeldForAReason
<1>14. ASSUME Deploy PROVE HeldForAReason'
  BY <1>14, <1>t, <1>i DEF Deploy, NoEffect, InFlight, Body, HeldForAReason, Reserved
<1>15. ASSUME UNCHANGED vars PROVE HeldForAReason'
  BY <1>15, <1>i DEF vars, HeldForAReason, Reserved
<1> QED
  BY <1>1, <1>2, <1>3, <1>4, <1>5, <1>6, <1>7, <1>8, <1>9, <1>10, <1>11, <1>12, <1>13, <1>14,
     <1>15 DEF Next, Step

-----------------------------------------------------------------------------
(* What is kept *)

\* Each action keeps what is promised of answered judgements.
LEMMA NextShelf == ASSUME IInv, RInv, KInv, [Next]_vars PROVE Shelf'
<1> USE DEF Claims, Kept, Given, Goto, Finish, CutOff, Cmd
<1>t. /\ pc \in [Requests -> PC] /\ answer \in [Requests -> Answers]
      /\ wire \subseteq [op : Ops, by : Requests]
  BY DEF IInv, TypeOK
<1>k. \A s \in Requests : KeyOf[s] \in Keys
  BY RequestsAssumption
<1>r. /\ \A s \in Requests : pc[s] \notin {"release", "done", "killed"} => answer[s] = "none"
      /\ \A s \in Requests : pc[s] = "release" => answer[s] \notin {"judged", "replayed"}
      /\ \A s \in Requests : Cmd("confirm", s) \in wire =>
            pc[s] \in {"release", "reference", "done", "killed"}
      /\ \A s \in Requests : Cmd("delete", s) \in wire =>
            pc[s] \in {"done", "killed"} /\ answer[s] \notin {"judged", "replayed"}
  BY DEF RInv, UnansweredInFlight, ReleasingUntold, StoresIfClaimed, IInv, SenderEnded, KInv,
         Told1, DeleterUntold
<1>1. ASSUME NEW r \in Requests, Start(r) PROVE Shelf'
  <2>1. \A s \in Requests : Kept(s)' => Kept(s) BY <1>1, <1>t, <1>r DEF Start
  <2>2. \A s \in Requests : Claims(s)' => Claims(s) BY <1>1, <1>t DEF Start
  <2>3. \A s \in Requests : Given(s)' => Given(s) BY <1>1, <1>t, <1>r DEF Start
  <2>4. Runs(r) /\ elapsed' = elapsed /\ schema' = schema BY <1>1 DEF Start, Runs
  <2> HIDE DEF Claims, Kept, Given
  <2> QED BY <2>1, <2>2, <2>3, <2>4, ShelfKept
<1>2. ASSUME NEW r \in Requests, ReserveAnswered(r) PROVE Shelf'
  <2>1. \A s \in Requests : Kept(s)' => Kept(s) BY <1>2, <1>t, <1>r DEF ReserveAnswered
  <2>3. \A s \in Requests : Given(s)' => Given(s) BY <1>2, <1>t, <1>r DEF ReserveAnswered
  <2>4. elapsed' = elapsed /\ schema' = schema BY <1>2 DEF ReserveAnswered
  <2>5. CASE idem[KeyOf[r]].st = "none"
    <3>1. \A s \in Requests : Claims(s)' => Claims(s) \/ s = r BY <1>2, <1>t DEF ReserveAnswered
    <3>2. Put(KeyOf[r], Reserved(r), InflightTtl) BY <1>2, <2>5 DEF ReserveAnswered, SetNX
    <3>3. \/ idem[KeyOf[r]].st = "none"
          \/ idem[KeyOf[r]].st = "judgement" /\ idem[KeyOf[r]].schema # schema
      BY <1>2, <2>5
    <3> HIDE DEF Claims, Kept, Given
    <3> QED BY <2>1, <2>3, <2>4, <3>1, <3>2, <3>3, NobodyHolds, ShelfClaimed
  <2>6. CASE ~(idem[KeyOf[r]].st = "none")
    <3>1. \A s \in Requests : Claims(s)' => Claims(s) BY <1>2, <1>t, <2>6 DEF ReserveAnswered
    <3>2. Runs(r) BY <1>2, <2>6 DEF ReserveAnswered, Runs
    <3> HIDE DEF Claims, Kept, Given
    <3> QED BY <2>1, <2>3, <2>4, <3>1, <3>2, ShelfKept
  <2> QED BY <2>5, <2>6
<1>3. ASSUME NEW r \in Requests, ReadAnswered(r) PROVE Shelf'
  <2>1. \A s \in Requests : Kept(s)' => Kept(s) BY <1>3, <1>t, <1>r DEF ReadAnswered
  <2>2. \A s \in Requests : Claims(s)' => Claims(s) BY <1>3, <1>t DEF ReadAnswered
  <2>3. \A s \in Requests : Given(s)' => Given(s) BY <1>3, <1>t, <1>r DEF ReadAnswered
  <2>4. Runs(r) /\ elapsed' = elapsed /\ schema' = schema BY <1>3 DEF ReadAnswered, Runs
  <2> HIDE DEF Claims, Kept, Given
  <2> QED BY <2>1, <2>2, <2>3, <2>4, ShelfKept
<1>4. ASSUME NEW r \in Requests, TakeOverAnswered(r) PROVE Shelf'
  <2>1. \A s \in Requests : Kept(s)' => Kept(s) BY <1>4, <1>t, <1>r DEF TakeOverAnswered
  <2>3. \A s \in Requests : Given(s)' => Given(s) BY <1>4, <1>t, <1>r DEF TakeOverAnswered
  <2>4. elapsed' = elapsed /\ schema' = schema BY <1>4 DEF TakeOverAnswered
  <2>5. CASE idem[KeyOf[r]] = seen[r]
    <3>1. \A s \in Requests : Claims(s)' => Claims(s) \/ s = r BY <1>4, <1>t DEF TakeOverAnswered
    <3>2. Put(KeyOf[r], Reserved(r), InflightTtl) BY <1>4, <2>5 DEF TakeOverAnswered, TakeOverScript
    <3>3. \/ idem[KeyOf[r]].st = "none"
          \/ idem[KeyOf[r]].st = "judgement" /\ idem[KeyOf[r]].schema # schema
      BY <1>4, <2>5 DEF TakeOverAnswered, IInv, TakeOverIsStale
    <3> HIDE DEF Claims, Kept, Given
    <3> QED BY <2>1, <2>3, <2>4, <3>1, <3>2, <3>3, NobodyHolds, ShelfClaimed
  <2>6. CASE ~(idem[KeyOf[r]] = seen[r])
    <3>1. \A s \in Requests : Claims(s)' => Claims(s) BY <1>4, <1>t, <2>6 DEF TakeOverAnswered
    <3>2. Runs(r) BY <1>4, <2>6 DEF TakeOverAnswered, Runs
    <3> HIDE DEF Claims, Kept, Given
    <3> QED BY <2>1, <2>3, <2>4, <3>1, <3>2, ShelfKept
  <2> QED BY <2>5, <2>6
<1>5. ASSUME NEW r \in Requests, ClaimFails(r) PROVE Shelf'
  <2>1. \A s \in Requests : Kept(s)' => Kept(s) BY <1>5, <1>t, <1>r DEF ClaimFails
  <2>2. \A s \in Requests : Claims(s)' => Claims(s) BY <1>5, <1>t DEF ClaimFails
  <2>3. \A s \in Requests : Given(s)' => Given(s) BY <1>5, <1>t, <1>r DEF ClaimFails
  <2>4. Runs(r) /\ elapsed' = elapsed /\ schema' = schema BY <1>5 DEF ClaimFails, Runs
  <2> HIDE DEF Claims, Kept, Given
  <2> QED BY <2>1, <2>2, <2>3, <2>4, ShelfKept
<1>6. ASSUME NEW r \in Requests, Judge(r) PROVE Shelf'
  <2>1. \A s \in Requests : Kept(s)' => Kept(s) BY <1>6, <1>t, <1>r DEF Judge
  <2>2. \A s \in Requests : Claims(s)' => Claims(s) BY <1>6, <1>t DEF Judge
  <2>3. \A s \in Requests : Given(s)' => Given(s) BY <1>6, <1>t, <1>r DEF Judge
  <2>4. Runs(r) /\ elapsed' = elapsed /\ schema' = schema BY <1>6 DEF Judge, Runs
  <2> HIDE DEF Claims, Kept, Given
  <2> QED BY <2>1, <2>2, <2>3, <2>4, ShelfKept
\* r answers from here on: nobody else claims its key, and it no longer does.
<1>7. ASSUME NEW r \in Requests, Confirm(r) PROVE Shelf'
  <2>1. pc[r] = "confirm" /\ pc'[r] = "reference" /\ Claims(r) /\ elapsed' = elapsed /\ schema' = schema
    BY <1>7, <1>t DEF Confirm
  <2>2. \A s \in Requests \ {r} : /\ Kept(s)' => Kept(s)
                                  /\ Claims(s)' => Claims(s)
                                  /\ Given(s)' => Given(s)
    BY <1>7, <1>t DEF Confirm
  <2>3. ~Claims(r)' BY <1>7, <2>1, <1>t, <1>r DEF Confirm
  <2>4. \A s \in Requests : Claims(s) /\ KeyOf[s] = KeyOf[r] => s = r
    BY <2>1 DEF IInv, OneClaim
  <2>5. /\ SetXX(r) \/ NoEffect
        /\ \/ idem[KeyOf[r]] = Reserved(r)
           \/ idem[KeyOf[r]].st = "judgement" /\ idem[KeyOf[r]].schema = schema
        /\ ttl[KeyOf[r]] + elapsed[r] >= InflightTtl
    BY <1>7, <2>1 DEF Confirm, IInv, ClaimHolds
  <2>6. \A s \in Requests : elapsed[s] \in Nat /\ ttl[KeyOf[s]] \in Nat
    BY <1>k, Times DEF IInv, TypeOK
  <2>7. \A k \in Keys : \/ idem'[k] = idem[k] /\ ttl'[k] = ttl[k]
                        \/ /\ k = KeyOf[r] /\ idem'[k] = Judgement(r) /\ ttl'[k] = LongTtl
    BY <1>k, <2>5 DEF SetXX, NoEffect, Put, IInv, TypeOK
  <2>8. Judgement(r).st = "judgement" /\ Judgement(r).schema = schema /\ Judgement(r).by = r
    BY DEF Judgement
  <2> HIDE DEF Claims, Kept, Given
  <2>9. KeptHolds'
    <3>1. ASSUME NEW s \in Requests, Kept(s)'
          PROVE  /\ \/ idem[KeyOf[s]] = Reserved(s)
                    \/ idem[KeyOf[s]].st = "judgement" /\ idem[KeyOf[s]].schema = schema
                 /\ ttl[KeyOf[s]] + elapsed[s] >= InflightTtl
      BY <2>2, <2>5, <3>1 DEF KInv, Shelf, KeptHolds
    <3>2. ASSUME NEW s \in Requests, Kept(s)' PROVE KeptHolds!(s)!2'
      BY <1>k, <2>1, <2>6, <2>7, <2>8, <3>1, <3>2, Times DEF Reserved
    <3> QED BY <3>2 DEF KeptHolds
  <2>10. KeptAlone'
    BY <2>2, <2>3, <2>4 DEF KInv, Shelf, KeptAlone
  <2>11. ASSUME NEW s \in Requests, Claims(s)', idem'[KeyOf[s]].st = "judgement"
         PROVE  LET b == idem'[KeyOf[s]].by IN pc'[b] # "reference" /\ answer'[b] # "judged"
    <3>1. s # r /\ Claims(s) /\ KeyOf[s] # KeyOf[r]
      BY <2>2, <2>3, <2>4, <2>11
    <3>2. idem'[KeyOf[s]] = idem[KeyOf[s]]
      BY <1>k, <2>7, <3>1
    <3>3. /\ idem[KeyOf[s]].by \in Requests /\ KeyOf[idem[KeyOf[s]].by] = KeyOf[s]
          /\ ~Given(idem[KeyOf[s]].by)
      BY <1>k, <2>11, <3>1, <3>2 DEF KInv, KeyHome, Shelf, DoomedUntold
    <3>4. idem[KeyOf[s]].by # r
      BY <3>1, <3>3
    <3> QED BY <2>2, <3>2, <3>3, <3>4 DEF Given
  <2>12. DoomedUntold' BY <2>11 DEF DoomedUntold, Given
  <2> QED BY <2>9, <2>10, <2>12 DEF Shelf
<1>8. ASSUME NEW r \in Requests, Reference(r) PROVE Shelf'
  <2>1. \A s \in Requests : Kept(s)' => Kept(s) BY <1>8, <1>t, <1>r DEF Reference
  <2>2. \A s \in Requests : Claims(s)' => Claims(s) BY <1>8, <1>t DEF Reference
  <2>3. \A s \in Requests : Given(s)' => Given(s) BY <1>8, <1>t, <1>r DEF Reference
  <2>4. Runs(r) /\ elapsed' = elapsed /\ schema' = schema BY <1>8 DEF Reference, Runs
  <2> HIDE DEF Claims, Kept, Given
  <2> QED BY <2>1, <2>2, <2>3, <2>4, ShelfKept
<1>9. ASSUME NEW r \in Requests, Release(r) PROVE Shelf'
  <2>1. \A s \in Requests : Kept(s)' => Kept(s) BY <1>9, <1>t, <1>r DEF Release
  <2>2. \A s \in Requests : Claims(s)' => Claims(s) BY <1>9, <1>t DEF Release
  <2>3. \A s \in Requests : Given(s)' => Given(s) BY <1>9, <1>t, <1>r DEF Release
  <2>4. Runs(r) /\ elapsed' = elapsed /\ schema' = schema BY <1>9 DEF Release, Runs
  <2> HIDE DEF Claims, Kept, Given
  <2> QED BY <2>1, <2>2, <2>3, <2>4, ShelfKept
<1>10. ASSUME NEW r \in Requests, Cancel(r) PROVE Shelf'
  <2>1. \A s \in Requests : Kept(s)' => Kept(s) BY <1>10, <1>t, <1>r DEF Cancel, CancelBeforeClaim, CancelInTry, CancelAfterTry
  <2>2. \A s \in Requests : Claims(s)' => Claims(s) BY <1>10, <1>t DEF Cancel, CancelBeforeClaim, CancelInTry, CancelAfterTry
  <2>3. \A s \in Requests : Given(s)' => Given(s) BY <1>10, <1>t, <1>r DEF Cancel, CancelBeforeClaim, CancelInTry, CancelAfterTry
  <2>4. Runs(r) /\ elapsed' = elapsed /\ schema' = schema BY <1>10 DEF Cancel, CancelBeforeClaim, CancelInTry, CancelAfterTry, Runs
  <2> HIDE DEF Claims, Kept, Given
  <2> QED BY <2>1, <2>2, <2>3, <2>4, ShelfKept
<1>11. ASSUME NEW r \in Requests, Kill(r) PROVE Shelf'
  <2>1. \A s \in Requests : Kept(s)' => Kept(s) BY <1>11, <1>t, <1>r DEF Kill, Awaited, InFlight, Body
  <2>2. \A s \in Requests : Claims(s)' => Claims(s) BY <1>11, <1>t DEF Kill, Awaited, InFlight, Body
  <2>3. \A s \in Requests : Given(s)' => Given(s) BY <1>11, <1>t, <1>r DEF Kill, Awaited, InFlight, Body
  <2>4. Runs(r) /\ elapsed' = elapsed /\ schema' = schema BY <1>11 DEF Kill, Awaited, InFlight, Body, Runs
  <2> HIDE DEF Claims, Kept, Given
  <2> QED BY <2>1, <2>2, <2>3, <2>4, ShelfKept
<1>12. ASSUME Late PROVE Shelf'
  <2>1. PICK c \in wire : /\ wire' = wire \ {c} /\ (RunLate(c) \/ DropLate(c))
                          /\ UNCHANGED <<pc, elapsed, seen, answer, claimed, schema>>
    BY <1>12 DEF Late
  <2>2. c.by \in Requests /\ c = [op |-> c.op, by |-> c.by] BY <2>1, <1>t
  <2>3. \A s \in Requests : /\ Kept(s)' => Kept(s)
                            /\ Claims(s)' => Claims(s)
                            /\ Given(s)' => Given(s)
    BY <2>1
  <2>4. Runs(c.by) BY <2>1, <2>2 DEF Runs, RunLate, DropLate
  <2>5. elapsed' = elapsed /\ schema' = schema BY <2>1
  <2> HIDE DEF Claims, Kept, Given
  <2> QED BY <2>2, <2>3, <2>4, <2>5, ShelfKept
<1>13. ASSUME Tick PROVE Shelf'
  <2>1. UNCHANGED <<wire, pc, answer, schema>> BY <1>13 DEF Tick, Advance
  <2>2. ASSUME NEW s \in Requests, Kept(s)
        PROVE  idem'[KeyOf[s]] = idem[KeyOf[s]] /\ ttl'[KeyOf[s]] + elapsed'[s] >= InflightTtl
    <3>1. Live(s) BY <2>2 DEF Live
    <3>2. elapsed[s] < Deadline + Grace /\ elapsed'[s] = elapsed[s] + 1
      BY <1>13, <3>1 DEF Tick, Advance
    <3>3. /\ elapsed[s] \in Nat /\ ttl[KeyOf[s]] \in Nat
          /\ ttl[KeyOf[s]] + elapsed[s] >= InflightTtl
      BY <1>k, <2>2, Times DEF IInv, TypeOK, KInv, Shelf, KeptHolds
    <3>4. ttl[KeyOf[s]] > 1 BY <3>2, <3>3, Times
    <3> QED BY <1>13, <1>k, <3>2, <3>3, <3>4 DEF Tick, Advance
  <2>3. \A s \in Requests : (Kept(s)' <=> Kept(s)) /\ (Claims(s)' <=> Claims(s)) /\ (Given(s)' <=> Given(s))
    BY <2>1
  <2> HIDE DEF Claims, Kept, Given
  <2>4. KeptHolds'
    <3>1. ASSUME NEW s \in Requests, Kept(s)' PROVE KeptHolds!(s)!2'
      BY <2>1, <2>2, <2>3, <3>1 DEF KInv, Shelf, KeptHolds, Reserved
    <3> QED BY <3>1 DEF KeptHolds
  <2>5. KeptAlone' BY <2>3 DEF KInv, Shelf, KeptAlone
  <2>6. DoomedUntold'
    <3>1. ASSUME NEW s \in Requests, Claims(s), idem'[KeyOf[s]].st = "judgement"
          PROVE  /\ idem'[KeyOf[s]] = idem[KeyOf[s]]
                 /\ idem[KeyOf[s]].by \in Requests /\ ~Given(idem[KeyOf[s]].by)
      BY <1>13, <1>k, <3>1, TickKeeps DEF KInv, KeyHome, Shelf, DoomedUntold
    <3> QED BY <2>3, <3>1 DEF DoomedUntold
  <2> QED BY <2>4, <2>5, <2>6 DEF Shelf
<1>14. ASSUME Deploy PROVE Shelf'
  <2>1. \A s \in Requests : ~Claims(s)' /\ ~Kept(s)'
    BY <1>14, <1>t DEF Deploy, InFlight, Body
  <2> HIDE DEF Claims, Kept, Given
  <2> QED BY <2>1, Zenon DEF Shelf, KeptHolds, KeptAlone, DoomedUntold
<1>15. ASSUME UNCHANGED vars PROVE Shelf'
  <2>1. UNCHANGED <<idem, ttl, wire, pc, elapsed, answer, schema>> BY <1>15 DEF vars
  <2> QED BY <2>1 DEF KInv, Shelf, KeptHolds, KeptAlone, DoomedUntold, Reserved
<1> QED
  BY <1>1, <1>2, <1>3, <1>4, <1>5, <1>6, <1>7, <1>8, <1>9, <1>10, <1>11, <1>12, <1>13, <1>14,
     <1>15 DEF Next, Step

-----------------------------------------------------------------------------
(* What holds of every behaviour *)

\* A step is a command of some request, a tick, or leaves the store alone.
LEMMA StoreSteps ==
    ASSUME IInv, [Next]_vars
    PROVE  \/ \E r \in Requests :
                 SetNX(r) \/ TakeOverScript(r) \/ SetXX(r) \/ Del(r) \/ NoEffect
           \/ Tick
           \/ UNCHANGED idem
<1>1. ASSUME NEW r \in Requests, Step(r) \/ Kill(r)
      PROVE  SetNX(r) \/ TakeOverScript(r) \/ SetXX(r) \/ Del(r) \/ NoEffect
  BY <1>1 DEF Step, Start, ReserveAnswered, ReadAnswered, TakeOverAnswered, ClaimFails, Judge,
              Confirm, Reference, Release, Cancel, CancelBeforeClaim, CancelInTry,
              CancelAfterTry, Kill
<1>2. CASE Late
  <2>1. PICK c \in wire : RunLate(c) \/ DropLate(c)
    BY <1>2 DEF Late
  <2>2. c.by \in Requests
    BY DEF IInv, TypeOK
  <2> QED
    BY <2>1, <2>2 DEF RunLate, DropLate
<1>3. CASE Deploy \/ UNCHANGED vars
  BY <1>3 DEF Deploy, NoEffect, vars
<1> QED
  BY <1>1, <1>2, <1>3 DEF Next

LEMMA NextHome == ASSUME IInv, KInv, [Next]_vars PROVE KeyHome'
<1>1. ASSUME NEW r \in Requests,
             SetNX(r) \/ TakeOverScript(r) \/ SetXX(r) \/ Del(r) \/ NoEffect
      PROVE  KeyHome'
  BY <1>1, HomeKept DEF KInv
<1>2. CASE Tick
  BY <1>2 DEF Tick, Advance, KInv, KeyHome, Absent
<1>3. CASE UNCHANGED idem
  BY <1>3 DEF KInv, KeyHome
<1> QED
  BY <1>1, <1>2, <1>3, StoreSteps

LEMMA InitKInv == Init => KInv
<1> SUFFICES ASSUME Init PROVE KInv
  OBVIOUS
<1>1. KeyHome
  BY DEF Init, KeyHome, Absent
<1>2. Told1
  BY DEF Init, Told1, UnclaimedSender, DeleterUntold, ReplayFaithful
<1>3. HeldForAReason
  BY DEF Init, HeldForAReason
<1>4. Shelf
  BY DEF Init, Shelf, KeptHolds, KeptAlone, DoomedUntold, Kept, Claims
<1> QED
  BY <1>1, <1>2, <1>3, <1>4 DEF KInv

LEMMA SpecKInv == Spec => [](IInv /\ RInv /\ KInv)
<1>1. IInv /\ RInv /\ KInv /\ [Next]_vars => KInv'
  BY NextHome, NextTold, NextHeld, NextShelf DEF KInv
<1> QED
  BY <1>1, InitKInv, RefinementInvariant, PTL DEF Spec

\* A replay answers the caller's own note and lead, in whatever order claims,
\* take-overs, confirms and deploys went (pipeline._existing_judgement).
THEOREM IdempotencyReplayFaithful == Spec => []ReplayFaithful
<1>1. KInv => ReplayFaithful
  BY DEF KInv, Told1
<1> QED
  BY <1>1, SpecKInv, PTL

\* A claimant that failed or was cancelled leaves no reservation of its own,
\* unless a command to db2 failed or is still on its way.
THEOREM IdempotencyFailureReleases == Spec => []FailureReleases
<1>1. KInv => FailureReleases
  BY DEF KInv, HeldForAReason, FailureReleases
<1> QED
  BY <1>1, SpecKInv, PTL

Keeps ==
    \A k \in Keys :
        /\ idem[k].st = "judgement" /\ idem[k].schema = schema
        /\ answer[idem[k].by] = "judged" /\ ttl[k] > 1
        => idem'[k].st = "judgement"

\* No command that can still run takes an answered judgement away.
LEMMA RunsKeep ==
    ASSUME IInv, KInv, NEW r \in Requests, Runs(r) \/ SetXX(r)
    PROVE  Keeps
<1> SUFFICES ASSUME NEW k \in Keys, idem[k].st = "judgement", idem[k].schema = schema,
                    answer[idem[k].by] = "judged"
             PROVE  idem'[k].st = "judgement"
  BY DEF Keeps
<1>1. Claims(r) => KeyOf[r] # k
  BY DEF KInv, Shelf, DoomedUntold, Given
<1>2. KeyOf[r] \in Keys /\ idem \in [Keys -> Entry]
  BY RequestsAssumption DEF IInv, TypeOK
<1>3. CASE NoEffect BY <1>3 DEF NoEffect
<1>4. CASE SetNX(r) BY <1>2, <1>4 DEF SetNX, Put, NoEffect
<1>5. CASE SetXX(r) BY <1>2, <1>5 DEF SetXX, Put, NoEffect, Judgement
<1>6. CASE Del(r) /\ Claims(r) BY <1>1, <1>2, <1>6 DEF Del, Put
<1>7. CASE TakeOverScript(r) /\ (pc[r] = "takeover" \/ Cmd("takeover", r) \in wire)
  <2>1. seen[r].schema # schema
    BY <1>7 DEF IInv, TakeOverIsStale
  <2> QED
    BY <1>2, <1>7, <2>1 DEF TakeOverScript, Put, NoEffect
<1> QED
  BY <1>3, <1>4, <1>5, <1>6, <1>7 DEF Runs

LEMMA NextKeeps ==
    ASSUME IInv, KInv, [Next]_vars
    PROVE  Keeps
<1>1. CASE Tick
  <2>1. idem' = [k \in Keys |-> IF ttl[k] = 1 THEN Absent ELSE idem[k]]
    BY <1>1 DEF Tick, Advance
  <2>2. ttl \in [Keys -> 0..LongTtl] /\ LongTtl \in Nat
    BY Times DEF IInv, TypeOK
  <2> QED
    BY <2>1, <2>2 DEF Keeps
<1>2. CASE UNCHANGED idem
  BY <1>2 DEF Keeps
<1>3. ASSUME NEW r \in Requests, Step(r) \/ Kill(r)
      PROVE  Keeps
  <2>1. Runs(r) \/ SetXX(r)
    BY <1>3 DEF Runs, Claims, Step, Start, ReserveAnswered, ReadAnswered, TakeOverAnswered,
                ClaimFails, Judge, Confirm, Reference, Release, Cancel, CancelBeforeClaim,
                CancelInTry, CancelAfterTry, Kill
  <2> QED
    BY <2>1, RunsKeep
<1>4. CASE Late
  <2>1. PICK c \in wire : RunLate(c) \/ DropLate(c)
    BY <1>4 DEF Late
  <2>2. c.by \in Requests /\ c = [op |-> c.op, by |-> c.by]
    BY DEF IInv, TypeOK
  <2>3. Runs(c.by) \/ SetXX(c.by)
    BY <2>1, <2>2 DEF RunLate, DropLate, Runs, Claims, Cmd
  <2> QED
    BY <2>2, <2>3, RunsKeep
<1>5. CASE Deploy \/ UNCHANGED vars
  BY <1>2, <1>5 DEF Deploy, NoEffect, vars
<1> QED
  BY <1>1, <1>3, <1>4, <1>5 DEF Next

\* A judgement its caller was given stays stored until its TTL runs out.
THEOREM IdempotencyAnsweredKept == Spec => AnsweredJudgementKept
<1>1. IInv /\ RInv /\ KInv /\ [Next]_vars => [Keeps]_vars
  BY NextKeeps
<1> QED
  BY <1>1, SpecKInv, PTL DEF Spec, AnsweredJudgementKept, Keeps
=============================================================================

------------------------ MODULE TokenRotation_proofs ------------------------
(***************************************************************************)
(* Proofs about TokenRotation, for any number of requests and logouts and  *)
(* every bound: its types, that rotation is strict, that a token has one   *)
(* successor, that a refusal means the session is over and that a session  *)
(* that is over stays so.                                                  *)
(***************************************************************************)
EXTENDS TokenRotation, TLAPS

(***************************************************************************)
(* A request under way has a token, and the pair it is about to answer.    *)
(***************************************************************************)
HasPair(r) == pc[r] \in {"registered", "found"}

Held == \A r \in Requests : /\ pc[r] # "idle" => token[r] \in Tokens
                            /\ HasPair(r) => pair[r] \in Tokens

Typed == TypeOK /\ Held

\* the session after the login is well typed
LEMMA TypedInit == Init => Typed
BY TokenAssumption DEF Init, Typed, TypeOK, Held, HasPair, Tokens, NoToken

\* a request that ends keeps the types, whatever it was answered
LEMMA RefuseTyped ==
  ASSUME Typed, NEW r \in Requests, Refuse(r)
  PROVE  /\ known' \subseteq Tokens
         /\ pc' \in [Requests -> {"idle", "consumed", "checked", "registered",
                                  "missing", "polling", "found", "unknown", "reused"}]
         /\ token' \in [Requests -> Tokens \cup {NoToken}]
         /\ pair' \in [Requests -> Tokens \cup {NoToken}]
         /\ answers' \in [Tokens -> SUBSET Tokens]
         /\ Held'
BY DEF Typed, TypeOK, Held, HasPair, Refuse, Ends

\* the same for a request that is answered with its pair
LEMMA AnswerTyped ==
  ASSUME Typed, NEW r \in Requests, HasPair(r), Answer(r)
  PROVE  /\ known' \subseteq Tokens
         /\ pc' \in [Requests -> {"idle", "consumed", "checked", "registered",
                                  "missing", "polling", "found", "unknown", "reused"}]
         /\ token' \in [Requests -> Tokens \cup {NoToken}]
         /\ pair' \in [Requests -> Tokens \cup {NoToken}]
         /\ answers' \in [Tokens -> SUBSET Tokens]
         /\ Held'
BY DEF Typed, TypeOK, Held, HasPair, Answer, Ends

\* every call to Redis keeps the types
LEMMA TypedStep == Typed /\ [Next]_vars => Typed'
<1> SUFFICES ASSUME Typed, [Next]_vars
             PROVE  Typed'
  OBVIOUS
<1>a. TypeOK /\ Held
  BY DEF Typed
<1>1. ASSUME NEW r \in Requests, NEW t \in Tokens, Consume(r, t)
      PROVE  Typed'
  BY <1>a, <1>1, TokenAssumption DEF Consume, Typed, TypeOK, Held, HasPair
<1>2. ASSUME NEW r \in Requests, CheckFamily(r)
      PROVE  Typed'
  <2>1. CASE Goto(r, "checked") /\ UNCHANGED pair
    BY <1>a, <1>2, <2>1 DEF CheckFamily, Goto, keys, bounds, Typed, TypeOK, Held, HasPair
  <2>2. CASE Refuse(r)
    BY <1>a, <1>2, <2>2, RefuseTyped DEF CheckFamily, keys, bounds, Typed, TypeOK
  <2> QED
    BY <1>2, <2>1, <2>2 DEF CheckFamily
<1>3. ASSUME NEW r \in Requests, Register(r)
      PROVE  Typed'
  <2>1. issued + 1 \in Tokens
    BY <1>a, <1>3, TokenAssumption DEF Register, TypeOK, Tokens
  <2> QED
    BY <1>a, <1>3, <2>1 DEF Register, Goto, bounds, Typed, TypeOK, Held, HasPair
<1>4. ASSUME NEW r \in Requests, StoreGrace(r)
      PROVE  Typed'
  <2>1. HasPair(r) /\ pair[r] \in Tokens
    BY <1>a, <1>4 DEF StoreGrace, Held, HasPair
  <2> QED
    BY <1>a, <1>4, <2>1, AnswerTyped DEF StoreGrace, bounds, Typed, TypeOK
<1>5. ASSUME NEW r \in Requests, DropGrace(r)
      PROVE  Typed'
  BY <1>a, <1>5 DEF DropGrace, Goto, bounds, Typed, TypeOK, Held, HasPair
<1>6. ASSUME NEW r \in Requests, PollGrace(r)
      PROVE  Typed'
  BY <1>a, <1>6 DEF PollGrace, Goto, keys, bounds, Typed, TypeOK, Held, HasPair
<1>7. ASSUME NEW r \in Requests, AnswerFound(r)
      PROVE  Typed'
  <2>1. HasPair(r)
    BY <1>7 DEF AnswerFound, HasPair
  <2> QED
    BY <1>a, <1>7, <2>1, AnswerTyped, RefuseTyped DEF AnswerFound, keys, bounds, Typed, TypeOK
<1>8. ASSUME NEW r \in Requests, CheckReuse(r)
      PROVE  Typed'
  <2>1. CASE Goto(r, "reused") /\ UNCHANGED pair
    BY <1>a, <1>8, <2>1 DEF CheckReuse, Goto, keys, bounds, Typed, TypeOK, Held, HasPair
  <2>2. CASE Refuse(r)
    BY <1>a, <1>8, <2>2, RefuseTyped DEF CheckReuse, keys, bounds, Typed, TypeOK
  <2> QED
    BY <1>8, <2>1, <2>2 DEF CheckReuse
<1>9. ASSUME NEW r \in Requests, RevokeReused(r)
      PROVE  Typed'
  BY <1>a, <1>9, RefuseTyped DEF RevokeReused, bounds, Typed, TypeOK
<1>10. ASSUME NEW r \in Requests, Crash(r)
       PROVE  Typed'
  <2>1. crashes' \in 0 .. MaxCrashes
    BY <1>a, <1>10, TokenAssumption DEF Crash, TypeOK
  <2> QED
    BY <1>a, <1>10, <2>1, RefuseTyped DEF Crash, keys, Typed, TypeOK
<1>11. ASSUME NEW t \in Tokens, GraceExpires(t)
       PROVE  Typed'
  BY <1>a, <1>11, TokenAssumption DEF GraceExpires, reqs, Typed, TypeOK, Held, HasPair
<1>12. ASSUME NEW l \in Logouts, Logout(l)
       PROVE  Typed'
  BY <1>a, <1>12 DEF Logout, LogoutAccess, LogoutFamily, LogoutRefresh, reqs, bounds,
                     Typed, TypeOK, Held, HasPair
<1>13. CASE UNCHANGED vars
  BY <1>a, <1>13 DEF vars, keys, reqs, bounds, Typed, TypeOK, Held, HasPair
<1> QED
  BY <1>1, <1>2, <1>3, <1>4, <1>5, <1>6, <1>7, <1>8, <1>9, <1>10, <1>11, <1>12, <1>13
  DEF Next, Handle

(***************************************************************************)
(* The state of the session, its requests and logouts keeps its types.     *)
(***************************************************************************)
THEOREM SessionTypeCorrect == Spec => []TypeOK
<1>1. Typed => TypeOK
  BY DEF Typed
<1> QED
  BY <1>1, TypedInit, TypedStep, PTL DEF Spec

-----------------------------------------------------------------------------
(***************************************************************************)
(* The invariant.  a succeeds t when somebody who presented t was answered *)
(* a, or will be: a is in the grace key of t, or a request holds it.       *)
(* Tokens not issued yet have no keys; a token that can still be rotated,  *)
(* or is being rotated, has no successor.                                  *)
(***************************************************************************)
Succeeds(a, t) ==
  \/ a \in answers[t]
  \/ grace[t] = a /\ a \in Tokens
  \/ \E r \in Requests : HasPair(r) /\ token[r] = t /\ pair[r] = a

Fresh(t) == \A a \in Tokens : ~Succeeds(a, t)

Issued == /\ \A t \in Tokens : t > issued => /\ t \notin registered
                                             /\ t \notin known
                                             /\ Fresh(t)
          /\ \A r \in Requests : /\ pc[r] # "idle" => token[r] <= issued
                                 /\ HasPair(r) => pair[r] <= issued
          /\ \A t \in Tokens : grace[t] \in Tokens => grace[t] <= issued

Lineage == /\ \A t \in Tokens : \A a, b \in Tokens : Succeeds(a, t) /\ Succeeds(b, t) => a = b
           /\ \A t \in registered : Fresh(t)
           /\ \A r \in Requests : Rotates(r) => Fresh(token[r])

SessionInv == Typed /\ OneLiveToken /\ Issued /\ Lineage

\* the session after the login satisfies SessionInv
LEMMA SessionInvInit == Init => SessionInv
<1> SUFFICES ASSUME Init PROVE OneLiveToken /\ Issued /\ Lineage
  BY TypedInit DEF SessionInv
<1>1. \A t \in Tokens : Fresh(t)
  BY TokenAssumption DEF Init, Fresh, Succeeds, HasPair
<1>2. OneLiveToken /\ \A r \in Requests : pc[r] = "idle"
  BY DEF Init, OneLiveToken, Rotates
<1>3. \A t \in Tokens : t > 1 => t # 1
  BY TokenAssumption DEF Tokens
<1>4. Issued
  BY <1>1, <1>2, <1>3, TokenAssumption DEF Init, Issued, HasPair
<1>5. 1 \in Tokens
  BY TokenAssumption DEF Tokens
<1>6. \A t \in Tokens : \A a \in Tokens : ~Succeeds(a, t)
  BY <1>1 DEF Fresh
<1>7. Lineage
  BY <1>1, <1>2, <1>5, <1>6 DEF Init, Lineage, Rotates
<1> QED
  BY <1>2, <1>4, <1>7

(***************************************************************************)
(* Every step but Register makes no successor that was not one before.     *)
(***************************************************************************)
LEMMA SuccessorsKept ==
  ASSUME SessionInv, Next, ~(\E r \in Requests : Register(r)),
         NEW t \in Tokens, NEW a \in Tokens, Succeeds(a, t)'
  PROVE  Succeeds(a, t)
<1>a. Typed /\ TypeOK /\ Held
  BY DEF SessionInv, Typed
<1>1. ASSUME NEW r \in Requests, NEW u \in Tokens, Consume(r, u)
      PROVE  Succeeds(a, t)
  BY <1>a, <1>1, TokenAssumption DEF Consume, Succeeds, HasPair, TypeOK
<1>2. ASSUME NEW r \in Requests, Refuse(r), UNCHANGED keys
      PROVE  Succeeds(a, t)
  BY <1>a, <1>2 DEF Refuse, Ends, keys, Succeeds, HasPair, TypeOK
<1>3. ASSUME NEW r \in Requests, Goto(r, "checked") \/ Goto(r, "unknown") \/ Goto(r, "reused"),
             UNCHANGED <<grace, pair>>
      PROVE  Succeeds(a, t)
  BY <1>a, <1>3 DEF Goto, Succeeds, HasPair, TypeOK
<1>4. ASSUME NEW r \in Requests, CheckFamily(r)
      PROVE  Succeeds(a, t)
  BY <1>2, <1>3, <1>4 DEF CheckFamily, keys
<1>5. ASSUME NEW r \in Requests, HasPair(r), Answer(r),
             grace' = grace \/ grace' = [grace EXCEPT ![token[r]] = pair[r]]
      PROVE  Succeeds(a, t)
  <2>1. \/ a \in answers[t]
        \/ token[r] = t /\ pair[r] = a
        \/ grace[t] = a
        \/ \E q \in Requests : HasPair(q) /\ token[q] = t /\ pair[q] = a
    <3>0. /\ token[r] \in Tokens
          /\ answers' = [answers EXCEPT ![token[r]] = @ \cup {pair[r]}]
          /\ pc' = [pc EXCEPT ![r] = "idle"]
          /\ token' = [token EXCEPT ![r] = NoToken]
          /\ pair' = [pair EXCEPT ![r] = NoToken]
      BY <1>a, <1>5 DEF Answer, Ends, Held, HasPair
    <3>1. CASE a \in answers'[t]
      BY <1>a, <3>0, <3>1 DEF TypeOK
    <3>2. CASE grace'[t] = a
      <4>1. CASE grace' = grace
        BY <3>2, <4>1
      <4>2. CASE grace' = [grace EXCEPT ![token[r]] = pair[r]]
        BY <1>a, <3>0, <3>2, <4>2 DEF TypeOK
      <4> QED
        BY <1>5, <4>1, <4>2
    <3>3. CASE \E q \in Requests : HasPair(q)' /\ token'[q] = t /\ pair'[q] = a
      BY <1>a, <3>0, <3>3 DEF HasPair, TypeOK
    <3> QED
      BY <3>1, <3>2, <3>3 DEF Succeeds
  <2> QED
    BY <1>5, <2>1 DEF Succeeds
<1>6. ASSUME NEW r \in Requests, StoreGrace(r)
      PROVE  Succeeds(a, t)
  BY <1>5, <1>6 DEF StoreGrace, HasPair
<1>7. ASSUME NEW r \in Requests, DropGrace(r)
      PROVE  Succeeds(a, t)
  BY <1>a, <1>7, TokenAssumption DEF DropGrace, Goto, Succeeds, HasPair, TypeOK
<1>8. ASSUME NEW r \in Requests, PollGrace(r)
      PROVE  Succeeds(a, t)
  <2>1. CASE grace[token[r]] \in Tokens /\ pair' = [pair EXCEPT ![r] = grace[token[r]]] /\ Goto(r, "found")
    <3>1. \/ a \in answers[t]
          \/ grace[t] = a
          \/ token[r] = t /\ a = grace[t]
          \/ \E q \in Requests : HasPair(q) /\ token[q] = t /\ pair[q] = a
      BY <1>a, <1>8, <2>1 DEF PollGrace, Goto, keys, Succeeds, HasPair, TypeOK
    <3> QED
      BY <3>1 DEF Succeeds
  <2>2. CASE Goto(r, "unknown") /\ UNCHANGED pair
    BY <1>3, <1>8, <2>2 DEF PollGrace, keys
  <2> QED
    BY <1>8, <2>1, <2>2 DEF PollGrace
<1>9. ASSUME NEW r \in Requests, AnswerFound(r)
      PROVE  Succeeds(a, t)
  BY <1>2, <1>5, <1>9 DEF AnswerFound, HasPair, keys
<1>10. ASSUME NEW r \in Requests, CheckReuse(r)
       PROVE  Succeeds(a, t)
  BY <1>2, <1>3, <1>10 DEF CheckReuse, keys
<1>11. ASSUME NEW r \in Requests, RevokeReused(r)
       PROVE  Succeeds(a, t)
  BY <1>a, <1>11 DEF RevokeReused, Refuse, Ends, Succeeds, HasPair, TypeOK
<1>12. ASSUME NEW r \in Requests, Crash(r)
       PROVE  Succeeds(a, t)
  BY <1>2, <1>12 DEF Crash
<1>13. ASSUME NEW u \in Tokens, GraceExpires(u)
       PROVE  Succeeds(a, t)
  BY <1>a, <1>13, TokenAssumption DEF GraceExpires, reqs, Succeeds, HasPair, TypeOK
<1>14. ASSUME NEW l \in Logouts, Logout(l)
       PROVE  Succeeds(a, t)
  BY <1>14 DEF Logout, LogoutAccess, LogoutFamily, LogoutRefresh, reqs, Succeeds, HasPair
<1> QED
  BY <1>1, <1>4, <1>6, <1>7, <1>8, <1>9, <1>10, <1>11, <1>12, <1>13, <1>14 DEF Next, Handle

(***************************************************************************)
(* Register gives its token a successor that no token had.                 *)
(***************************************************************************)
LEMMA SuccessorRegistered ==
  ASSUME SessionInv, NEW r \in Requests, Register(r),
         NEW t \in Tokens, NEW a \in Tokens, Succeeds(a, t)'
  PROVE  Succeeds(a, t) \/ (t = token[r] /\ a = issued + 1)
<1>1. Typed /\ TypeOK /\ Held
  BY DEF SessionInv, Typed
<1> QED
  BY <1>1 DEF Register, Goto, Succeeds, HasPair, TypeOK

(***************************************************************************)
(* Strict rotation is kept: a token leaves `registered` when its request   *)
(* starts to rotate, and the next one enters when that request is done.    *)
(***************************************************************************)
LEMMA OneLiveTokenStep == SessionInv /\ [Next]_vars => OneLiveToken'
<1> SUFFICES ASSUME SessionInv, [Next]_vars
             PROVE  OneLiveToken'
  OBVIOUS
<1>a. TypeOK /\ OneLiveToken
  BY DEF SessionInv, Typed
<1>1. ASSUME NEW r \in Requests, NEW t \in Tokens, Consume(r, t)
      PROVE  OneLiveToken'
  BY <1>a, <1>1 DEF Consume, OneLiveToken, Rotates, TypeOK
<1>2. ASSUME registered' \subseteq registered, \A r \in Requests : Rotates(r)' => Rotates(r)
      PROVE  OneLiveToken'
  BY <1>a, <1>2 DEF OneLiveToken
<1>3. ASSUME NEW r \in Requests, Register(r)
      PROVE  OneLiveToken'
  <2>1. registered = {} /\ registered' = {issued + 1} /\ Rotates(r)
    BY <1>a, <1>3 DEF Register, OneLiveToken, Rotates
  <2>2. \A q \in Requests : ~Rotates(q)'
    BY <1>a, <1>3, <2>1 DEF Register, Goto, OneLiveToken, Rotates, TypeOK
  <2> QED
    BY <2>1, <2>2 DEF OneLiveToken
<1>4. ASSUME NEW r \in Requests, Handle(r) \/ Crash(r), ~Register(r)
      PROVE  registered' \subseteq registered /\ \A q \in Requests : Rotates(q)' => Rotates(q)
  BY <1>a, <1>4 DEF Handle, CheckFamily, StoreGrace, DropGrace, PollGrace, AnswerFound,
     CheckReuse, RevokeReused, Crash, Goto, Answer, Refuse, Ends, Rotates, keys, TypeOK
<1>5. ASSUME NEW t \in Tokens, GraceExpires(t)
      PROVE  OneLiveToken'
  BY <1>2, <1>5 DEF GraceExpires, reqs, Rotates
<1>6. ASSUME NEW l \in Logouts, Logout(l)
      PROVE  OneLiveToken'
  BY <1>2, <1>6 DEF Logout, LogoutAccess, LogoutRefresh, LogoutFamily, reqs, Rotates
<1>7. CASE UNCHANGED vars
  BY <1>2, <1>7 DEF vars, keys, reqs, Rotates
<1> QED
  BY <1>1, <1>2, <1>3, <1>4, <1>5, <1>6, <1>7 DEF Next

(***************************************************************************)
(* The other two parts, from what a step does to the successors.           *)
(***************************************************************************)
LEMMA IssuedStep == SessionInv /\ [Next]_vars => Issued'
<1> SUFFICES ASSUME SessionInv, [Next]_vars
             PROVE  Issued'
  OBVIOUS
<1>a. TypeOK /\ Held /\ Issued /\ Tokens \subseteq Nat
  BY TokenAssumption DEF SessionInv, Typed, Tokens
<1> DEFINE Numbers == /\ \A r \in Requests : /\ pc[r] # "idle" => token[r] <= issued
                                             /\ HasPair(r) => pair[r] <= issued
                      /\ \A t \in Tokens : grace[t] \in Tokens => grace[t] <= issued
                      /\ \A t \in Tokens : t > issued => t \notin known
<1>n. Numbers
  BY <1>a DEF Issued
<1>k. \A t \in known : t <= issued
  BY <1>a, <1>n DEF TypeOK
<1>0. ASSUME Next, ~(\E r \in Requests : Register(r)), issued' = issued,
             registered' \subseteq registered, Numbers'
      PROVE  Issued'
  <2>1. \A t \in Tokens : Fresh(t) => Fresh(t)'
    BY <1>0, SuccessorsKept DEF Fresh
  <2> QED
    BY <1>a, <1>0, <2>1 DEF Issued
<1>1. ASSUME NEW r \in Requests, NEW t \in Tokens, Consume(r, t)
      PROVE  issued' = issued /\ registered' \subseteq registered /\ Numbers'
  <2>1. t <= issued
    BY <1>k, <1>1 DEF Consume
  <2> QED
    BY <1>a, <1>n, <1>1, <2>1, TokenAssumption DEF Consume, HasPair, TypeOK
<1>2. ASSUME NEW r \in Requests, Refuse(r), UNCHANGED <<grace, issued>>
      PROVE  Numbers'
  BY <1>a, <1>n, <1>2 DEF Refuse, Ends, HasPair, TypeOK
<1>3. ASSUME NEW r \in Requests, HasPair(r), Answer(r), issued' = issued,
             grace' = grace \/ grace' = [grace EXCEPT ![token[r]] = pair[r]]
      PROVE  Numbers'
  <2>1. token[r] \in Tokens /\ pair[r] \in Tokens /\ pair[r] <= issued
    BY <1>a, <1>n, <1>3 DEF Held, HasPair
  <2>2. \A t \in Tokens : t > issued => t \notin known'
    BY <1>a, <1>n, <1>3, <2>1 DEF Answer, TypeOK
  <2>3. \A t \in Tokens : grace'[t] \in Tokens => grace'[t] <= issued
    <3>1. CASE grace' = grace
      BY <1>n, <3>1
    <3>2. CASE grace' = [grace EXCEPT ![token[r]] = pair[r]]
      BY <1>a, <1>n, <2>1, <3>2 DEF TypeOK
    <3> QED
      BY <1>3, <3>1, <3>2
  <2>4. \A q \in Requests : /\ pc'[q] # "idle" => token'[q] <= issued
                            /\ HasPair(q)' => pair'[q] <= issued
    BY <1>a, <1>n, <1>3 DEF Answer, Ends, HasPair, TypeOK
  <2> QED
    BY <1>3, <2>2, <2>3, <2>4
<1>4. ASSUME NEW r \in Requests, CheckFamily(r) \/ CheckReuse(r)
      PROVE  issued' = issued /\ registered' \subseteq registered /\ Numbers'
  <2>1. CASE Refuse(r)
    BY <1>2, <1>4, <2>1 DEF CheckFamily, CheckReuse, keys
  <2>2. CASE UNCHANGED pair /\ (Goto(r, "checked") \/ Goto(r, "reused")) /\ pc[r] # "idle"
    BY <1>a, <1>n, <1>4, <2>2 DEF CheckFamily, CheckReuse, Goto, keys, HasPair, TypeOK
  <2> QED
    BY <1>4, <2>1, <2>2 DEF CheckFamily, CheckReuse, keys
<1>5. ASSUME NEW r \in Requests, StoreGrace(r) \/ AnswerFound(r)
      PROVE  issued' = issued /\ registered' \subseteq registered /\ Numbers'
  BY <1>2, <1>3, <1>5 DEF StoreGrace, AnswerFound, HasPair, keys
<1>6. ASSUME NEW r \in Requests, DropGrace(r)
      PROVE  issued' = issued /\ registered' \subseteq registered /\ Numbers'
  BY <1>a, <1>n, <1>6, TokenAssumption DEF DropGrace, Goto, HasPair, TypeOK
<1>7. ASSUME NEW r \in Requests, PollGrace(r)
      PROVE  issued' = issued /\ registered' \subseteq registered /\ Numbers'
  <2>1. token[r] \in Tokens
    BY <1>a, <1>7 DEF PollGrace, Held
  <2> QED
    BY <1>a, <1>n, <1>7, <2>1 DEF PollGrace, Goto, keys, HasPair, TypeOK
<1>8. ASSUME NEW r \in Requests, RevokeReused(r) \/ Crash(r)
      PROVE  issued' = issued /\ registered' \subseteq registered /\ Numbers'
  BY <1>2, <1>8 DEF RevokeReused, Crash, keys
<1>9. ASSUME NEW t \in Tokens, GraceExpires(t)
      PROVE  issued' = issued /\ registered' \subseteq registered /\ Numbers'
  BY <1>a, <1>n, <1>9, TokenAssumption DEF GraceExpires, reqs, HasPair, TypeOK
<1>10. ASSUME NEW l \in Logouts, Logout(l)
       PROVE  issued' = issued /\ registered' \subseteq registered /\ Numbers'
  BY <1>n, <1>10 DEF Logout, LogoutAccess, LogoutRefresh, LogoutFamily, reqs, HasPair
<1>11. ASSUME NEW r \in Requests, Register(r)
       PROVE  Issued'
  <2>1. issued + 1 \in Tokens /\ issued \in Nat
    BY <1>a, <1>11, TokenAssumption DEF Register, TypeOK, Tokens
  <2>2. \A t \in Tokens : t > issued + 1 => Fresh(t)'
    <3> SUFFICES ASSUME NEW t \in Tokens, t > issued + 1, NEW a \in Tokens, Succeeds(a, t)'
                 PROVE  FALSE
      BY DEF Fresh
    <3>1. token[r] <= issued
      BY <1>n, <1>11 DEF Register
    <3>2. Succeeds(a, t)
      BY <1>a, <1>11, <2>1, <3>1, SuccessorRegistered
    <3> QED
      BY <1>a, <2>1, <3>2 DEF Issued, Fresh
  <2>3. \A q \in Requests : /\ pc'[q] # "idle" => token'[q] <= issued + 1
                            /\ HasPair(q)' => pair'[q] <= issued + 1
    <3>1. \A q \in Requests : pc[q] # "idle" => token[q] \in Nat
      BY <1>a DEF Held
    <3>2. \A q \in Requests : HasPair(q) => pair[q] \in Nat
      BY <1>a DEF Held
    <3> QED
      BY <1>a, <1>n, <1>11, <2>1, <3>1, <3>2 DEF Register, Goto, HasPair, TypeOK
  <2>4. \A t \in Tokens : grace'[t] \in Tokens => grace'[t] <= issued + 1
    <3>1. ASSUME NEW t \in Tokens, grace[t] \in Tokens
          PROVE  grace[t] <= issued + 1
      <4>1. grace[t] <= issued /\ grace[t] \in Nat
        BY <1>a, <1>n, <3>1
      <4> QED
        BY <2>1, <4>1
    <3>2. grace' = grace
      BY <1>11 DEF Register
    <3> QED
      BY <3>1, <3>2
  <2>5. \A t \in Tokens : t > issued + 1 => t \notin registered' /\ t \notin known'
    BY <1>a, <1>11, <2>1 DEF Register, Goto, Issued
  <2>6. issued' = issued + 1
    BY <1>11 DEF Register
  <2> QED
    BY <2>2, <2>3, <2>4, <2>5, <2>6 DEF Issued
<1>12. CASE UNCHANGED vars
  BY <1>a, <1>12 DEF vars, keys, reqs, Issued, HasPair, Fresh, Succeeds
<1>13. ASSUME Next, ~(\E r \in Requests : Register(r))
       PROVE  issued' = issued /\ registered' \subseteq registered /\ Numbers'
  BY <1>1, <1>4, <1>5, <1>6, <1>7, <1>8, <1>9, <1>10, <1>13 DEF Next, Handle
<1> QED
  BY <1>0, <1>11, <1>12, <1>13

\* no step gives a token a second successor
LEMMA LineageStep == SessionInv /\ [Next]_vars => Lineage'
<1> SUFFICES ASSUME SessionInv, [Next]_vars
             PROVE  Lineage'
  OBVIOUS
<1>a. TypeOK /\ Held /\ OneLiveToken /\ Issued /\ Lineage /\ Tokens \subseteq Nat
  BY TokenAssumption DEF SessionInv, Typed, Tokens
<1>0. ASSUME Next, ~(\E r \in Requests : Register(r)),
             registered' \subseteq registered,
             \A r \in Requests : Rotates(r)' => Fresh(token'[r])
      PROVE  Lineage'
  <2>1. \A t \in Tokens : Fresh(t) => Fresh(t)'
    BY <1>0, SuccessorsKept DEF Fresh
  <2>2. \A r \in Requests : Rotates(r)' => token'[r] \in Tokens
    <3>1. Typed'
      BY TypedStep DEF SessionInv
    <3> QED
      BY <3>1 DEF Typed, Held, Rotates
  <2>3. \A r \in Requests : Rotates(r)' => Fresh(token[r])'
    BY <1>0, <2>1, <2>2 DEF Fresh
  <2>4. \A t \in Tokens : \A a, b \in Tokens : Succeeds(a, t)' /\ Succeeds(b, t)' => a = b
    BY <1>0, <1>a, SuccessorsKept DEF Lineage
  <2> QED
    BY <1>0, <1>a, <2>1, <2>3, <2>4 DEF Lineage, TypeOK
<1>1. ASSUME NEW r \in Requests, NEW t \in Tokens, Consume(r, t)
      PROVE  registered' \subseteq registered /\ \A q \in Requests : Rotates(q)' => Fresh(token'[q])
  BY <1>a, <1>1 DEF Consume, Rotates, Lineage, TypeOK
<1>2. ASSUME NEW r \in Requests, Handle(r) \/ Crash(r), ~Register(r)
      PROVE  /\ registered' \subseteq registered
             /\ \A q \in Requests : Rotates(q)' => Rotates(q) /\ token'[q] = token[q]
  BY <1>a, <1>2 DEF Handle, CheckFamily, StoreGrace, DropGrace, PollGrace, AnswerFound,
     CheckReuse, RevokeReused, Crash, Goto, Answer, Refuse, Ends, Rotates, keys, TypeOK
<1>3. ASSUME NEW t \in Tokens, GraceExpires(t)
      PROVE  registered' \subseteq registered /\ \A q \in Requests : Rotates(q)' => Fresh(token'[q])
  BY <1>a, <1>3 DEF GraceExpires, reqs, Rotates, Lineage
<1>4. ASSUME NEW l \in Logouts, Logout(l)
      PROVE  registered' \subseteq registered /\ \A q \in Requests : Rotates(q)' => Fresh(token'[q])
  BY <1>a, <1>4 DEF Logout, LogoutAccess, LogoutRefresh, LogoutFamily, reqs, Rotates, Lineage
<1>5. ASSUME NEW r \in Requests, Register(r)
      PROVE  Lineage'
  <2>1. issued + 1 \in Tokens /\ Fresh(issued + 1) /\ Fresh(token[r]) /\ token[r] # issued + 1
    <3>1. issued + 1 \in Tokens /\ issued + 1 > issued /\ issued \in Nat
      BY <1>a, <1>5, TokenAssumption DEF Register, TypeOK, Tokens
    <3>2. token[r] <= issued /\ token[r] \in Nat
      BY <1>a, <1>5 DEF Register, Issued, Held
    <3> QED
      BY <1>a, <1>5, <3>1, <3>2 DEF Issued, Lineage, Register, Rotates
  <2>2. registered' = {issued + 1} /\ \A q \in Requests : ~Rotates(q)'
    <3>1. registered = {} /\ registered' = {issued + 1} /\ Rotates(r)
      BY <1>a, <1>5 DEF Register, OneLiveToken, Rotates
    <3> QED
      BY <1>a, <1>5, <3>1 DEF Register, Goto, OneLiveToken, Rotates, TypeOK
  <2>3. \A t \in Tokens : \A a, b \in Tokens : Succeeds(a, t)' /\ Succeeds(b, t)' => a = b
    BY <1>a, <1>5, <2>1, SuccessorRegistered DEF Lineage, Fresh
  <2>4. \A t \in registered' : Fresh(t)'
    <3> SUFFICES ASSUME NEW t \in Tokens, t = issued + 1, NEW a \in Tokens, Succeeds(a, t)'
                 PROVE  FALSE
      BY <2>1, <2>2 DEF Fresh
    <3>1. Succeeds(a, t) \/ t = token[r]
      BY <1>5, SuccessorRegistered
    <3> QED
      BY <2>1, <3>1 DEF Fresh
  <2> QED
    BY <2>2, <2>3, <2>4 DEF Lineage
<1>6. CASE UNCHANGED vars
  BY <1>a, <1>6 DEF vars, keys, reqs, Lineage, HasPair, Fresh, Succeeds, Rotates
<1>7. ASSUME Next, ~(\E r \in Requests : Register(r))
      PROVE  registered' \subseteq registered /\ \A q \in Requests : Rotates(q)' => Fresh(token'[q])
  BY <1>1, <1>2, <1>3, <1>4, <1>7, <1>a DEF Next, Lineage
<1> QED
  BY <1>0, <1>5, <1>6, <1>7, <1>a DEF Handle

\* every step keeps SessionInv, part by part
LEMMA SessionInvStep == SessionInv /\ [Next]_vars => SessionInv'
BY TypedStep, OneLiveTokenStep, IssuedStep, LineageStep DEF SessionInv

\* SessionInv holds of every behaviour of the session: the tokens form one line,
\* each with at most one successor (the basis of the theorems that follow).
THEOREM SessionInvariant == Spec => []SessionInv
BY SessionInvInit, SessionInvStep, PTL DEF Spec

(***************************************************************************)
(* At most one token of the session can be rotated, and none while a       *)
(* request rotates, whatever clients present at the same time.             *)
(***************************************************************************)
THEOREM OneLiveTokenHolds == Spec => []OneLiveToken
<1>1. SessionInv => OneLiveToken
  BY DEF SessionInv
<1> QED
  BY <1>1, SessionInvariant, PTL

(***************************************************************************)
(* All who present one token and get a pair get the same pair.             *)
(***************************************************************************)
THEOREM OneSuccessorHolds == Spec => []OneSuccessor
<1>1. SessionInv => OneSuccessor
  BY DEF SessionInv, Typed, TypeOK, Lineage, Succeeds, OneSuccessor
<1> QED
  BY <1>1, SessionInvariant, PTL

(***************************************************************************)
(* A refusal is given only in a step after which the session is over.      *)
(***************************************************************************)
THEOREM RefusedMeansOverHolds == Spec => RefusedMeansOver
<1>1. SessionInv /\ [Next]_vars =>
        [\A r \in Requests :
           pc[r] \in {"consumed", "unknown", "reused"} /\ pc'[r] = "idle" /\ crashes' = crashes
             => ~family']_vars
  <2> SUFFICES ASSUME SessionInv, Next, NEW r \in Requests,
                      pc[r] \in {"consumed", "unknown", "reused"}, pc'[r] = "idle", crashes' = crashes
               PROVE  ~family'
    OBVIOUS
  <2>a. TypeOK
    BY DEF SessionInv, Typed
  <2>1. ASSUME NEW q \in Requests, Handle(q)
        PROVE  ~family'
    BY <2>a, <2>1 DEF Handle, CheckFamily, Register, StoreGrace, DropGrace, PollGrace,
       AnswerFound, CheckReuse, RevokeReused, Goto, Answer, Refuse, Ends, keys, TypeOK
  <2>2. ASSUME NEW q \in Requests, Crash(q)
        PROVE  FALSE
    BY <2>a, <2>2, TokenAssumption DEF Crash, TypeOK
  <2>3. ASSUME NEW q \in Requests, NEW t \in Tokens, Consume(q, t)
        PROVE  FALSE
    BY <2>a, <2>3 DEF Consume, TypeOK
  <2>4. ASSUME NEW t \in Tokens, GraceExpires(t)
        PROVE  FALSE
    BY <2>4 DEF GraceExpires, reqs
  <2>5. ASSUME NEW l \in Logouts, Logout(l)
        PROVE  FALSE
    BY <2>5 DEF Logout, LogoutAccess, LogoutRefresh, LogoutFamily, reqs
  <2> QED
    BY <2>1, <2>2, <2>3, <2>4, <2>5 DEF Next
<1> QED
  BY <1>1, SessionInvariant, PTL DEF Spec, RefusedMeansOver

(***************************************************************************)
(* A session that is over, with no request between its look at the family  *)
(* and its registration, is over for good.                                 *)
(***************************************************************************)
THEOREM OverStaysOverHolds == Spec => OverStaysOver
<1>1. SessionInv /\ Over /\ [Next]_vars => Over'
  <2> SUFFICES ASSUME SessionInv, Over, [Next]_vars
               PROVE  Over'
    OBVIOUS
  <2>a. TypeOK
    BY DEF SessionInv, Typed
  <2>1. ASSUME NEW r \in Requests, Handle(r) \/ Crash(r)
        PROVE  Over'
    BY <2>a, <2>1 DEF Handle, CheckFamily, Register, StoreGrace, DropGrace, PollGrace, AnswerFound,
       CheckReuse, RevokeReused, Crash, Goto, Answer, Refuse, Ends, keys, TypeOK, Over
  <2>2. ASSUME NEW r \in Requests, NEW t \in Tokens, Consume(r, t)
        PROVE  Over'
    BY <2>a, <2>2 DEF Consume, TypeOK, Over
  <2>3. ASSUME NEW t \in Tokens, GraceExpires(t)
        PROVE  Over'
    BY <2>3 DEF GraceExpires, reqs, Over
  <2>4. ASSUME NEW l \in Logouts, Logout(l)
        PROVE  Over'
    BY <2>4 DEF Logout, LogoutAccess, LogoutRefresh, LogoutFamily, reqs, Over
  <2>5. CASE UNCHANGED vars
    BY <2>5 DEF vars, keys, reqs, Over
  <2> QED
    BY <2>1, <2>2, <2>3, <2>4, <2>5 DEF Next
<1>2. Over => ~family
  BY DEF Over
<1> QED
  BY <1>1, <1>2, SessionInvariant, PTL DEF Spec, OverStaysOver
=============================================================================

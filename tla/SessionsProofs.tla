--------------------------- MODULE SessionsProofs ---------------------------
(***************************************************************************)
(* Proofs about Sessions, for any number of sessions, tabs and concurrent  *)
(* requests: the type invariant, and that a refresh token is exchanged     *)
(* once.                                                                   *)
(***************************************************************************)
EXTENDS Sessions, TLAPS

-----------------------------------------------------------------------------
(* Types.  A request has what its next step reads.                         *)

RequestShape(r) ==
    /\ r.pc = "arrived" /\ r.kind \in {"use", "logout"} => r.sess \in Rows
    /\ r.pc = "lock" => r.kind = "refresh" /\ r.token \in Tokens
    /\ r.pc = "rotate" => r.kind = "refresh" /\ r.token \in Tokens /\ r.sess \in Rows
    /\ r.pc = "revoke" => r.kind = "logout" /\ r.sess \in Rows
    /\ r.pc = "reply" /\ r.kind = "logout" /\ r.answer # "error" => r.sess \in Rows
    /\ r.pc = "reply" /\ Sets(r) => r.sess \in Rows /\ r.gives \in Tokens

Typed(r) == r \in RequestState /\ RequestShape(r)

TypeInv == TypeOK /\ \A h \in Requests : RequestShape(request[h])

(* A request that is not in progress is well typed. *)
LEMMA IdleTyped == Typed(IdleRequest)
BY DEF Typed, RequestShape, RequestState, IdleRequest, Sets

(* So is a new request of any tab, but a page without an access token. *)
LEMMA NewTyped ==
  ASSUME TypeInv, NEW t \in Tabs, NEW kind \in {"refresh", "login", "logout", "use"},
         kind \in {"use", "logout"} => tab[t].page = "in"
  PROVE  Typed(NewRequest(kind, t))
<1>1. tab[t] \in TabState /\ cookie \in Tokens \cup {Null}
  BY DEF TypeInv, TypeOK
<1>2. kind \in {"use", "logout"} => tab[t].access \in Rows
  BY <1>1 DEF TypeInv, TypeOK, TabState
<1>3. QED
  BY <1>1, <1>2 DEF Typed, RequestShape, RequestState, NewRequest, Sets

(* One request replaced by a well typed one. *)
LEMMA ReplaceTyped ==
  ASSUME TypeInv, NEW h \in Requests, NEW r, Typed(r), request' = [request EXCEPT ![h] = r]
  PROVE  /\ request' \in [Requests -> RequestState]
         /\ \A g \in Requests : RequestShape(request'[g])
BY DEF TypeInv, TypeOK, Typed

(* A request that is answered with what its kind needs stays well typed. *)
LEMMA AnswerTyped ==
  ASSUME TypeInv, NEW h \in Requests, NEW answer \in {"ok", "refused"},
         NEW s \in Rows \cup {Null}, NEW n \in Tokens \cup {Null},
         request[h].kind = "logout" => s \in Rows,
         answer = "ok" /\ request[h].kind \in {"login", "refresh"} => s \in Rows /\ n \in Tokens,
         Answer(h, answer, s, n)
  PROVE  /\ request' \in [Requests -> RequestState]
         /\ \A g \in Requests : RequestShape(request'[g])
<1> DEFINE r == [request[h] EXCEPT !.pc = "reply", !.answer = answer, !.sess = s,
                                   !.gives = n, !.late = FALSE]
<1>0. request[h] \in RequestState
  BY DEF TypeInv, TypeOK
<1>1. Typed(r)
  <2>1. r \in RequestState
    BY <1>0 DEF RequestState
  <2>2. /\ r.pc = "reply" /\ r.answer = answer /\ r.sess = s /\ r.gives = n
        /\ r.kind = request[h].kind
    BY <1>0 DEF RequestState
  <2> HIDE DEF r
  <2>3. RequestShape(r)
    BY <2>2 DEF RequestShape, Sets
  <2>4. QED
    BY <2>1, <2>3 DEF Typed
<1>2. \/ request' = [request EXCEPT ![h] = r]
      \/ request' = [request EXCEPT ![h] = IdleRequest]
  BY <1>0 DEF TypeInv, TypeOK, Answer
<1> HIDE DEF r
<1>3. QED
  BY <1>1, <1>2, IdleTyped, ReplaceTyped

(* An answer that does not come leaves nothing to be badly typed. *)
LEMMA BreakTyped ==
  ASSUME TypeInv, NEW h \in Requests, Break(h)
  PROVE  /\ request' \in [Requests -> RequestState]
         /\ \A g \in Requests : RequestShape(request'[g])
<1> DEFINE r == [request[h] EXCEPT !.pc = "reply", !.answer = "error", !.token = Null,
                                   !.sess = Null, !.gives = Null, !.late = FALSE]
<1>0. request[h] \in RequestState
  BY DEF TypeInv, TypeOK
<1>1. Typed(r)
  BY <1>0 DEF Typed, RequestShape, RequestState, Sets
<1>2. \/ request' = [request EXCEPT ![h] = r]
      \/ request' = [request EXCEPT ![h] = IdleRequest]
  BY <1>0 DEF TypeInv, TypeOK, Break
<1> HIDE DEF r
<1>3. QED
  BY <1>1, <1>2, IdleTyped, ReplaceTyped

(* The type invariant is kept by what a tab does. *)
LEMMA ActTypes ==
  ASSUME TypeInv, NEW t \in Tabs, NEW h \in Requests, Act(t, h)
  PROVE  TypeInv'
<1>1. CASE Open(t, h)
  <2>1. Typed(NewRequest("refresh", t))
    BY NewTyped
  <2>2. \A g \in Requests : Typed([request[g] EXCEPT !.tab = Null])
    BY DEF TypeInv, TypeOK, Typed, RequestShape, RequestState, Sets
  <2>3. \A g \in Requests : Typed(request'[g])
    BY <1>1, <2>1, <2>2 DEF Open, TypeInv, TypeOK, Typed
  <2>4. request' \in [Requests -> RequestState]
    BY <1>1, <2>3 DEF Open, Typed
  <2>5. tab' \in [Tabs -> TabState] /\ \A u \in Tabs : tab'[u].page = "in" <=> tab'[u].access # Null
    BY <1>1 DEF Open, TypeInv, TypeOK, TabState
  <2>6. calm' \in BOOLEAN
    BY <1>1 DEF Open, Alone, TypeInv, TypeOK
  <2>7. QED
    BY <1>1, <2>3, <2>4, <2>5, <2>6 DEF Open, TypeInv, TypeOK, Typed, db
<1>2. CASE LogIn(t, h)
  <2>1. Typed(NewRequest("login", t))
    BY NewTyped
  <2>2. /\ request' \in [Requests -> RequestState]
        /\ \A g \in Requests : RequestShape(request'[g])
    BY <1>2, <2>1, ReplaceTyped DEF LogIn, Send
  <2>3. QED
    BY <1>2, <2>2 DEF LogIn, Alone, TypeInv, TypeOK, db, browser
<1>3. CASE Use(t, h)
  <2>1. Typed(NewRequest("use", t))
    BY <1>3, NewTyped DEF Use
  <2>2. /\ request' \in [Requests -> RequestState]
        /\ \A g \in Requests : RequestShape(request'[g])
    BY <1>3, <2>1, ReplaceTyped DEF Use, Send
  <2>3. QED
    BY <1>3, <2>2 DEF Use, TypeInv, TypeOK, db, browser
<1>4. CASE SignOut(t, h)
  <2>1. Typed(NewRequest("logout", t))
    BY <1>4, NewTyped DEF SignOut
  <2>2. /\ request' \in [Requests -> RequestState]
        /\ \A g \in Requests : RequestShape(request'[g])
    BY <1>4, <2>1, ReplaceTyped DEF SignOut, Send
  <2>3. QED
    BY <1>4, <2>2 DEF SignOut, Alone, TypeInv, TypeOK, db, browser
<1>5. QED
  BY <1>1, <1>2, <1>3, <1>4 DEF Act

(* The type invariant is kept by every step of a request. *)
LEMMA ServeTypes ==
  ASSUME TypeInv, NEW h \in Requests, Serve(h) \/ Fault(h)
  PROVE  TypeInv'
<1>0. request[h] \in RequestState /\ RequestShape(request[h])
  BY DEF TypeInv, TypeOK
<1>1. CASE Admit(h)
  <2>1. CASE request[h].kind = "use"
    <3>1. Answer(h, "ok", request[h].sess, Null) /\ request[h].sess \in Rows
      BY <1>0, <1>1, <2>1 DEF Admit, WithAccess, RequestShape
    <3>2. /\ request' \in [Requests -> RequestState]
          /\ \A g \in Requests : RequestShape(request'[g])
      BY <2>1, <3>1, AnswerTyped
    <3>3. QED
      BY <1>1, <3>2 DEF Admit, TypeInv, TypeOK, db, browser
  <2>2. CASE request[h].kind # "use"
    <3>1. Typed([request[h] EXCEPT !.pc = "revoke"])
      BY <1>0, <1>1, <2>2 DEF Admit, WithAccess, Typed, RequestShape, RequestState
    <3>2. request' = [request EXCEPT ![h] = [request[h] EXCEPT !.pc = "revoke"]]
      BY <1>1, <2>2 DEF Admit, Goto, TypeInv, TypeOK
    <3>3. /\ request' \in [Requests -> RequestState]
          /\ \A g \in Requests : RequestShape(request'[g])
      BY <3>1, <3>2, ReplaceTyped
    <3>4. QED
      BY <1>1, <3>3 DEF Admit, TypeInv, TypeOK, db, browser
  <2>3. QED
    BY <2>1, <2>2
<1>2. ASSUME request[h].kind = "logout" => request[h].sess \in Rows, Refuse(h),
             UNCHANGED <<db, browser, calm>>
      PROVE  TypeInv'
  <2>1. /\ request' \in [Requests -> RequestState]
        /\ \A g \in Requests : RequestShape(request'[g])
    <3>1. request[h].sess \in Rows \cup {Null}
      BY <1>0 DEF RequestState
    <3>2. QED
      BY <1>2, <3>1, AnswerTyped DEF Refuse
  <2>2. QED
    BY <1>2, <2>1 DEF TypeInv, TypeOK, db, browser
<1>3. CASE RefuseAccess(h) \/ RefuseRefresh(h) \/ WrongPassword(h)
  BY <1>0, <1>2, <1>3 DEF RefuseAccess, WithAccess, RefuseRefresh, WrongPassword, RequestShape
<1>4. CASE Revoke(h)
  <2>1. request[h].kind = "logout" /\ request[h].sess \in Rows
    BY <1>0, <1>4 DEF Revoke, RequestShape
  <2>2. /\ request' \in [Requests -> RequestState]
        /\ \A g \in Requests : RequestShape(request'[g])
    BY <1>4, <2>1, AnswerTyped DEF Revoke
  <2>3. revoked' \subseteq Rows
    BY <1>4, <2>1 DEF Revoke, TypeInv, TypeOK
  <2>4. QED
    BY <1>4, <2>2, <2>3 DEF Revoke, TypeInv, TypeOK, browser
<1>5. CASE Begin(h)
  <2>1. CASE request[h].token = Null
    BY <1>2, <1>5, <2>1 DEF Begin
  <2>2. CASE request[h].token # Null
    <3> DEFINE late == \E s \in expired : hash[s] = request[h].token
               r == [request[h] EXCEPT !.pc = "lock", !.late = late]
    <3>1. late \in BOOLEAN
      OBVIOUS
    <3> HIDE DEF late
    <3>2. Typed(r)
      BY <1>0, <1>5, <2>2, <3>1 DEF Begin, Typed, RequestShape, RequestState
    <3>3. request' = [request EXCEPT ![h] = r]
      BY <1>5, <2>2 DEF Begin, TypeInv, TypeOK, late
    <3> HIDE DEF r
    <3>4. /\ request' \in [Requests -> RequestState]
          /\ \A g \in Requests : RequestShape(request'[g])
      BY <3>2, <3>3, ReplaceTyped
    <3>5. QED
      BY <1>5, <3>4 DEF Begin, TypeInv, TypeOK, db, browser
  <2>3. QED
    BY <2>1, <2>2
<1>6. ASSUME NEW s \in Rows, Lock(h, s)
      PROVE  TypeInv'
  <2> DEFINE r == [request[h] EXCEPT !.pc = "rotate", !.sess = s]
  <2>1. Typed(r)
    BY <1>0, <1>6 DEF Lock, Typed, RequestShape, RequestState
  <2>2. request' = [request EXCEPT ![h] = r]
    BY <1>6 DEF Lock, TypeInv, TypeOK
  <2> HIDE DEF r
  <2>3. /\ request' \in [Requests -> RequestState]
        /\ \A g \in Requests : RequestShape(request'[g])
    BY <2>1, <2>2, ReplaceTyped
  <2>4. QED
    BY <1>6, <2>3 DEF Lock, TypeInv, TypeOK, db, browser
<1>7. ASSUME NEW n \in Tokens, Rotate(h, n)
      PROVE  TypeInv'
  <2>1. /\ request[h].kind = "refresh" /\ request[h].sess \in Rows
        /\ request[h].token \in Tokens
    BY <1>0, <1>7 DEF Rotate, RequestShape
  <2>2. /\ request' \in [Requests -> RequestState]
        /\ \A g \in Requests : RequestShape(request'[g])
    BY <1>7, <2>1, AnswerTyped DEF Rotate
  <2>3. hash' \in [Rows -> Tokens \cup {Null}] /\ spent' \subseteq Tokens
    BY <1>7, <2>1 DEF Rotate, TypeInv, TypeOK
  <2>4. QED
    BY <1>7, <2>2, <2>3 DEF Rotate, TypeInv, TypeOK, browser
<1>8. ASSUME NEW s \in Rows, NEW n \in Tokens, CreateSession(h, s, n)
      PROVE  TypeInv'
  <2>1. request[h].kind = "login"
    BY <1>8 DEF CreateSession
  <2>2. /\ request' \in [Requests -> RequestState]
        /\ \A g \in Requests : RequestShape(request'[g])
    BY <1>8, <2>1, AnswerTyped DEF CreateSession
  <2>3. hash' \in [Rows -> Tokens \cup {Null}] /\ spent' \subseteq Tokens
    BY <1>8 DEF CreateSession, TypeInv, TypeOK
  <2>4. QED
    BY <1>8, <2>2, <2>3 DEF CreateSession, TypeInv, TypeOK, browser
<1>9. CASE Deliver(h)
  <2> DEFINE r == request[h]
             x == tab[r.tab]
  <2>1. /\ request' \in [Requests -> RequestState]
        /\ \A g \in Requests : RequestShape(request'[g])
    BY <1>9, IdleTyped, ReplaceTyped DEF Deliver
  <2>2. r.tab \in Tabs /\ x \in TabState
    BY <1>0, <1>9 DEF Deliver, RequestState, TypeInv, TypeOK
  <2>3. Sets(r) => r.sess \in Rows /\ r.gives \in Tokens
    BY <1>0, <1>9 DEF Deliver, RequestShape
  <2>4. x.page = "in" <=> x.access # Null
    BY <2>2 DEF TypeInv, TypeOK
  <2>5. /\ TabAfter(x, r) \in TabState
        /\ TabAfter(x, r).page = "in" <=> TabAfter(x, r).access # Null
    <3>1. CASE Sets(r)
      <4>1. TabAfter(x, r) = [page |-> "in", access |-> r.sess]
        BY <3>1 DEF TabAfter, Sets
      <4>2. QED
        BY <2>3, <3>1, <4>1, NullAssumption DEF TabState
    <3>2. CASE ~Sets(r)
      <4>1. TabAfter(x, r) \in {Out(x), x}
        BY <3>2 DEF TabAfter
      <4>2. QED
        BY <2>2, <2>4, <4>1 DEF Out, TabState
    <3>3. QED
      BY <3>1, <3>2
  <2>6. /\ tab' \in [Tabs -> TabState]
        /\ \A t \in Tabs : tab'[t].page = "in" <=> tab'[t].access # Null
    BY <1>9, <2>2, <2>5 DEF Deliver, TypeInv, TypeOK
  <2>7. cookie' \in Tokens \cup {Null}
    BY <1>9, <2>3 DEF Deliver, CookieAfter, TypeInv, TypeOK
  <2>8. left' \subseteq Rows
    BY <1>0, <1>9 DEF Deliver, RequestShape, TypeInv, TypeOK
  <2>9. QED
    BY <1>9, <2>1, <2>6, <2>7, <2>8 DEF Deliver, TypeInv, TypeOK, db
<1>10. CASE Retry(h)
  <2>1. request[h].tab \in Tabs
    BY <1>0, <1>10 DEF Retry, RequestState
  <2>2. Typed(NewRequest("refresh", request[h].tab))
    BY <2>1, NewTyped
  <2>3. /\ request' \in [Requests -> RequestState]
        /\ \A g \in Requests : RequestShape(request'[g])
    BY <1>10, <2>2, ReplaceTyped DEF Retry
  <2>4. QED
    BY <1>10, <2>3 DEF Retry, Alone, TypeInv, TypeOK, db, browser
<1>11. CASE Drop(h)
  <2>1. /\ request' \in [Requests -> RequestState]
        /\ \A g \in Requests : RequestShape(request'[g])
    BY <1>11, IdleTyped, ReplaceTyped DEF Drop
  <2>2. cookie' \in Tokens \cup {Null}
    BY <1>0, <1>11 DEF Drop, CookieAfter, RequestShape, TypeInv, TypeOK
  <2>3. QED
    BY <1>11, <2>1, <2>2 DEF Drop, TypeInv, TypeOK, db
<1>12. CASE Fail(h)
  <2>1. /\ request' \in [Requests -> RequestState]
        /\ \A g \in Requests : RequestShape(request'[g])
    BY <1>12, BreakTyped DEF Fail
  <2>2. QED
    BY <1>12, <2>1 DEF Fail, TypeInv, TypeOK, db, browser
<1>13. CASE Lose(h)
  <2>1. /\ request' \in [Requests -> RequestState]
        /\ \A g \in Requests : RequestShape(request'[g])
    BY <1>13, BreakTyped DEF Lose
  <2>2. QED
    BY <1>13, <2>1 DEF Lose, ForCookie, TypeInv, TypeOK, db, browser
<1>14. QED
  BY <1>1, <1>3, <1>4, <1>5, <1>6, <1>7, <1>8, <1>9, <1>10, <1>11, <1>12, <1>13
     DEF Serve, Fault

(* So do the days that pass and the deletion of old rows. *)
LEMMA TimeTypes ==
  ASSUME TypeInv, NEW s \in Rows, Expire(s) \/ Purge(s)
  PROVE  TypeInv'
BY DEF TypeInv, TypeOK, Expire, Purge, RequestShape, db, browser

(* The types hold in every state, whatever the steps (all of Next). *)
THEOREM TypeCorrect == Spec => []TypeOK
<1>1. Init => TypeInv
  BY IdleTyped DEF Init, TypeInv, TypeOK, TabState, Typed
<1>2. TypeInv /\ [Next]_vars => TypeInv'
  <2>1. CASE UNCHANGED vars
    BY <2>1 DEF vars, TypeInv, TypeOK
  <2>2. TypeInv /\ Next => TypeInv'
    BY ActTypes, ServeTypes, TimeTypes DEF Next
  <2>3. QED
    BY <2>1, <2>2
<1>3. TypeInv => TypeOK
  BY DEF TypeInv
<1>4. QED
  BY <1>1, <1>2, <1>3, PTL DEF Spec

-----------------------------------------------------------------------------
(* One exchange per token.  One request at a time holds rows, no row has a *)
(* spent token, and no two rows have the same one.                         *)

OneAtATime ==
    \A g, h \in Requests : request[g].pc = "rotate" /\ request[h].pc = "rotate" => g = h

HashUnspent == \A s \in Rows : hash[s] \notin spent

HashUnique == \A s, u \in Rows : hash[s] = hash[u] /\ hash[s] # Null => s = u

ExchangeInv == TypeInv /\ OneAtATime /\ HashUnspent /\ HashUnique /\ UsedOnce

(* A step that locks no row and leaves the rows alone. *)
LEMMA NoLock ==
  ASSUME ExchangeInv, TypeInv', UNCHANGED <<hash, revoked, spent>>,
         \A g \in Requests : request'[g].pc = "rotate" =>
             /\ request[g].pc = "rotate"
             /\ request'[g].sess = request[g].sess /\ request'[g].token = request[g].token
  PROVE  ExchangeInv'
BY DEF ExchangeInv, OneAtATime, HashUnspent, HashUnique, UsedOnce

(* An answered request holds no row, and the others are as they were. *)
LEMMA Answered ==
  ASSUME TypeInv, NEW h \in Requests, NEW answer, NEW s, NEW n,
         Answer(h, answer, s, n) \/ Break(h)
  PROVE  /\ request'[h].pc # "rotate"
         /\ \A g \in Requests \ {h} : request'[g] = request[g]
<1>1. request[h] \in RequestState
  BY DEF TypeInv, TypeOK
<1>2. CASE Answer(h, answer, s, n)
  <2> DEFINE r == [request[h] EXCEPT !.pc = "reply", !.answer = answer, !.sess = s,
                                     !.gives = n, !.late = FALSE]
  <2>1. r.pc = "reply"
    BY <1>1 DEF RequestState
  <2>2. request'[h] \in {r, IdleRequest}
    BY <1>2 DEF Answer, TypeInv, TypeOK
  <2> HIDE DEF r
  <2>3. QED
    BY <1>2, <2>1, <2>2 DEF Answer, IdleRequest, TypeInv, TypeOK
<1>3. CASE Break(h)
  <2> DEFINE r == [request[h] EXCEPT !.pc = "reply", !.answer = "error", !.token = Null,
                                     !.sess = Null, !.gives = Null, !.late = FALSE]
  <2>1. r.pc = "reply"
    BY <1>1 DEF RequestState
  <2>2. request'[h] \in {r, IdleRequest}
    BY <1>3 DEF Break, TypeInv, TypeOK
  <2> HIDE DEF r
  <2>3. QED
    BY <1>3, <2>1, <2>2 DEF Break, IdleRequest, TypeInv, TypeOK
<1>4. QED
  BY <1>2, <1>3

(* Of the requests, only a lock, an exchange and a sign-out matter. *)
LEMMA ServeExchange ==
  ASSUME ExchangeInv, TypeInv', NEW h \in Requests, Serve(h) \/ Fault(h)
  PROVE  ExchangeInv'
<1> USE DEF ExchangeInv
<1>0. request[h] \in RequestState /\ RequestShape(request[h])
  BY DEF TypeInv, TypeOK
<1>1. CASE Admit(h) \/ RefuseAccess(h) \/ RefuseRefresh(h) \/ WrongPassword(h)
           \/ Fail(h) \/ Lose(h)
  <2>1. UNCHANGED <<hash, revoked, spent>>
    BY <1>1 DEF Admit, RefuseAccess, RefuseRefresh, WrongPassword, Fail, Lose, db
  <2>2. CASE Goto(h, "revoke")
    BY <2>1, <2>2, NoLock DEF Goto, TypeInv, TypeOK, RequestState
  <2>3. CASE Break(h) \/ \E a \in {"ok", "refused"} : Answer(h, a, request[h].sess, Null)
    BY <2>1, <2>3, Answered, NoLock
  <2>4. QED
    BY <1>1, <2>2, <2>3
       DEF Admit, RefuseAccess, RefuseRefresh, WrongPassword, Fail, Lose, Refuse
<1>2. CASE Deliver(h) \/ Drop(h)
  <2>1. request' = [request EXCEPT ![h] = IdleRequest] /\ UNCHANGED <<hash, revoked, spent>>
    BY <1>2 DEF Deliver, Drop, db
  <2>2. QED
    BY <2>1, NoLock DEF IdleRequest, TypeInv, TypeOK
<1>3. CASE Retry(h)
  <2>1. /\ request' = [request EXCEPT ![h] = NewRequest("refresh", request[h].tab)]
        /\ UNCHANGED <<hash, revoked, spent>>
    BY <1>3 DEF Retry, db
  <2>2. QED
    BY <2>1, NoLock DEF NewRequest, TypeInv, TypeOK
<1>4. CASE Begin(h)
  <2>1. UNCHANGED <<hash, revoked, spent>>
    BY <1>4 DEF Begin, db
  <2>2. CASE Refuse(h)
    BY <2>1, <2>2, Answered, NoLock DEF Refuse
  <2>3. CASE request' = [request EXCEPT ![h].pc = "lock",
                            ![h].late = \E s \in expired : hash[s] = request[h].token]
    <3> DEFINE r == [request[h] EXCEPT !.pc = "lock",
                               !.late = \E s \in expired : hash[s] = request[h].token]
    <3>1. r.pc = "lock"
      BY <1>0 DEF RequestState
    <3>2. request' = [request EXCEPT ![h] = r]
      BY <2>3 DEF TypeInv, TypeOK
    <3> HIDE DEF r
    <3>3. QED
      BY <2>1, <3>1, <3>2, NoLock DEF TypeInv, TypeOK
  <2>4. QED
    BY <1>4, <2>2, <2>3 DEF Begin
<1>5. CASE Revoke(h)
  <2>1. request[h].sess \in Rows /\ revoked' \subseteq revoked \cup {request[h].sess}
    BY <1>0, <1>5 DEF Revoke, RequestShape
  <2>2. /\ request'[h].pc # "rotate"
        /\ \A g \in Requests \ {h} : request'[g] = request[g]
    BY <1>5, Answered DEF Revoke
  <2>3. \A g \in Requests : request[g].pc = "rotate" => request[g].sess # request[h].sess
    BY <1>5 DEF Revoke, Holds
  <2>4. UNCHANGED <<hash, spent>>
    BY <1>5 DEF Revoke
  <2>5. UsedOnce'
    BY <2>1, <2>2, <2>3, <2>4 DEF UsedOnce
  <2>6. QED
    BY <2>2, <2>4, <2>5 DEF OneAtATime, HashUnspent, HashUnique
<1>6. ASSUME NEW s \in Rows, Lock(h, s)
      PROVE  ExchangeInv'
  <2>1. /\ request'[h].sess = s /\ request'[h].token = request[h].token
        /\ \A g \in Requests \ {h} : request'[g] = request[g] /\ request[g].pc # "rotate"
        /\ UNCHANGED <<hash, revoked, spent>>
    BY <1>0, <1>6 DEF Lock, Waits, TypeInv, TypeOK, RequestState, db
  <2>2. hash[s] = request[h].token /\ s \notin revoked
    BY <1>6 DEF Lock, Matches
  <2>3. QED
    BY <2>1, <2>2 DEF OneAtATime, HashUnspent, HashUnique, UsedOnce
<1>7. ASSUME NEW n \in Tokens, Rotate(h, n)
      PROVE  ExchangeInv'
  <2> DEFINE u == request[h].sess
  <2>1. /\ request[h].pc = "rotate" /\ u \in Rows /\ request[h].token \in Tokens
        /\ hash' = [hash EXCEPT ![u] = n] /\ hash \in [Rows -> Tokens \cup {Null}]
    BY <1>0, <1>7 DEF Rotate, RequestShape, TypeInv, TypeOK
  <2>2. Unknown(n) /\ \A s \in Rows : hash[s] # n
    BY <1>7 DEF Rotate, Fresh
  <2>3. hash[u] = request[h].token
    BY <2>1 DEF UsedOnce
  <2>4. spent' \subseteq spent \cup {request[h].token} /\ n \notin spent'
    BY <1>7, <2>2 DEF Rotate
  <2>5. \A g \in Requests : request'[g].pc # "rotate"
    BY <1>7, <2>1, Answered DEF Rotate, OneAtATime
  <2>6. HashUnspent' /\ HashUnique'
    BY <2>1, <2>2, <2>3, <2>4, NullAssumption DEF HashUnspent, HashUnique
  <2>7. QED
    BY <2>5, <2>6 DEF OneAtATime, UsedOnce
<1>8. ASSUME NEW s \in Rows, NEW n \in Tokens, CreateSession(h, s, n)
      PROVE  ExchangeInv'
  <2>1. /\ hash' = [hash EXCEPT ![s] = n] /\ hash \in [Rows -> Tokens \cup {Null}]
        /\ spent' = spent \ {n} /\ \A u \in Rows : hash[u] # n
    BY <1>8 DEF CreateSession, Fresh, TypeInv, TypeOK
  <2>2. \A g \in Requests : request'[g].pc # "rotate"
    BY <1>8, Answered DEF CreateSession, Waits
  <2>3. QED
    BY <2>1, <2>2 DEF OneAtATime, HashUnspent, HashUnique, UsedOnce
<1>9. QED
  BY <1>1, <1>2, <1>3, <1>4, <1>5, <1>6, <1>7, <1>8 DEF Serve, Fault

(* A tab sends requests, which hold no row yet. *)
LEMMA ActExchange ==
  ASSUME ExchangeInv, TypeInv', NEW t \in Tabs, NEW h \in Requests, Act(t, h)
  PROVE  ExchangeInv'
<1>1. UNCHANGED <<hash, revoked, spent>>
  BY DEF Act, Open, LogIn, Use, SignOut, db
<1>2. \A g \in Requests : request'[g].pc = "rotate" =>
          /\ request[g].pc = "rotate"
          /\ request'[g].sess = request[g].sess /\ request'[g].token = request[g].token
  <2>1. CASE Open(t, h)
    BY <2>1 DEF Open, NewRequest, ExchangeInv, TypeInv, TypeOK, RequestState
  <2>2. CASE \E kind \in {"login", "use", "logout"} : Send(h, kind, t)
    BY <2>2 DEF Send, NewRequest, ExchangeInv, TypeInv, TypeOK
  <2>3. QED
    BY <2>1, <2>2 DEF Act, LogIn, Use, SignOut
<1>3. QED
  BY <1>1, <1>2, NoLock

(* A row is deleted only while no request holds it. *)
LEMMA TimeExchange ==
  ASSUME ExchangeInv, TypeInv', NEW s \in Rows, Expire(s) \/ Purge(s)
  PROVE  ExchangeInv'
<1>1. CASE Expire(s)
  BY <1>1, NoLock DEF Expire, browser
<1>2. CASE Purge(s)
  <2>1. /\ hash' = [hash EXCEPT ![s] = Null] /\ hash \in [Rows -> Tokens \cup {Null}]
        /\ revoked' \subseteq revoked /\ UNCHANGED <<spent, request>> /\ Null \notin spent
        /\ \A g \in Requests : request[g].pc = "rotate" => request[g].sess # s
    BY <1>2, NullAssumption DEF Purge, Holds, ExchangeInv, TypeInv, TypeOK
  <2>2. \A g \in Requests : request[g].pc = "rotate" => request[g].sess \in Rows
    BY DEF ExchangeInv, TypeInv, RequestShape
  <2>3. QED
    BY <2>1, <2>2 DEF ExchangeInv, OneAtATime, HashUnspent, HashUnique, UsedOnce
<1>3. QED
  BY <1>1, <1>2

LEMMA ExchangeInit == Init => ExchangeInv
<1>1. Init => TypeInv
  BY IdleTyped DEF Init, TypeInv, TypeOK, TabState, Typed
<1>2. QED
  BY <1>1 DEF Init, IdleRequest, ExchangeInv, OneAtATime, HashUnspent, HashUnique, UsedOnce

LEMMA ExchangeStep ==
  ASSUME ExchangeInv, Next
  PROVE  ExchangeInv'
<1>1. TypeInv'
  BY ActTypes, ServeTypes, TimeTypes DEF Next, ExchangeInv
<1>2. QED
  BY <1>1, ActExchange, ServeExchange, TimeExchange DEF Next

(* A refresh token is exchanged once, however many requests present it,    *)
(* and never for a session that was revoked or deleted meanwhile           *)
(* (auth/service.go:145, 157).                                             *)
THEOREM ExchangedOnce == Spec => []UsedOnce
<1>1. ExchangeInv /\ [Next]_vars => ExchangeInv'
  <2>1. CASE UNCHANGED vars
    BY <2>1 DEF vars, ExchangeInv, TypeInv, TypeOK, OneAtATime, HashUnspent, HashUnique, UsedOnce
  <2>2. QED
    BY <2>1, ExchangeStep
<1>2. ExchangeInv => UsedOnce
  BY DEF ExchangeInv
<1>3. QED
  BY <1>1, <1>2, ExchangeInit, PTL DEF Spec

-----------------------------------------------------------------------------
(* The cookie.  A refresh token is dead when the row that has it, if any,  *)
(* is revoked or expired; it stays dead while a request has it, because a  *)
(* new token is one that no request has.                                   *)

Dead(k) == \A s \in Rows : hash[s] = k => s \in revoked \cup expired

Doomed(r) ==
    \/ r.late
    \/ r.pc = "reply" /\ r.kind = "refresh" /\ r.answer = "refused" /\ r.token # Null

DeadInv ==
    \A h \in Requests : Doomed(request[h]) =>
        request[h].token \in Tokens /\ Dead(request[h].token)

(* What becomes of a dead token in a step. *)
LEMMA DeadStays ==
  ASSUME TypeInv, Next, NEW k \in Tokens, NEW h \in Requests, request[h].token = k, Dead(k)
  PROVE  Dead(k)'
<1> SUFFICES ASSUME NEW s \in Rows, hash'[s] = k
             PROVE  s \in revoked' \cup expired'
  BY DEF Dead
<1> USE DEF Dead, TypeInv, TypeOK
<1>1. CASE \E t \in Tabs, g \in Requests : Act(t, g)
  BY <1>1 DEF Act, Open, LogIn, Use, SignOut, db
<1>2. ASSUME NEW g \in Requests, Serve(g) \/ Fault(g)
      PROVE  s \in revoked' \cup expired'
  <2>1. CASE UNCHANGED <<hash, revoked, expired>>
    BY <2>1
  <2>2. CASE Revoke(g)
    BY <2>2 DEF Revoke
  <2>3. ASSUME NEW n \in Tokens, Rotate(g, n)
        PROVE  s \in revoked' \cup expired'
    BY <2>3 DEF Rotate, Fresh, Unknown
  <2>4. ASSUME NEW u \in Rows, NEW n \in Tokens, CreateSession(g, u, n)
        PROVE  s \in revoked' \cup expired'
    BY <2>4 DEF CreateSession, Fresh, Unknown
  <2>5. QED
    BY <1>2, <2>1, <2>2, <2>3, <2>4
       DEF Serve, Fault, Admit, RefuseAccess, Begin, RefuseRefresh, WrongPassword, Lock,
           Deliver, Retry, Drop, Fail, Lose, db
<1>3. ASSUME NEW u \in Rows, Expire(u) \/ Purge(u)
      PROVE  s \in revoked' \cup expired'
  BY <1>3, NullAssumption DEF Expire, Purge
<1>4. QED
  BY <1>1, <1>2, <1>3 DEF Next

(* A request is doomed by what its statement found, in the rows of then. *)
LEMMA DoomedByRows ==
  ASSUME ExchangeInv, DeadInv, NEW h \in Requests, Serve(h) \/ Fault(h),
         NEW g \in Requests, Doomed(request'[g])
  PROVE  /\ request'[g].token \in Tokens /\ Dead(request'[g].token)
         /\ \E i \in Requests : request[i].token = request'[g].token
<1> USE DEF ExchangeInv
<1>0. /\ request[h] \in RequestState /\ RequestShape(request[h])
      /\ request \in [Requests -> RequestState] /\ cookie \in Tokens \cup {Null}
  BY DEF TypeInv, TypeOK
<1>1. CASE request'[g] = request[g]
  BY <1>1 DEF DeadInv
<1>2. CASE request'[g] # request[g]
  <2>1. g = h
    BY <1>0, <1>2 DEF Serve, Fault, Admit, RefuseAccess, Begin, RefuseRefresh, WrongPassword,
           Lock, Rotate, CreateSession, Revoke, Deliver, Retry, Drop, Fail, Lose, Answer, Refuse,
           Break, Goto
  <2>2. CASE Admit(h)
    <3>1. CASE request[h].kind = "use"
      BY <1>0, <2>1, <2>2, <3>1 DEF Admit, Answer, IdleRequest, Doomed, RequestState
    <3>2. CASE request[h].kind # "use"
      <4>1. /\ request'[h].late = request[h].late /\ request'[h].token = request[h].token
            /\ request'[h].pc = "revoke"
        BY <1>0, <2>2, <3>2 DEF Admit, Goto, RequestState
      <4>2. QED
        BY <2>1, <4>1 DEF Doomed, DeadInv
    <3>3. QED
      BY <3>1, <3>2
  <2>3. ASSUME NEW a \in {"ok", "refused"}, NEW s, NEW n, Answer(h, a, s, n),
               ~(a = "refused" /\ request[h].kind = "refresh" /\ request[h].token # Null)
        PROVE  FALSE
    <3> DEFINE r == [request[h] EXCEPT !.pc = "reply", !.answer = a, !.sess = s,
                                       !.gives = n, !.late = FALSE]
    <3>1. ~r.late /\ r.kind = request[h].kind /\ r.answer = a /\ r.token = request[h].token
      BY <1>0 DEF RequestState
    <3>2. request'[h] \in {r, IdleRequest}
      BY <1>0, <2>3 DEF Answer
    <3> HIDE DEF r
    <3>3. QED
      BY <2>1, <2>3, <3>1, <3>2 DEF IdleRequest, Doomed
  <2>4. CASE RefuseAccess(h) \/ WrongPassword(h) \/ Revoke(h)
    BY <2>3, <2>4 DEF RefuseAccess, WithAccess, WrongPassword, Revoke, Refuse
  <2>5. CASE RefuseRefresh(h)
    <3> DEFINE r == [request[h] EXCEPT !.pc = "reply", !.answer = "refused",
                             !.sess = request[h].sess, !.gives = Null, !.late = FALSE]
    <3>1. r.token = request[h].token
      BY <1>0 DEF RequestState
    <3>2. request'[h] = r
      BY <1>0, <2>5 DEF RefuseRefresh, Refuse, Answer
    <3> HIDE DEF r
    <3>3. request[h].token \in Tokens
      BY <1>0, <2>5 DEF RefuseRefresh, RequestShape
    <3>4. Dead(request[h].token)
      <4>1. CASE request[h].late
        BY <4>1 DEF DeadInv, Doomed
      <4>2. CASE ~request[h].late
        BY <2>5, <4>2 DEF RefuseRefresh, Matches, Dead
      <4>3. QED
        BY <4>1, <4>2
    <3>5. QED
      BY <2>1, <3>1, <3>2, <3>3, <3>4
  <2>6. CASE Begin(h)
    <3>1. CASE request[h].token = Null
      BY <2>3, <2>6, <3>1 DEF Begin, Refuse
    <3>2. CASE request[h].token # Null
      <4> DEFINE late == \E s \in expired : hash[s] = request[h].token
                 r == [request[h] EXCEPT !.pc = "lock", !.late = late]
      <4>1. r.pc = "lock" /\ r.token = request[h].token /\ (r.late <=> late)
        BY <1>0 DEF RequestState
      <4>2. request'[h] = r
        BY <1>0, <2>6, <3>2 DEF Begin
      <4> HIDE DEF r
      <4>3. late
        BY <2>1, <4>1, <4>2 DEF Doomed
      <4>4. request[h].token \in Tokens
        BY <1>0, <3>2 DEF RequestState
      <4>5. Dead(request[h].token)
        BY <3>2, <4>3 DEF HashUnique, Dead, TypeInv, TypeOK
      <4>6. QED
        BY <2>1, <4>1, <4>2, <4>4, <4>5
    <3>3. QED
      BY <3>1, <3>2
  <2>7. ASSUME NEW s \in Rows, Lock(h, s)
        PROVE  FALSE
    <3>1. request'[h].pc = "rotate" /\ request'[h].late = request[h].late
      BY <1>0, <2>7 DEF Lock, RequestState
    <3>2. QED
      BY <2>1, <2>7, <3>1 DEF Lock, Matches, Doomed
  <2>8. ASSUME NEW n \in Tokens, Rotate(h, n) \/ \E s \in Rows : CreateSession(h, s, n)
        PROVE  FALSE
    BY <2>3, <2>8 DEF Rotate, CreateSession
  <2>9. CASE Deliver(h) \/ Drop(h)
    BY <1>0, <2>1, <2>9 DEF Deliver, Drop, IdleRequest, Doomed
  <2>10. CASE Retry(h)
    BY <1>0, <2>1, <2>10 DEF Retry, NewRequest, Doomed
  <2>11. CASE Break(h)
    <3> DEFINE r == [request[h] EXCEPT !.pc = "reply", !.answer = "error", !.token = Null,
                                     !.sess = Null, !.gives = Null, !.late = FALSE]
    <3>1. ~r.late /\ r.answer = "error"
      BY <1>0 DEF RequestState
    <3>2. request'[h] \in {r, IdleRequest}
      BY <1>0, <2>11 DEF Break
    <3> HIDE DEF r
    <3>3. QED
      BY <2>1, <3>1, <3>2 DEF IdleRequest, Doomed
  <2>12. QED
    BY <2>2, <2>4, <2>5, <2>6, <2>7, <2>8, <2>9, <2>10, <2>11 DEF Serve, Fault, Fail, Lose
<1>3. QED
  BY <1>1, <1>2

(* A refused refresh token works no more, when the refusal arrives too. *)
LEMMA DeadStep ==
  ASSUME ExchangeInv, DeadInv, Next
  PROVE  DeadInv'
<1> SUFFICES ASSUME NEW g \in Requests, Doomed(request'[g])
             PROVE  /\ request'[g].token \in Tokens
                    /\ \A s \in Rows : hash'[s] = request'[g].token
                                         => s \in revoked' \cup expired'
  BY DEF DeadInv, Doomed, Dead
<1>0. TypeInv /\ request \in [Requests -> RequestState]
  BY DEF ExchangeInv, TypeInv, TypeOK
<1>1. /\ request'[g].token \in Tokens /\ Dead(request'[g].token)
      /\ \E i \in Requests : request[i].token = request'[g].token
  <2>1. ASSUME NEW h \in Requests, Serve(h) \/ Fault(h)
        PROVE  <1>1!:
    BY <2>1, DoomedByRows
  <2>2. ASSUME NEW t \in Tabs, NEW h \in Requests, Act(t, h)
        PROVE  <1>1!:
    <3>1. Doomed(request[g]) /\ request'[g].token = request[g].token
      <4>1. CASE Open(t, h)
        <5>1. g # h
          BY <1>0, <4>1 DEF Open, NewRequest, Doomed
        <5>2. \/ request'[g] = request[g]
              \/ request'[g] = [request[g] EXCEPT !.tab = Null]
          BY <1>0, <4>1, <5>1 DEF Open
        <5>3. QED
          BY <1>0, <5>2 DEF Doomed, RequestState
      <4>2. CASE \E kind \in {"login", "use", "logout"} : Send(h, kind, t)
        BY <1>0, <4>2 DEF Send, NewRequest, Doomed
      <4>3. QED
        BY <2>2, <4>1, <4>2 DEF Act, LogIn, Use, SignOut
    <3>2. QED
      BY <3>1 DEF DeadInv
  <2>3. ASSUME NEW s \in Rows, Expire(s) \/ Purge(s)
        PROVE  <1>1!:
    BY <2>3 DEF Expire, Purge, DeadInv
  <2>4. QED
    BY <2>1, <2>2, <2>3 DEF Next
<1>2. PICK i \in Requests : request[i].token = request'[g].token
  BY <1>1
<1>3. ASSUME NEW k \in Tokens, request[i].token = k, Dead(k), NEW s \in Rows, hash'[s] = k
      PROVE  s \in revoked' \cup expired'
  <2>1. Dead(k)'
    BY <1>0, <1>3, DeadStays
  <2>2. QED
    BY <1>3, <2>1 DEF Dead
<1>4. QED
  BY <1>1, <1>2, <1>3

(* While all is calm, one request of a tab is about the cookie; a refresh  *)
(* presents the cookie of now, and the token that an answer gives is good. *)

Current(r) ==
    r.pc # "idle" /\ r.kind = "refresh" /\ ~(r.pc = "reply" /\ r.answer = "error")
        => r.token = cookie

OneInCharge ==
    /\ \A g, h \in Requests : ForCookie(g) /\ ForCookie(h) => g = h
    /\ \A h \in Requests : ForCookie(h) => request[h].tab # Null
    /\ \A h \in Requests : Current(request[h])
    /\ \A h \in Requests : request[h].pc = "reply" /\ Sets(request[h])
                             => request[h].gives \notin spent

CalmInv == calm => OneInCharge

CookieInv == ExchangeInv /\ DeadInv /\ CalmInv /\ CookieSurvives

(* A new request about the cookie is the only one, or calm is over.        *)
LEMMA CalmSent ==
  ASSUME CookieInv, NEW t \in Tabs, NEW h \in Requests,
         NEW kind \in {"refresh", "login", "logout"},
         request'[h] = NewRequest(kind, t), ~(request[h].pc = "reply" /\ request[h].kind # "use"),
         calm' => calm /\ Alone(h), UNCHANGED <<cookie, spent>>,
         \A g \in Requests \ {h} : ForCookie(g)' => ForCookie(g)
  PROVE  CalmInv' /\ CookieSurvives'
<1> USE DEF OneInCharge
<1>1. /\ request'[h].pc = "arrived" /\ request'[h].kind = kind /\ request'[h].tab = t
      /\ kind = "refresh" => request'[h].token = cookie
  BY DEF NewRequest
<1>2. t # Null
  BY NullAssumption
<1>3. ASSUME calm'
      PROVE  \A g \in Requests \ {h} : ~ForCookie(g) /\ ~ForCookie(g)'
  BY <1>3 DEF Alone
<1>4. CalmInv'
  <2> SUFFICES ASSUME calm'
               PROVE  OneInCharge'
    BY DEF CalmInv
  <2>1. \A g \in Requests : ForCookie(g)' => g = h
    BY <1>3
  <2>2. \A g \in Requests \ {h} : request'[g].pc = "idle" \/ request'[g].kind = "use"
    BY <1>3 DEF ForCookie
  <2>3. \A g \in Requests : Current(request[g])'
    BY <1>1, <2>2 DEF Current
  <2>4. \A g \in Requests : ~(request'[g].pc = "reply" /\ Sets(request'[g]))
    BY <1>1, <2>2 DEF Sets
  <2>5. QED
    BY <1>1, <1>2, <2>1, <2>3, <2>4 DEF Sets
<1>5. CookieSurvives'
  BY <1>3 DEF CookieSurvives, CookieInv, ForCookie
<1>6. QED
  BY <1>4, <1>5

(* A request that goes on, without an answer that sets the cookie, presents *)
(* what it presented.                                                       *)
LEMMA CalmKept ==
  ASSUME CookieInv, NEW h \in Requests, request[h].pc # "reply" \/ ~ForCookie(h),
         \A g \in Requests \ {h} : request'[g] = request[g],
         ForCookie(h)' => /\ ForCookie(h) /\ request'[h].kind = request[h].kind
                          /\ request'[h].tab = request[h].tab
                          /\ \/ request'[h].token = request[h].token
                             \/ (request'[h].pc = "reply" /\ request'[h].answer = "error"),
         request'[h].pc = "reply" => ~Sets(request'[h]),
         calm' => calm, UNCHANGED <<cookie, spent>>
  PROVE  CalmInv' /\ CookieSurvives'
<1> USE DEF OneInCharge
<1>1. CalmInv'
  <2> SUFFICES ASSUME calm'
               PROVE  OneInCharge'
    BY DEF CalmInv
  <2>1. calm /\ OneInCharge
    BY DEF CookieInv, CalmInv
  <2>2. \A g \in Requests : ForCookie(g)' => ForCookie(g) /\ request'[g].tab = request[g].tab
    BY DEF ForCookie
  <2>3. \A g \in Requests : Current(request[g])'
    BY <2>1 DEF Current, ForCookie
  <2>4. \A g \in Requests : request'[g].pc = "reply" /\ Sets(request'[g])
                             => request'[g].gives \notin spent
    BY <2>1
  <2>5. QED
    BY <2>1, <2>2, <2>3, <2>4 DEF Sets
<1>2. CookieSurvives'
  BY DEF CookieSurvives, CookieInv, ForCookie
<1>3. QED
  BY <1>1, <1>2

(* An answer that gives a new token, when no other request has the cookie. *)
LEMMA CalmGiven ==
  ASSUME CookieInv, NEW h \in Requests, NEW s \in Rows, NEW n \in Tokens,
         request[h].pc \notin {"idle", "reply"}, request[h].kind \in {"login", "refresh"},
         Answer(h, "ok", s, n), UNCHANGED <<cookie, calm>>, n \notin spent',
         spent' \subseteq IF request[h].kind = "refresh" THEN spent \cup {request[h].token}
                                                        ELSE spent
  PROVE  CalmInv' /\ CookieSurvives'
<1> USE DEF OneInCharge
<1> DEFINE r == [request[h] EXCEPT !.pc = "reply", !.answer = "ok", !.sess = s,
                                   !.gives = n, !.late = FALSE]
<1>0. request[h] \in RequestState /\ request \in [Requests -> RequestState]
  BY DEF CookieInv, ExchangeInv, TypeInv, TypeOK
<1>1. /\ r.pc = "reply" /\ r.kind = request[h].kind /\ r.tab = request[h].tab
      /\ r.token = request[h].token /\ r.answer = "ok" /\ r.gives = n
  BY <1>0 DEF RequestState
<1>2. request' = [request EXCEPT ![h] = r]
  BY <1>0 DEF Answer
<1> HIDE DEF r
<1> SUFFICES ASSUME calm
             PROVE  CalmInv' /\ CookieSurvives'
  BY DEF CalmInv, CookieSurvives
<1>3. OneInCharge /\ ForCookie(h)
  BY DEF CookieInv, CalmInv, ForCookie
<1>4. /\ request'[h] = r
      /\ \A g \in Requests \ {h} : request'[g] = request[g] /\ ~ForCookie(g)
  BY <1>0, <1>2, <1>3
<1>5. \A g \in Requests \ {h} : request'[g].pc = "idle" \/ request'[g].kind = "use"
  BY <1>4 DEF ForCookie
<1>6. CalmInv'
  <2>1. \A g \in Requests : ForCookie(g)' => g = h
    BY <1>5 DEF ForCookie
  <2>2. ForCookie(h)' => request'[h].tab # Null
    BY <1>1, <1>3, <1>4
  <2>3. \A g \in Requests : Current(request[g])'
    BY <1>1, <1>3, <1>4, <1>5 DEF Current
  <2>4. \A g \in Requests : request'[g].pc = "reply" /\ Sets(request'[g])
                             => request'[g].gives \notin spent'
    BY <1>1, <1>4, <1>5 DEF Sets
  <2>5. QED
    BY <2>1, <2>2, <2>3, <2>4 DEF CalmInv, Sets
<1>7. CookieSurvives'
  <2>1. CASE request[h].kind = "refresh"
    BY <1>1, <1>3, <1>4, <2>1 DEF CookieSurvives, Current
  <2>2. CASE request[h].kind = "login"
    <3>1. cookie \notin spent
      BY <1>4, <2>2 DEF CookieInv, CookieSurvives, ForCookie
    <3>2. QED
      BY <2>2, <3>1 DEF CookieSurvives
  <2>3. QED
    BY <2>1, <2>2
<1>8. QED
  BY <1>6, <1>7

(* An answer that the browser gets, or that nobody waits for any more.     *)
LEMMA CalmDone ==
  ASSUME CookieInv, NEW h \in Requests, Deliver(h) \/ Drop(h)
  PROVE  CalmInv' /\ CookieSurvives'
<1> USE DEF OneInCharge
<1> SUFFICES ASSUME calm
             PROVE  CalmInv' /\ CookieSurvives'
  BY DEF CalmInv, CookieSurvives, Deliver, Drop
<1>0. /\ RequestShape(request[h]) /\ request \in [Requests -> RequestState]
      /\ spent \subseteq Tokens /\ Null \notin spent
  BY NullAssumption DEF CookieInv, ExchangeInv, TypeInv, TypeOK
<1>1. OneInCharge
  BY DEF CookieInv, CalmInv
<1>2. /\ request'[h] = IdleRequest /\ \A g \in Requests \ {h} : request'[g] = request[g]
      /\ spent' = spent
  BY <1>0 DEF Deliver, Drop, db
<1>3. ~ForCookie(h)' /\ \A g \in Requests : ForCookie(g)' => ForCookie(g)
  BY <1>2 DEF ForCookie, IdleRequest
<1>4. CASE ForCookie(h)
  <2>1. \A g \in Requests : ~ForCookie(g)'
    BY <1>1, <1>2, <1>3, <1>4
  <2>2. \A g \in Requests : request'[g].pc = "idle" \/ request'[g].kind = "use"
    BY <2>1 DEF ForCookie
  <2>3. CalmInv'
    BY <2>1, <2>2 DEF CalmInv, Current, Sets
  <2>4. cookie' = CookieAfter(request[h]) /\ request[h].pc = "reply"
    BY <1>1, <1>4 DEF Deliver, Drop
  <2>5. cookie' \notin spent
    <3>1. CASE Sets(request[h])
      BY <1>1, <2>4, <3>1 DEF CookieAfter
    <3>2. CASE ~Sets(request[h]) /\ cookie' = cookie
      BY <1>1, <1>4, <3>2 DEF CookieInv, CookieSurvives, ForCookie, Sets
    <3>3. CASE cookie' = Null
      BY <1>0, <3>3
    <3>4. QED
      BY <2>4, <3>1, <3>2, <3>3 DEF CookieAfter
  <2>6. QED
    BY <1>2, <2>3, <2>5 DEF CookieSurvives
<1>5. CASE ~ForCookie(h)
  <2>1. cookie' = cookie
    BY <1>5 DEF Deliver, Drop, ForCookie, CookieAfter, Sets, Clears
  <2>2. QED
    BY <1>2, <1>3, <1>5, <2>1, CalmKept DEF IdleRequest, Sets, Deliver, Drop
<1>6. QED
  BY <1>4, <1>5

(* What a tab starts. *)
LEMMA CalmAct ==
  ASSUME CookieInv, NEW t \in Tabs, NEW h \in Requests, Act(t, h)
  PROVE  CalmInv' /\ CookieSurvives'
<1>0. request \in [Requests -> RequestState]
  BY DEF CookieInv, ExchangeInv, TypeInv, TypeOK
<1>1. CASE Open(t, h)
  <2>1. request'[h] = NewRequest("refresh", t)
    BY <1>0, <1>1 DEF Open
  <2>2. \A g \in Requests \ {h} : \/ request'[g] = request[g]
                                   \/ request'[g] = [request[g] EXCEPT !.tab = Null]
    BY <1>0, <1>1 DEF Open
  <2>3. \A g \in Requests \ {h} : ForCookie(g)' => ForCookie(g)
    BY <1>0, <2>2 DEF ForCookie, RequestState
  <2>4. calm' => calm /\ Alone(h)
    BY <1>1 DEF Open, CookieInv, ExchangeInv, TypeInv, TypeOK
  <2>5. request[h].pc # "reply" /\ UNCHANGED <<cookie, spent>>
    BY <1>1 DEF Open, db
  <2>6. QED
    BY <2>1, <2>3, <2>4, <2>5, CalmSent
<1>2. ASSUME NEW kind \in {"login", "logout"}, Send(h, kind, t),
             calm' = (calm /\ Alone(h)), UNCHANGED <<cookie, spent>>
      PROVE  CalmInv' /\ CookieSurvives'
  <2>1. /\ request'[h] = NewRequest(kind, t) /\ request[h].pc # "reply"
        /\ \A g \in Requests \ {h} : request'[g] = request[g]
    BY <1>0, <1>2 DEF Send
  <2>2. \A g \in Requests \ {h} : ForCookie(g)' => ForCookie(g)
    BY <2>1 DEF ForCookie
  <2>3. calm' => calm /\ Alone(h)
    BY <1>2
  <2>4. QED
    BY <1>2, <2>1, <2>2, <2>3, CalmSent
<1>3. CASE LogIn(t, h)
  BY <1>2, <1>3 DEF LogIn, db, browser
<1>4. CASE SignOut(t, h)
  BY <1>2, <1>4 DEF SignOut, db, browser
<1>5. CASE Use(t, h)
  <2>1. /\ request'[h] = NewRequest("use", t) /\ request[h].pc = "idle"
        /\ \A g \in Requests \ {h} : request'[g] = request[g]
    BY <1>0, <1>5 DEF Use, Send
  <2>2. ~ForCookie(h)' /\ request'[h].pc = "arrived"
    BY <2>1 DEF NewRequest, ForCookie
  <2>3. QED
    BY <1>5, <2>1, <2>2, CalmKept DEF Use, db, browser
<1>6. QED
  BY <1>1, <1>3, <1>4, <1>5 DEF Act

(* What the API, the network and the answers do. *)
LEMMA CalmServe ==
  ASSUME CookieInv, NEW h \in Requests, Serve(h) \/ Fault(h)
  PROVE  CalmInv' /\ CookieSurvives'
<1>0. /\ request[h] \in RequestState /\ RequestShape(request[h])
      /\ request \in [Requests -> RequestState]
  BY DEF CookieInv, ExchangeInv, TypeInv, TypeOK
<1>1. ASSUME NEW r, request' = [request EXCEPT ![h] = r], r = IdleRequest \/
               /\ r.kind = request[h].kind /\ r.tab = request[h].tab
               /\ r.token = request[h].token \/ (r.pc = "reply" /\ r.answer = "error")
               /\ r.pc = "reply" => ~Sets(r),
             request[h].pc # "reply" \/ ~ForCookie(h), request[h].pc # "idle",
             calm' => calm, UNCHANGED <<cookie, spent>>
      PROVE  CalmInv' /\ CookieSurvives'
  <2>1. request'[h] = r /\ \A g \in Requests \ {h} : request'[g] = request[g]
    BY <1>0, <1>1
  <2>2. CASE r = IdleRequest
    <3>1. ~ForCookie(h)' /\ request'[h].pc = "idle"
      BY <2>1, <2>2 DEF IdleRequest, ForCookie
    <3>2. QED
      BY <1>1, <2>1, <3>1, CalmKept
  <2>3. CASE r # IdleRequest
    <3>1. ForCookie(h)' => ForCookie(h)
      BY <1>1, <2>1, <2>3 DEF ForCookie
    <3>2. QED
      BY <1>1, <2>1, <2>3, <3>1, CalmKept
  <2>4. QED
    BY <2>2, <2>3
<1>2. ASSUME NEW a \in {"ok", "refused"}, Answer(h, a, request[h].sess, Null),
             a = "refused" \/ request[h].kind \in {"use", "logout"},
             request[h].pc \notin {"idle", "reply"}, UNCHANGED <<cookie, spent, calm>>
      PROVE  CalmInv' /\ CookieSurvives'
  <2> DEFINE r == [request[h] EXCEPT !.pc = "reply", !.answer = a, !.sess = request[h].sess,
                                     !.gives = Null, !.late = FALSE]
  <2>1. /\ r.kind = request[h].kind /\ r.tab = request[h].tab /\ r.token = request[h].token
        /\ r.answer = a
    BY <1>0 DEF RequestState
  <2>2. \/ request' = [request EXCEPT ![h] = r]
        \/ request' = [request EXCEPT ![h] = IdleRequest]
    BY <1>0, <1>2 DEF Answer
  <2> HIDE DEF r
  <2>3. ~Sets(r)
    BY <1>2, <2>1 DEF Sets
  <2>4. QED
    BY <1>1, <1>2, <2>1, <2>2, <2>3
<1>3. ASSUME Break(h), request[h].pc # "idle", request[h].pc # "reply" \/ ~ForCookie(h),
             calm' => calm, UNCHANGED <<cookie, spent>>
      PROVE  CalmInv' /\ CookieSurvives'
  <2> DEFINE r == [request[h] EXCEPT !.pc = "reply", !.answer = "error", !.token = Null,
                                     !.sess = Null, !.gives = Null, !.late = FALSE]
  <2>1. /\ r.kind = request[h].kind /\ r.tab = request[h].tab /\ r.answer = "error"
        /\ r.pc = "reply"
    BY <1>0 DEF RequestState
  <2>2. \/ request' = [request EXCEPT ![h] = r]
        \/ request' = [request EXCEPT ![h] = IdleRequest]
    BY <1>0, <1>3 DEF Break
  <2> HIDE DEF r
  <2>3. ~Sets(r)
    BY <2>1 DEF Sets
  <2>4. QED
    BY <1>1, <1>3, <2>1, <2>2, <2>3
<1>4. CASE Admit(h)
  <2>1. CASE request[h].kind = "use"
    BY <1>2, <1>4, <2>1 DEF Admit, WithAccess, db, browser
  <2>2. CASE request[h].kind # "use"
    <3> DEFINE r == [request[h] EXCEPT !.pc = "revoke"]
    <3>1. /\ r.kind = request[h].kind /\ r.tab = request[h].tab /\ r.token = request[h].token
          /\ r.pc = "revoke"
      BY <1>0, <1>4, <2>2 DEF Admit, WithAccess, RequestState
    <3>2. request' = [request EXCEPT ![h] = r]
      BY <1>0, <1>4, <2>2 DEF Admit, Goto
    <3> HIDE DEF r
    <3>3. QED
      BY <1>1, <1>4, <3>1, <3>2 DEF Admit, WithAccess, db, browser
  <2>3. QED
    BY <2>1, <2>2
<1>5. CASE RefuseAccess(h) \/ RefuseRefresh(h) \/ WrongPassword(h)
  BY <1>2, <1>5 DEF RefuseAccess, WithAccess, RefuseRefresh, WrongPassword, Refuse, db, browser
<1>6. CASE Revoke(h)
  BY <1>0, <1>2, <1>6 DEF Revoke, RequestShape, browser
<1>7. CASE Begin(h)
  <2>1. CASE request[h].token = Null
    BY <1>2, <1>7, <2>1 DEF Begin, Refuse, db, browser
  <2>2. CASE request[h].token # Null
    <3> DEFINE r == [request[h] EXCEPT !.pc = "lock",
                               !.late = \E s \in expired : hash[s] = request[h].token]
    <3>1. /\ r.kind = request[h].kind /\ r.tab = request[h].tab /\ r.token = request[h].token
          /\ r.pc = "lock"
      BY <1>0 DEF RequestState
    <3>2. request' = [request EXCEPT ![h] = r]
      BY <1>0, <1>7, <2>2 DEF Begin
    <3> HIDE DEF r
    <3>3. QED
      BY <1>0, <1>1, <1>7, <3>1, <3>2 DEF Begin, RequestShape, db, browser
  <2>3. QED
    BY <2>1, <2>2
<1>8. ASSUME NEW s \in Rows, Lock(h, s)
      PROVE  CalmInv' /\ CookieSurvives'
  <2> DEFINE r == [request[h] EXCEPT !.pc = "rotate", !.sess = s]
  <2>1. /\ r.kind = request[h].kind /\ r.tab = request[h].tab /\ r.token = request[h].token
        /\ r.pc = "rotate"
    BY <1>0 DEF RequestState
  <2>2. request' = [request EXCEPT ![h] = r]
    BY <1>0, <1>8 DEF Lock
  <2> HIDE DEF r
  <2>3. QED
    BY <1>0, <1>1, <1>8, <2>1, <2>2 DEF Lock, RequestShape, db, browser
<1>9. ASSUME NEW n \in Tokens, Rotate(h, n)
      PROVE  CalmInv' /\ CookieSurvives'
  <2>1. request[h].kind = "refresh" /\ request[h].sess \in Rows /\ request[h].pc = "rotate"
    BY <1>0, <1>9 DEF Rotate, RequestShape
  <2>2. n \notin spent' /\ spent' \subseteq spent \cup {request[h].token}
    BY <1>9 DEF Rotate, Fresh
  <2>3. QED
    BY <1>9, <2>1, <2>2, CalmGiven DEF Rotate, browser
<1>10. ASSUME NEW s \in Rows, NEW n \in Tokens, CreateSession(h, s, n)
       PROVE  CalmInv' /\ CookieSurvives'
  BY <1>10, CalmGiven DEF CreateSession, browser
<1>11. CASE Retry(h)
  <2> DEFINE t == request[h].tab
  <2>1. t \in Tabs /\ request[h].kind = "use"
    BY <1>0, <1>11 DEF Retry, RequestState
  <2>2. /\ request'[h] = NewRequest("refresh", t)
        /\ \A g \in Requests \ {h} : request'[g] = request[g]
    BY <1>0, <1>11 DEF Retry
  <2>3. \A g \in Requests \ {h} : ForCookie(g)' => ForCookie(g)
    BY <2>2 DEF ForCookie
  <2>4. calm' => calm /\ Alone(h)
    BY <1>11 DEF Retry, CookieInv, ExchangeInv, TypeInv, TypeOK
  <2>5. UNCHANGED <<cookie, spent>>
    BY <1>11 DEF Retry, db, browser
  <2> HIDE DEF t
  <2>6. QED
    BY <2>1, <2>2, <2>3, <2>4, <2>5, CalmSent
<1>12. CASE Deliver(h) \/ Drop(h)
  BY <1>12, CalmDone
<1>13. CASE Fail(h)
  BY <1>3, <1>13 DEF Fail, db, browser
<1>14. CASE Lose(h)
  <2>1. UNCHANGED <<cookie, spent>> /\ (calm' => calm /\ ~ForCookie(h))
    BY <1>14 DEF Lose, db, browser, CookieInv, ExchangeInv, TypeInv, TypeOK
  <2>2. CASE calm'
    BY <1>3, <1>14, <2>1, <2>2 DEF Lose
  <2>3. CASE ~calm'
    BY <2>3 DEF CalmInv, CookieSurvives
  <2>4. QED
    BY <2>2, <2>3
<1>15. QED
  BY <1>4, <1>5, <1>6, <1>7, <1>8, <1>9, <1>10, <1>11, <1>12, <1>13, <1>14 DEF Serve, Fault

LEMMA CookieStep ==
  ASSUME CookieInv, [Next]_vars
  PROVE  CookieInv'
<1> USE DEF OneInCharge
<1>1. CASE UNCHANGED vars
  <2>1. ExchangeInv' /\ DeadInv'
    BY <1>1 DEF vars, CookieInv, ExchangeInv, TypeInv, TypeOK, OneAtATime, HashUnspent,
                HashUnique, UsedOnce, DeadInv, Dead
  <2>2. CalmInv' /\ CookieSurvives'
    BY <1>1 DEF vars, CookieInv, CalmInv, CookieSurvives, ForCookie, Current
  <2>3. QED
    BY <2>1, <2>2 DEF CookieInv
<1>2. CASE Next
  <2>1. ExchangeInv'
    BY <1>2, ExchangeStep DEF CookieInv
  <2>2. DeadInv'
    BY <1>2, DeadStep DEF CookieInv
  <2>3. CalmInv' /\ CookieSurvives'
    <3>1. ASSUME NEW s \in Rows, Expire(s) \/ Purge(s)
          PROVE  CalmInv' /\ CookieSurvives'
      BY <3>1 DEF Expire, Purge, browser, CookieInv, CalmInv, CookieSurvives, ForCookie, Current
    <3>2. QED
      BY <1>2, <3>1, CalmAct, CalmServe DEF Next
  <2>4. QED
    BY <2>1, <2>2, <2>3 DEF CookieInv
<1>3. QED
  BY <1>1, <1>2

LEMMA CookieInit == Init => CookieInv
<1> USE DEF OneInCharge
<1>1. Init => ExchangeInv
  BY ExchangeInit
<1>2. Init => DeadInv
  BY DEF Init, IdleRequest, DeadInv, Doomed
<1>3. Init => CalmInv /\ CookieSurvives
  BY NullAssumption DEF Init, IdleRequest, CalmInv, CookieSurvives, ForCookie, Current, Sets
<1>4. QED
  BY <1>1, <1>2, <1>3 DEF CookieInv

(* As long as one request at a time is about the cookie and no answer is   *)
(* lost, the browser never keeps a token that it has exchanged             *)
(* (auth/handler.go:106).                                                  *)
THEOREM CookieGood == Spec => []CookieSurvives
<1>1. CookieInv => CookieSurvives
  BY DEF CookieInv
<1>2. QED
  BY <1>1, CookieInit, CookieStep, PTL DEF Spec

(* Nor does it lose one that works, but by signing out: a refresh that is  *)
(* refused presented a dead token (auth/handler.go:98, 116).               *)
THEOREM CookieStays == Spec => CookieKept
<1> USE DEF OneInCharge
<1>1. ASSUME CookieInv, [Next]_vars, calm', cookie # Null, cookie' = Null, Usable(cookie)
      PROVE  \E h \in Requests : SignsOut(h)
  <2>1. Next
    BY <1>1 DEF vars
  <2>2. PICK h \in Requests : Deliver(h) \/ Drop(h)
    <3>1. ~ \E t \in Tabs, h \in Requests : Act(t, h)
      BY <1>1 DEF Act, Open, LogIn, Use, SignOut, browser
    <3>2. ~ \E s \in Rows : Expire(s) \/ Purge(s)
      BY <1>1 DEF Expire, Purge, browser
    <3>3. PICK h \in Requests : Serve(h) \/ Fault(h)
      BY <2>1, <3>1, <3>2 DEF Next
    <3>4. QED
      BY <1>1, <3>3 DEF Serve, Fault, Admit, RefuseAccess, Begin, RefuseRefresh, WrongPassword,
         Lock, Rotate, CreateSession, Revoke, Retry, Fail, Lose, browser
  <2> DEFINE r == request[h]
  <2>3. /\ calm /\ OneInCharge /\ RequestShape(r) /\ r.pc = "reply"
        /\ cookie' = CookieAfter(r)
    <3>1. calm /\ r.pc = "reply" /\ RequestShape(r)
      BY <1>1, <2>2 DEF Deliver, Drop, CookieInv, ExchangeInv, TypeInv
    <3>2. OneInCharge
      BY <1>1, <3>1 DEF CookieInv, CalmInv
    <3>3. QED
      BY <1>1, <2>2, <3>1, <3>2 DEF Deliver, Drop
  <2>4. ~Sets(r)
    BY <1>1, <2>3, NullAssumption DEF RequestShape, CookieAfter
  <2>5. Clears(r)
    BY <1>1, <2>3, <2>4 DEF CookieAfter
  <2>6. CASE r.answer = "refused" /\ r.kind = "refresh" /\ r.token # Null
    <3>1. r.token = cookie
      BY <2>3, <2>6 DEF Current
    <3>2. Dead(r.token)
      BY <1>1, <2>3, <2>6 DEF CookieInv, DeadInv, Doomed
    <3>3. QED
      BY <1>1, <3>1, <3>2 DEF Usable, Valid, Dead
  <2>7. QED
    BY <2>5, <2>6 DEF Clears, SignsOut
<1>2. CookieInv /\ [Next]_vars
        => [calm' /\ cookie # Null /\ cookie' = Null
               => ~Usable(cookie) \/ \E h \in Requests : SignsOut(h)]_vars
  BY <1>1
<1>3. QED
  BY <1>2, CookieInit, CookieStep, PTL DEF Spec, CookieKept

=============================================================================

--------------------------- MODULE FrontEndProofs ---------------------------
(***************************************************************************)
(* Proofs about Account, for any numbers of phones, codes, threads and     *)
(* requests, and about FrontEnd, for any number of tabs and browsers in    *)
(* front of it.                                                            *)
(*                                                                         *)
(* The server: the filter's flag accepts for both thread-locals at once,   *)
(* so whatever is in them when a request ends is taken out in the finally. *)
(* Tokens go back to users, users to codes sent, and the keys of tb_user   *)
(* make the user of a phone unique.                                        *)
(*                                                                         *)
(* The pages: tabs and cookies only hold tokens of logins in their         *)
(* browser, a thread works for one tab at most, and an answer says for     *)
(* whom it was made.  Every step of the browser is then one of Account's,  *)
(* or none of its business, so that what is proved of Account holds with   *)
(* the browser in front of it.                                             *)
(***************************************************************************)
EXTENDS FrontEnd, TLAPS

----------------------------------------------------------------------------
(* The server, whoever calls it *)

USE DEF localVars, storeVars, historyVars, NoUser

LEMMA InitIInv == Init => IInv
  BY CodeAssumption, BoundsAssumption
  DEF Init, IInv, TypeOK, UserId, Path, Inside, KeysHold, IdsAreTaken, TokensHaveUsers,
      SentCodes, LocalsFollowFilter

\* What a step that leaves the database, the codes and the tokens alone keeps.
LEMMA StoresStay ==
    ASSUME IInv, UNCHANGED <<storeVars, phone, sent>>,
           \A t \in Thread : pc'[t] \in {"find", "create"} => pc[t] \in {"find", "create"}
    PROVE  KeysHold' /\ IdsAreTaken' /\ TokensHaveUsers' /\ SentCodes'
  BY DEF IInv, KeysHold, IdsAreTaken, TokensHaveUsers, SentCodes

LEMMA ReceiveKeeps ==
    ASSUME IInv, NEW t \in Thread, NEW path \in Path, NEW access \in Header, NEW refresh \in Header,
           Receive(t, path, access, refresh)
    PROVE  IInv'
<1>1. access \in Nat /\ refresh \in Nat
  BY DEF Header, IInv, TypeOK, UserId
<1>2. TypeOK'
  BY <1>1, BoundsAssumption DEF Receive, IInv, TypeOK
<1>3. KeysHold' /\ IdsAreTaken' /\ TokensHaveUsers' /\ SentCodes'
  BY StoresStay DEF Receive, IInv, TypeOK
<1>4. LocalsFollowFilter'
  BY DEF Receive, IInv, TypeOK, LocalsFollowFilter, Inside
<1> QED
  BY <1>2, <1>3, <1>4 DEF IInv

\* Both thread-locals are filled together, with a user the request presents.
LEMMA AuthenticateKeeps ==
    ASSUME IInv, NEW t \in Thread, Authenticate(t)
    PROVE  IInv'
<1>1. request[t].access \in Nat /\ request[t].cookie \in Nat
  BY DEF IInv, TypeOK
<1>2. TypeOK'
  BY <1>1 DEF Authenticate, Accept, IInv, TypeOK, Inside
<1>3. KeysHold' /\ IdsAreTaken' /\ TokensHaveUsers' /\ SentCodes'
  BY StoresStay DEF Authenticate, Accept, IInv, TypeOK
<1>4. CASE \E user \in {request[t].access, request[t].cookie} : Accept(t, user)
  <2>1. PICK user \in {request[t].access, request[t].cookie} : Accept(t, user)
    BY <1>4
  <2>2. \A s \in Thread : s # t =>
            /\ holder'[s] = holder[s] /\ context'[s] = context[s] /\ pc'[s] = pc[s]
            /\ s \in accepted' <=> s \in accepted
    BY <2>1 DEF Authenticate, Accept, IInv, TypeOK
  <2>3. /\ holder'[t] = user /\ context'[t] = user /\ pc'[t] = "authorize" /\ t \in accepted'
        /\ UNCHANGED <<request, traced>>
    BY <2>1 DEF Authenticate, Accept, IInv, TypeOK
  <2>4. LocalsFollowFilter'
    BY <2>1, <2>2, <2>3 DEF IInv, LocalsFollowFilter
  <2> QED
    BY <1>2, <1>3, <2>4 DEF IInv
<1>5. CASE UNCHANGED <<holder, context, accepted>>
  <2>1. LocalsFollowFilter'
    BY <1>5 DEF Authenticate, IInv, TypeOK, LocalsFollowFilter
  <2> QED
    BY <1>2, <1>3, <2>1 DEF IInv
<1> QED
  BY <1>4, <1>5 DEF Authenticate

\* The checks on the way to the handler, and steps that only end it.
LEMMA ChecksKeep ==
    ASSUME IInv, NEW t \in Thread,
           Authorize(t) \/ PreHandle(t) \/ PreHandleFails(t) \/ Handle(t) \/ HandlerFails(t)
    PROVE  IInv'
<1> USE DEF Authorize, PreHandle, PreHandleFails, Handle, HandlerFails
<1>1. TypeOK'
  BY DEF IInv, TypeOK, Inside
<1>2. KeysHold' /\ IdsAreTaken' /\ TokensHaveUsers' /\ SentCodes'
  BY StoresStay DEF IInv, TypeOK
<1>3. LocalsFollowFilter'
  BY DEF IInv, TypeOK, LocalsFollowFilter, Inside
<1> QED
  BY <1>1, <1>2, <1>3 DEF IInv

LEMMA SendCodeKeeps ==
    ASSUME IInv, NEW t \in Thread, NEW p \in Phone, NEW c \in Code, SendCode(t, p, c)
    PROVE  IInv'
<1>1. TypeOK'
  BY DEF SendCode, IInv, TypeOK, Inside
<1>2. KeysHold' /\ IdsAreTaken' /\ TokensHaveUsers'
  BY DEF SendCode, IInv, KeysHold, IdsAreTaken, TokensHaveUsers
<1>3. SentCodes'
  BY DEF SendCode, IInv, TypeOK, SentCodes
<1>4. LocalsFollowFilter'
  BY DEF SendCode, IInv, TypeOK, LocalsFollowFilter, Inside
<1> QED
  BY <1>1, <1>2, <1>3, <1>4 DEF IInv

\* A login that passes has presented a code that was sent to its phone.
LEMMA CheckCodeKeeps ==
    ASSUME IInv, NEW t \in Thread, NEW p \in Phone, NEW c \in Code, CheckCode(t, p, c)
    PROVE  IInv'
<1>1. TypeOK'
  BY DEF CheckCode, IInv, TypeOK, Inside
<1>2. KeysHold' /\ IdsAreTaken' /\ TokensHaveUsers'
  BY DEF CheckCode, IInv, KeysHold, IdsAreTaken, TokensHaveUsers
<1>3. SentCodes'
  BY CodeAssumption DEF CheckCode, IInv, TypeOK, SentCodes
<1>4. LocalsFollowFilter'
  BY DEF CheckCode, IInv, TypeOK, LocalsFollowFilter, Inside
<1> QED
  BY <1>1, <1>2, <1>3, <1>4 DEF IInv

LEMMA FindByPhoneKeeps ==
    ASSUME IInv, NEW t \in Thread, FindByPhone(t)
    PROVE  IInv'
<1>1. tokens' = tokens \/ \E user \in users : tokens' = tokens \cup {user.id}
  BY DEF FindByPhone, Issue, Registered
<1>2. TypeOK'
  BY <1>1 DEF FindByPhone, IInv, TypeOK, Inside
<1>3. KeysHold' /\ IdsAreTaken' /\ TokensHaveUsers'
  BY <1>1 DEF FindByPhone, IInv, KeysHold, IdsAreTaken, TokensHaveUsers
<1>4. SentCodes'
  BY DEF FindByPhone, IInv, TypeOK, SentCodes
<1>5. LocalsFollowFilter'
  BY DEF FindByPhone, IInv, TypeOK, LocalsFollowFilter, Inside
<1> QED
  BY <1>2, <1>3, <1>4, <1>5 DEF IInv

\* The new user has a new id and, by uk_user_phone, a new phone.
LEMMA CreateKeeps ==
    ASSUME IInv, NEW t \in Thread, CreateUserWithPhone(t)
    PROVE  IInv'
<1> DEFINE new == [id |-> nextId, phone |-> phone[t]]
<1>1. new \in [id : UserId, phone : Phone] /\ new.id = nextId /\ new.phone = phone[t]
  BY DEF IInv, TypeOK
<1>2. \/ /\ \A user \in users : user.phone # phone[t]
         /\ users' = users \cup {new}
         /\ tokens' \in {tokens, tokens \cup {new.id}}
      \/ UNCHANGED <<users, tokens>>
  BY DEF CreateUserWithPhone, Issue, Registered
<1>3. \E c \in Code : <<phone[t], c>> \in sent
  BY DEF CreateUserWithPhone, IInv, SentCodes
<1> HIDE DEF new
<1>4. TypeOK'
  <2>1. nextId' \in UserId
    BY DEF CreateUserWithPhone, IInv, TypeOK, UserId
  <2>2. tokens' \in SUBSET UserId /\ users' \in SUBSET [id : UserId, phone : Phone]
    BY <1>1, <1>2 DEF IInv, TypeOK
  <2> QED
    BY <2>1, <2>2 DEF CreateUserWithPhone, IInv, TypeOK, Inside
<1>5. IdsAreTaken'
  BY <1>1, <1>2 DEF CreateUserWithPhone, IInv, TypeOK, UserId, IdsAreTaken
<1>6. KeysHold'
  BY <1>1, <1>2 DEF IInv, TypeOK, UserId, IdsAreTaken, KeysHold
<1>7. TokensHaveUsers'
  BY <1>1, <1>2 DEF IInv, TokensHaveUsers
<1>8. SentCodes'
  BY <1>1, <1>2, <1>3 DEF CreateUserWithPhone, IInv, TypeOK, SentCodes
<1>9. LocalsFollowFilter'
  BY DEF CreateUserWithPhone, IInv, TypeOK, LocalsFollowFilter, Inside
<1> QED
  BY <1>4, <1>5, <1>6, <1>7, <1>8, <1>9 DEF IInv

LEMMA WayOutKeeps ==
    ASSUME IInv, NEW t \in Thread, AfterCompletion(t) \/ Leave(t)
    PROVE  IInv'
<1>1. TypeOK'
  BY SMTT(30) DEF AfterCompletion, Leave, IInv, TypeOK, Inside
<1>2. KeysHold' /\ IdsAreTaken' /\ TokensHaveUsers' /\ SentCodes'
  BY StoresStay DEF AfterCompletion, Leave, IInv, TypeOK
<1>3. LocalsFollowFilter'
  BY DEF AfterCompletion, Leave, IInv, TypeOK, LocalsFollowFilter, Inside
<1> QED
  BY <1>1, <1>2, <1>3 DEF IInv

LEMMA ExpireCodeKeeps ==
    ASSUME IInv, NEW p \in Phone, ExpireCode(p)
    PROVE  IInv'
<1>1. TypeOK'
  BY DEF ExpireCode, IInv, TypeOK
<1>2. KeysHold' /\ IdsAreTaken' /\ TokensHaveUsers' /\ LocalsFollowFilter'
  BY DEF ExpireCode, IInv, KeysHold, IdsAreTaken, TokensHaveUsers, LocalsFollowFilter
<1>3. SentCodes'
  BY DEF ExpireCode, IInv, TypeOK, SentCodes
<1> QED
  BY <1>1, <1>2, <1>3 DEF IInv

LEMMA StepKeeps == IInv /\ [Next]_vars => IInv'
<1> SUFFICES ASSUME IInv, [Next]_vars PROVE IInv'
  OBVIOUS
<1>1. CASE \E t \in Thread, path \in Path, access, refresh \in Header :
              Receive(t, path, access, refresh)
  BY <1>1, ReceiveKeeps
<1>2. CASE \E t \in Thread : Filter(t)
  BY <1>2, AuthenticateKeeps, ChecksKeep, WayOutKeeps DEF Filter
<1>3. CASE \E t \in Thread : PreHandle(t) \/ PreHandleFails(t) \/ Handle(t)
  BY <1>3, ChecksKeep
<1>4. CASE \E t \in Thread, p \in Phone, c \in Code : SendCode(t, p, c) \/ CheckCode(t, p, c)
  BY <1>4, SendCodeKeeps, CheckCodeKeeps
<1>5. CASE \E t \in Thread : Login(t)
  BY <1>5, FindByPhoneKeeps, CreateKeeps, ChecksKeep DEF Login
<1>6. CASE \E p \in Phone : ExpireCode(p)
  BY <1>6, ExpireCodeKeeps
<1>7. CASE UNCHANGED vars
  BY <1>7 DEF vars, IInv, TypeOK, KeysHold, IdsAreTaken, TokensHaveUsers, SentCodes,
              LocalsFollowFilter
<1> QED
  BY <1>1, <1>2, <1>3, <1>4, <1>5, <1>6, <1>7 DEF Next

\* The invariant is inductive: every filter, interceptor and handler step and
\* every expiring code keeps it.
THEOREM Invariance == Spec => []IInv
<1> QED
  BY InitIInv, StepKeeps, PTL DEF Spec

\* A thread goes back to the pool without a user, an authentication or a traceId,
\* however its request ended.
THEOREM CleanThreads == Spec => []NothingIsLeftBehind
<1>1. IInv => NothingIsLeftBehind
  BY DEF IInv, LocalsFollowFilter, NothingIsLeftBehind
<1> QED
  BY <1>1, Invariance, PTL

\* UserHolder, read in a handler, is a user of a token of this very request, and
\* it is not null in the handlers that rely on it.
THEOREM OwnRequest == Spec => []ActsForItsCaller
<1>1. IInv => ActsForItsCaller
  BY DEF IInv, LocalsFollowFilter, ActsForItsCaller, Excluded
<1> QED
  BY <1>1, Invariance, PTL

\* A token's user is the only one of a phone that was sent a code.
THEOREM EarnedTokens == Spec => []TokensAreEarned
<1>1. IInv => TokensAreEarned
  BY DEF IInv, TokensHaveUsers, SentCodes, KeysHold, TokensAreEarned
<1> QED
  BY <1>1, Invariance, PTL

\* Every variable keeps to its set; no user has the id that stands for nobody.
THEOREM Typing == Spec => []TypeOK
<1>1. IInv => TypeOK
  BY DEF IInv
<1> QED
  BY <1>1, Invariance, PTL

HIDE DEF localVars, storeVars, historyVars

USE BrowserAssumption, NoThreadAssumption

----------------------------------------------------------------------------
(* FrontEnd implements Account *)

LEMMA ServerIsNext == Server => Next
  BY DEF Server, Pass, Refuse, Intercept, Run, Code_, Check, SignIn, Next, Filter, Login

LEMMA SendIsNext ==
    ASSUME FrontInv, NEW tab \in Tab, NEW t \in Thread, NEW path \in Path, Send(tab, t, path)
    PROVE  Next
<1>1. token[tab] \in Header /\ cookie[BrowserOf[tab]] \in Header
  BY DEF FrontInv, HeldIsOwn, Own, Header
<1> QED
  BY <1>1 DEF Send, Next

LEMMA FrontIsNext ==
    ASSUME FrontInv, [FrontNext]_allVars
    PROVE  [Next]_vars
<1>1. CASE Server
  BY <1>1, ServerIsNext
<1>2. ASSUME NEW tab \in Tab, Page(tab) PROVE [Next]_vars
  BY <1>2, SendIsNext DEF Page, Fulfil, LoggedIn, Reject, TimeOut, Navigate, Reopen
<1>3. CASE UNCHANGED allVars
  BY <1>3 DEF allVars
<1> QED
  BY <1>1, <1>2, <1>3 DEF FrontNext

----------------------------------------------------------------------------
(* The server's answers *)

\* What an answer of t may say.
GoodAnswer(t, r) ==
    /\ r \in Reply
    /\ r.login \in {NoUser} \cup tokens'
    /\ r.login # NoUser => r.what = "ok"
    /\ r.what = "ok" /\ r.login = NoUser /\ request[t].path = "own"
          => r.ran # NoUser /\ r.ran \in {request[t].access, request[t].cookie}

LEMMA RefusalsAreGood ==
    ASSUME NEW t, NEW what \in {"fail", "unauthorized", "error"}
    PROVE  GoodAnswer(t, Refusal(what))
  BY DEF GoodAnswer, Refusal, Nothing, Reply

\* A handler that runs for "own" runs for the user of the request.
LEMMA RunIsGood ==
    ASSUME IInv, NEW t \in Thread, pc[t] = "handle"
    PROVE  GoodAnswer(t, Ok(NoUser, holder[t]))
<1>1. holder[t] \in Nat
  BY DEF IInv, TypeOK
<1>2. request[t].path = "own"
        => holder[t] # NoUser /\ holder[t] \in {request[t].access, request[t].cookie}
  BY DEF IInv, LocalsFollowFilter, Inside, Excluded
<1> QED
  BY <1>1, <1>2 DEF GoodAnswer, Ok, Reply

LEMMA LoginIsGood ==
    ASSUME IInv, IInv', NEW t \in Thread, NEW user, user \in users \/ user \in users',
           user.id \in tokens'
    PROVE  GoodAnswer(t, Ok(user.id, holder[t]))
<1>1. holder[t] \in Nat /\ user.id \in Nat /\ user.id # NoUser
  BY DEF IInv, TypeOK, UserId
<1> QED
  BY <1>1 DEF GoodAnswer, Ok, Reply

\* What a thread does to the answers.
ServerAnswers(t) == reply' = reply \/ \E r : GoodAnswer(t, r) /\ Answers(t, r)

LEMMA ServerMoves ==
    ASSUME IInv, Server
    PROVE  request' = request /\ (reply' = reply \/ \E t \in Thread : ServerAnswers(t))
<1> USE DEF ServerAnswers
<1>0. IInv'
  BY ServerIsNext, StepKeeps
<1>1. request' = request
  BY DEF Server, Pass, Refuse, Intercept, Run, Code_, Check, SignIn, Authenticate, Authorize,
         PreHandle, PreHandleFails, Handle, SendCode, CheckCode, FindByPhone,
         CreateUserWithPhone, HandlerFails, AfterCompletion, Leave, ExpireCode
<1>2. ASSUME NEW t \in Thread, Pass(t) \/ Refuse(t) \/ Intercept(t) PROVE ServerAnswers(t)
  BY <1>2, RefusalsAreGood DEF Pass, Refuse, Intercept
<1>3. ASSUME NEW t \in Thread, Run(t) PROVE ServerAnswers(t)
  BY <1>3, RefusalsAreGood, RunIsGood DEF Run, Handle
<1>4. ASSUME NEW t \in Thread, NEW p \in Phone, NEW c \in Code, Code_(t, p, c) \/ Check(t, p, c)
      PROVE  ServerAnswers(t)
  BY <1>4, RefusalsAreGood, RunIsGood DEF Code_, Check, SendCode
<1>5. ASSUME NEW t \in Thread, NEW user, user \in users \/ user \in users', Issued(t, user)
      PROVE  ServerAnswers(t)
  BY <1>0, <1>5, RefusalsAreGood, LoginIsGood DEF Issued
<1>6. ASSUME NEW t \in Thread, SignIn(t) PROVE ServerAnswers(t)
  BY <1>5, <1>6, RefusalsAreGood DEF SignIn, Registered
<1> QED
  BY <1>1, <1>2, <1>3, <1>4, <1>6 DEF Server

----------------------------------------------------------------------------
(* The invariant *)

LEMMA FrontInitInv == FrontInit => FrontInv
<1> SUFFICES ASSUME FrontInit PROVE FrontInv
  OBVIOUS
<1>1. IInv
  BY InitIInv DEF FrontInit
<1>2. FrontTypeOK
  BY DEF FrontInit, FrontTypeOK, Pages, Reply, Nothing, Shown, Blank, Path
<1>3. HeldIsOwn /\ CallsAreOwn
  BY DEF FrontInit, HeldIsOwn, CallsAreOwn, Own
<1>4. AnswersAreTrue
  BY DEF FrontInit, AnswersAreTrue, Nothing
<1>5. DoneForItsBrowser
  BY DEF FrontInit, DoneForItsBrowser, Blank
<1> QED
  BY <1>1, <1>2, <1>3, <1>4, <1>5 DEF FrontInv

\* Tokens that were issued stay issued.
LEMMA TokensGrow ==
    ASSUME [Next]_vars
    PROVE  tokens \subseteq tokens'
  BY DEF Next, vars, storeVars, Receive, Filter, Authenticate, Authorize, PreHandle,
         PreHandleFails, Handle, SendCode, CheckCode, Login, FindByPhone, Issue,
         CreateUserWithPhone, HandlerFails, AfterCompletion, Leave, ExpireCode

LEMMA ServerKeeps ==
    ASSUME FrontInv, Server, UNCHANGED tabVars
    PROVE  FrontInv'
<1>1. IInv' /\ tokens \subseteq tokens'
  BY ServerIsNext, StepKeeps, TokensGrow DEF FrontInv
<1>2. request' = request /\ (reply' = reply \/ \E t \in Thread : ServerAnswers(t))
  BY ServerMoves DEF FrontInv
<1>3. \A browser : Own(browser) \subseteq Own(browser)'
  BY <1>1 DEF Own, tabVars
<1>4. ASSUME NEW t \in Thread, NEW r, GoodAnswer(t, r), Answers(t, r)
      PROVE  FrontTypeOK' /\ AnswersAreTrue'
  <2>1. \A s \in Thread : reply'[s] =
            IF s = t THEN IF \E tab \in Tab : call[tab] = t THEN r ELSE Nothing ELSE reply[s]
    BY <1>4 DEF Answers, FrontInv, FrontTypeOK
  <2>2. Nothing \in Reply /\ Nothing.what = "none" /\ Nothing.login = NoUser
    BY DEF Nothing, Reply
  <2>3. FrontTypeOK'
    BY <1>4, <2>1, <2>2 DEF Answers, GoodAnswer, FrontInv, FrontTypeOK, tabVars
  <2>4. AnswersAreTrue'
    BY <1>1, <1>2, <1>4, <2>1, <2>2 DEF GoodAnswer, FrontInv, AnswersAreTrue, tabVars
  <2> QED
    BY <2>3, <2>4
<1>5. FrontTypeOK' /\ AnswersAreTrue'
  <2>1. CASE reply' = reply
    BY <1>1, <1>2, <2>1 DEF FrontInv, FrontTypeOK, AnswersAreTrue, tabVars
  <2> QED
    BY <1>2, <1>4, <2>1 DEF ServerAnswers
<1>6. HeldIsOwn'
  BY <1>3 DEF FrontInv, FrontTypeOK, HeldIsOwn, tabVars
<1>7. CallsAreOwn'
  BY <1>2, <1>3 DEF FrontInv, CallsAreOwn, tabVars
<1>8. DoneForItsBrowser'
  BY DEF FrontInv, DoneForItsBrowser, tabVars
<1> QED
  BY <1>1, <1>5, <1>6, <1>7, <1>8 DEF FrontInv

LEMMA SendKeeps ==
    ASSUME FrontInv, NEW tab \in Tab, NEW t \in Thread, NEW path \in Path, Send(tab, t, path)
    PROVE  FrontInv'
<1>1. IInv' /\ tokens' = tokens
  BY SendIsNext, StepKeeps DEF FrontInv, Send, Receive, storeVars
<1>2. \A browser : Own(browser)' = Own(browser)
  BY <1>1 DEF Own, Send
<1>3. FrontTypeOK'
  BY DEF FrontInv, FrontTypeOK, Send, Blank, Shown, Path
<1>4. HeldIsOwn'
  BY <1>2 DEF FrontInv, HeldIsOwn, Send
<1>5. /\ \A s \in Thread : s # t => request'[s] = request[s]
      /\ request'[t].access = token[tab] /\ request'[t].cookie = cookie[BrowserOf[tab]]
  BY DEF FrontInv, IInv, TypeOK, Send, Receive
<1>6. \A other \in Tab : call[other] # t /\ call'[other] = IF other = tab THEN t ELSE call[other]
  BY DEF FrontInv, FrontTypeOK, Send
<1>7. CallsAreOwn'
  <2> SUFFICES ASSUME NEW u \in Tab, call'[u] # NoThread
               PROVE  /\ \A other \in Tab : call'[other] = call'[u] => other = u
                      /\ {request'[call'[u]].access, request'[call'[u]].cookie}
                            \subseteq Own(BrowserOf[u])'
    BY DEF CallsAreOwn
  <2>1. CASE u = tab
    BY <1>2, <1>5, <1>6, <2>1 DEF FrontInv, HeldIsOwn
  <2>2. CASE u # tab
    <3>1. call'[u] = call[u] /\ call[u] \in Thread /\ call[u] # t
      BY <1>6, <2>2 DEF FrontInv, FrontTypeOK
    <3> QED
      BY <1>2, <1>5, <1>6, <2>2, <3>1 DEF FrontInv, CallsAreOwn
  <2> QED
    BY <2>1, <2>2
<1>8. AnswersAreTrue'
  <2>1. reply[t].what = "none"
    BY <1>6 DEF FrontInv, AnswersAreTrue
  <2>2. reply' = reply
    BY DEF Send
  <2>3. \A s \in Thread : reply[s].what # "none" => \E u \in Tab : call'[u] = s
    <3>1. ASSUME NEW s \in Thread, reply[s].what # "none" PROVE \E u \in Tab : call'[u] = s
      <4>1. PICK u \in Tab : call[u] = s
        BY <3>1 DEF FrontInv, AnswersAreTrue
      <4>2. u # tab
        BY <4>1 DEF Send
      <4> QED
        BY <1>6, <4>1, <4>2
    <3> QED
      BY <3>1
  <2> QED
    BY <1>1, <1>5, <2>1, <2>2, <2>3 DEF FrontInv, AnswersAreTrue
<1>9. DoneForItsBrowser'
  BY DEF FrontInv, FrontTypeOK, DoneForItsBrowser, Send, Blank
<1> QED
  BY <1>1, <1>3, <1>4, <1>7, <1>8, <1>9 DEF FrontInv

\* A call that is over takes its answer with it.
LEMMA EndsKeeps ==
    ASSUME FrontInv, NEW tab \in Tab, Ends(tab), UNCHANGED <<request, tokens>>,
           \A browser \in Browser : signedIn[browser] \subseteq signedIn'[browser]
    PROVE  /\ \A browser \in Browser : Own(browser) \subseteq Own(browser)'
           /\ call' \in [Tab -> Thread \cup {NoThread}] /\ reply' \in [Thread -> Reply]
           /\ CallsAreOwn' /\ AnswersAreTrue'
<1>1. \A browser \in Browser : Own(browser) \subseteq Own(browser)'
  BY DEF Own
<1>2. Nothing \in Reply /\ Nothing.what = "none" /\ Nothing.login = NoUser
  BY DEF Nothing, Reply
<1>3. call' \in [Tab -> Thread \cup {NoThread}] /\ reply' \in [Thread -> Reply]
  BY <1>2 DEF FrontInv, FrontTypeOK, Ends
<1>4. \A u \in Tab : call'[u] = IF u = tab THEN NoThread ELSE call[u]
  BY DEF FrontInv, FrontTypeOK, Ends
<1>5. CallsAreOwn'
  BY <1>1, <1>4 DEF FrontInv, CallsAreOwn
<1>6. ASSUME NEW t \in Thread, reply'[t].what # "none" PROVE \E u \in Tab : call'[u] = t
  <2>1. t # call[tab] /\ reply[t].what # "none"
    BY <1>2, <1>6 DEF Ends
  <2> QED
    BY <1>4, <2>1 DEF FrontInv, AnswersAreTrue
<1>7. AnswersAreTrue'
  BY <1>2, <1>6 DEF FrontInv, AnswersAreTrue, Ends
<1> QED
  BY <1>1, <1>3, <1>5, <1>7

\* The cookie of an answer was made for a login of this browser.
LEMMA TakeCookieKeeps ==
    ASSUME FrontInv, NEW tab \in Tab, NEW t \in Thread, reply[t].login # NoUser,
           TakeCookie(tab, reply[t].login), tokens' = tokens
    PROVE  /\ cookie' \in [Browser -> Nat] /\ signedIn' \in [Browser -> SUBSET Nat]
           /\ \A browser \in Browser : signedIn[browser] \subseteq signedIn'[browser]
           /\ \A browser \in Browser : cookie'[browser] \in Own(browser)'
           /\ reply[t].login \in Own(BrowserOf[tab])'
<1>1. reply[t].login \in tokens /\ reply[t].login \in Nat /\ BrowserOf[tab] \in Browser
  BY DEF FrontInv, AnswersAreTrue, IInv, TypeOK, UserId
<1>2. /\ cookie' \in [Browser -> Nat] /\ signedIn' \in [Browser -> SUBSET Nat]
      /\ \A browser \in Browser : signedIn[browser] \subseteq signedIn'[browser]
  BY <1>1 DEF TakeCookie, FrontInv, FrontTypeOK
<1>3. reply[t].login \in Own(BrowserOf[tab])'
  BY <1>1 DEF TakeCookie, Own, FrontInv, FrontTypeOK
<1>4. ASSUME NEW browser \in Browser PROVE cookie'[browser] \in Own(browser)'
  <2>1. CASE browser = BrowserOf[tab]
    BY <1>3, <2>1 DEF TakeCookie, FrontInv, FrontTypeOK
  <2>2. CASE browser # BrowserOf[tab]
    BY <2>2 DEF TakeCookie, FrontInv, FrontTypeOK, HeldIsOwn, Own
  <2> QED
    BY <2>1, <2>2
<1> QED
  BY <1>2, <1>3, <1>4

LEMMA GiveUpKeeps ==
    ASSUME FrontInv, NEW tab \in Tab, GiveUp(tab), UNCHANGED vars
    PROVE  /\ \A browser \in Browser : Own(browser) \subseteq Own(browser)'
           /\ \A browser \in Browser : signedIn[browser] \subseteq signedIn'[browser]
           /\ call' \in [Tab -> Thread \cup {NoThread}] /\ reply' \in [Thread -> Reply]
           /\ cookie' \in [Browser -> Nat] /\ signedIn' \in [Browser -> SUBSET Nat]
           /\ \A browser \in Browser : cookie'[browser] \in Own(browser)'
           /\ CallsAreOwn' /\ AnswersAreTrue'
<1>0. Ends(tab) /\ UNCHANGED <<request, tokens>>
  BY DEF GiveUp, vars, storeVars
<1>1. /\ \A browser \in Browser : signedIn[browser] \subseteq signedIn'[browser]
      /\ cookie' \in [Browser -> Nat] /\ signedIn' \in [Browser -> SUBSET Nat]
      /\ \A browser \in Browser : cookie'[browser] \in Own(browser)'
  <2>1. CASE UNCHANGED <<cookie, signedIn>>
    BY <1>0, <2>1 DEF FrontInv, FrontTypeOK, HeldIsOwn, Own
  <2>2. CASE \E t \in Thread :
              t = call[tab] /\ reply[t].login # NoUser /\ TakeCookie(tab, reply[t].login)
    BY <1>0, <2>2, TakeCookieKeeps
  <2> QED
    BY <2>1, <2>2 DEF GiveUp
<1> QED
  BY <1>0, <1>1, EndsKeeps

\* What a tab may do when its call is over without a login.
LEMMA OverKeeps ==
    ASSUME FrontInv, NEW tab \in Tab, GiveUp(tab), UNCHANGED vars,
           storage' \in {storage, [storage EXCEPT ![tab] = NoUser]},
           token' \in {token, [token EXCEPT ![tab] = NoUser], [token EXCEPT ![tab] = storage[tab]]},
           page' = page \/ \E to \in Pages : page' = [page EXCEPT ![tab] = to],
           \/ shown' \in {shown, [shown EXCEPT ![tab] = Blank]}
           \/ \E done \in Shown :
                /\ shown' = [shown EXCEPT ![tab] = done]
                /\ done.path = "own" => done.ran \in signedIn[BrowserOf[tab]]
    PROVE  FrontInv'
<1>0. /\ \A browser \in Browser : Own(browser) \subseteq Own(browser)'
      /\ \A browser \in Browser : signedIn[browser] \subseteq signedIn'[browser]
      /\ call' \in [Tab -> Thread \cup {NoThread}] /\ reply' \in [Thread -> Reply]
      /\ cookie' \in [Browser -> Nat] /\ signedIn' \in [Browser -> SUBSET Nat]
      /\ \A browser \in Browser : cookie'[browser] \in Own(browser)'
      /\ CallsAreOwn' /\ AnswersAreTrue'
  BY GiveUpKeeps
<1>1. IInv'
  BY StepKeeps DEF FrontInv
<1>2. storage' \in [Tab -> Nat] /\ token' \in [Tab -> Nat]
  BY DEF FrontInv, FrontTypeOK
<1>3. page' \in [Tab -> Pages] /\ shown' \in [Tab -> Shown]
  <2>1. Blank \in Shown
    BY DEF Blank, Shown, Path
  <2>2. page \in [Tab -> Pages] /\ shown \in [Tab -> Shown]
    BY DEF FrontInv, FrontTypeOK
  <2>3. page' \in [Tab -> Pages]
    BY <2>2
  <2>4. shown' \in [Tab -> Shown]
    BY <2>1, <2>2
  <2> QED
    BY <2>3, <2>4
<1>4. FrontTypeOK'
  BY <1>0, <1>2, <1>3 DEF FrontTypeOK
<1>5. \A u \in Tab : {storage'[u], token'[u]} \subseteq {NoUser, storage[u], token[u]}
  BY DEF FrontInv, FrontTypeOK
<1>6. HeldIsOwn'
  <2>1. \A u \in Tab : {storage'[u], token'[u]} \subseteq Own(BrowserOf[u])
    BY <1>5 DEF FrontInv, HeldIsOwn, Own
  <2>2. \A u \in Tab : {storage'[u], token'[u]} \subseteq Own(BrowserOf[u])'
    BY <1>0, <2>1
  <2> QED
    BY <1>0, <2>2 DEF HeldIsOwn
<1>7. \A u \in Tab : shown'[u].path = "own" => shown'[u].ran \in signedIn[BrowserOf[u]]
  BY DEF FrontInv, FrontTypeOK, DoneForItsBrowser, Blank
<1>8. DoneForItsBrowser'
  BY <1>0, <1>7 DEF DoneForItsBrowser
<1> QED
  BY <1>0, <1>1, <1>4, <1>6, <1>8 DEF FrontInv

\* What a page reports as done, its thread has done for a user of this browser.
LEMMA FulfilKeeps ==
    ASSUME FrontInv, NEW tab \in Tab, Fulfil(tab)
    PROVE  FrontInv'
<1>1. PICK t \in Thread :
        /\ t = call[tab]
        /\ reply[t].what = "ok" /\ reply[t].login = NoUser
        /\ shown' = [shown EXCEPT ![tab] = [path |-> request[t].path, ran |-> reply[t].ran]]
        /\ Ends(tab)
        /\ UNCHANGED <<vars, storage, token, cookie, page, signedIn>>
  BY DEF Fulfil
<1> DEFINE done == [path |-> request[t].path, ran |-> reply[t].ran]
<1>2. done \in Shown
  BY DEF FrontInv, IInv, TypeOK, FrontTypeOK, Reply, Shown
<1>3. request[t].path = "own" => reply[t].ran \in signedIn[BrowserOf[tab]]
  BY <1>1 DEF FrontInv, AnswersAreTrue, CallsAreOwn, Own
<1>4. GiveUp(tab)
  BY <1>1 DEF GiveUp
<1> QED
  BY <1>1, <1>2, <1>3, <1>4, OverKeeps

LEMMA LoggedInKeeps ==
    ASSUME FrontInv, NEW tab \in Tab, LoggedIn(tab)
    PROVE  FrontInv'
<1>1. PICK t \in Thread :
        /\ t = call[tab] /\ reply[t].login # NoUser
        /\ storage' = [storage EXCEPT ![tab] = reply[t].login]
        /\ token' = [token EXCEPT ![tab] = reply[t].login]
        /\ page' = [page EXCEPT ![tab] = "other"]
        /\ shown' = [shown EXCEPT ![tab] = Blank]
        /\ TakeCookie(tab, reply[t].login)
        /\ Ends(tab)
        /\ UNCHANGED vars
  BY DEF LoggedIn
<1>2. UNCHANGED <<request, tokens>>
  BY <1>1 DEF vars, storeVars
<1>3. /\ cookie' \in [Browser -> Nat] /\ signedIn' \in [Browser -> SUBSET Nat]
      /\ \A browser \in Browser : signedIn[browser] \subseteq signedIn'[browser]
      /\ \A browser \in Browser : cookie'[browser] \in Own(browser)'
      /\ reply[t].login \in Own(BrowserOf[tab])'
  BY <1>1, <1>2, TakeCookieKeeps
<1>4. /\ \A browser \in Browser : Own(browser) \subseteq Own(browser)'
      /\ call' \in [Tab -> Thread \cup {NoThread}] /\ reply' \in [Thread -> Reply]
      /\ CallsAreOwn' /\ AnswersAreTrue'
  BY <1>1, <1>2, <1>3, EndsKeeps
<1>5. IInv'
  BY <1>1, StepKeeps DEF FrontInv
<1>6. reply[t].login \in Nat
  BY DEF FrontInv, FrontTypeOK, Reply
<1>7. FrontTypeOK'
  <2>1. storage' \in [Tab -> Nat] /\ token' \in [Tab -> Nat]
    BY <1>1, <1>6 DEF FrontInv, FrontTypeOK
  <2>2. page' \in [Tab -> Pages] /\ shown' \in [Tab -> Shown]
    BY <1>1 DEF FrontInv, FrontTypeOK, Pages, Blank, Shown, Path
  <2> QED
    BY <1>3, <1>4, <2>1, <2>2 DEF FrontTypeOK
<1>8. HeldIsOwn'
  <2>1. ASSUME NEW u \in Tab PROVE {storage'[u], token'[u]} \subseteq Own(BrowserOf[u])'
    <3>1. CASE u = tab
      BY <1>1, <1>3, <3>1 DEF FrontInv, FrontTypeOK
    <3>2. CASE u # tab
      <4>1. storage'[u] = storage[u] /\ token'[u] = token[u]
        BY <1>1, <3>2 DEF FrontInv, FrontTypeOK
      <4> QED
        BY <1>4, <4>1 DEF FrontInv, HeldIsOwn
    <3> QED
      BY <3>1, <3>2
  <2> QED
    BY <1>3, <2>1 DEF HeldIsOwn
<1>9. DoneForItsBrowser'
  BY <1>1, <1>3 DEF FrontInv, FrontTypeOK, DoneForItsBrowser, Blank
<1> QED
  BY <1>4, <1>5, <1>7, <1>8, <1>9 DEF FrontInv

LEMMA PageKeeps ==
    ASSUME FrontInv, NEW tab \in Tab, Page(tab)
    PROVE  FrontInv'
<1>1. CASE Reject(tab)
  BY <1>1, OverKeeps DEF Reject, GiveUp
<1>2. CASE TimeOut(tab)
  BY <1>2, OverKeeps DEF TimeOut
<1>3. ASSUME NEW to \in Pages, Navigate(tab, to) PROVE FrontInv'
  BY <1>3, OverKeeps DEF Navigate
<1>4. CASE Reopen(tab)
  BY <1>4, OverKeeps DEF Reopen, Pages
<1> QED
  BY <1>1, <1>2, <1>3, <1>4, SendKeeps, FulfilKeeps, LoggedInKeeps DEF Page

LEMMA FrontStepKeeps == FrontInv /\ [FrontNext]_allVars => FrontInv'
<1> SUFFICES ASSUME FrontInv, [FrontNext]_allVars PROVE FrontInv'
  OBVIOUS
<1>1. CASE UNCHANGED allVars
  <2>1. IInv'
    BY <1>1, StepKeeps DEF FrontInv, allVars
  <2> QED
    BY <1>1, <2>1
    DEF FrontInv, allVars, vars, storeVars, tabVars, FrontTypeOK, HeldIsOwn, Own, CallsAreOwn,
        AnswersAreTrue, DoneForItsBrowser
<1> QED
  BY <1>1, ServerKeeps, PageKeeps DEF FrontNext

----------------------------------------------------------------------------
(* The theorems *)

\* Whatever tabs, timeouts, reloads and shared cookies do, tokens stay within the
\* browser that was given them and answers within the tab that asked.
THEOREM FrontInvariance == FrontSpec => []FrontInv
<1> QED
  BY FrontInitInv, FrontStepKeeps, PTL DEF FrontSpec

\* With the browser in front of it the server is still Account: the tokens that
\* requests come with are such as Account allows for, so that its theorems hold.
THEOREM FrontImplementsAccount == FrontSpec => Spec
<1>1. FrontInit => Init
  BY DEF FrontInit
<1>2. FrontInv /\ [FrontNext]_allVars => [Next]_vars
  BY FrontIsNext
<1> QED
  BY <1>1, <1>2, FrontInvariance, PTL DEF FrontSpec, Spec

\* An order or a blog that a page reports as done was done for a user who has
\* logged in in this browser, through filters, interceptors and timeouts.
THEOREM DoneForOneself == FrontSpec => []DoneForItsBrowser
<1>1. FrontInv => DoneForItsBrowser
  BY DEF FrontInv
<1> QED
  BY <1>1, FrontInvariance, PTL

\* What the server promises, seen through the browser: clean threads, the user of
\* the request in UserHolder, and tokens that were earned.
THEOREM AccountHoldsInFront ==
    FrontSpec => [](NothingIsLeftBehind /\ ActsForItsCaller /\ TokensAreEarned)
<1> QED
  BY FrontImplementsAccount, CleanThreads, OwnRequest, EarnedTokens, PTL
=============================================================================

------------------------------- MODULE Account ------------------------------
(***************************************************************************)
(* Logins and requests: UserServiceImpl with its verification codes and    *)
(* its find-or-create of users, and the way of every HTTP request through  *)
(* TraceIdFilter, JwtAuthenticationFilter, the rules of SecurityConfig and *)
(* the two interceptors of MvcConfig, on a pool of threads.                *)
(*                                                                         *)
(* The user of a request is kept in two thread-locals, UserHolder and      *)
(* SecurityContextHolder, which outlive the request unless cleared.  The   *)
(* filter of Spring Security that clears the second one again is left out: *)
(* the program's own code has to do.                                       *)
(*                                                                         *)
(* A token is abstracted to the user id in it, a missing or unreadable one *)
(* to NoUser.  A token may be found expired at any time.                   *)
(***************************************************************************)
EXTENDS Integers, FiniteSets

CONSTANTS
    Phone,          \* valid phone numbers
    Code,           \* verification codes
    NoCode,         \* no code is cached
    Thread,         \* the HTTP threads
    MaxRequests,    \* bound on the number of requests
    MayFail         \* whether MySQL and Redis may fail

ASSUME CodeAssumption == NoCode \notin Code
ASSUME BoundsAssumption == MaxRequests \in Nat
ASSUME FailAssumption == MayFail \in BOOLEAN

VARIABLES
    users,      \* tb_user
    nextId,     \* its AUTO_INCREMENT
    codes,      \* login:code:<phone>
    tokens,     \* the ids for which JWTs have been handed out
    holder,     \* UserHolder
    context,    \* SecurityContextHolder
    traced,     \* the threads with a traceId in their MDC
    accepted,   \* the threads whose filter has set authenticated
    pc,         \* where the request of a thread is
    request,    \* its path and tokens
    phone,      \* the phone of a login
    sent,       \* history: the codes sent to phones
    requests    \* number of requests so far

localVars == <<holder, context, traced, accepted>>
storeVars == <<users, nextId, codes, tokens>>
historyVars == <<sent, requests>>

vars == <<storeVars, localVars, pc, request, phone, historyVars>>

NoUser == 0

\* Kinds of paths: /user/code, /user/login, POST /voucher/seckill, reads such as
\* /shop and /blog/hot, pages, and the calls that ask UserHolder for the user
\* (seckill orders and blogs).
Path == {"code", "login", "voucher", "shop", "page", "own"}

\* authorizeHttpRequests: permitAll, or ignored altogether.
Permitted == {"code", "login", "voucher", "page"}

\* excludePathPatterns of LoginInterceptor.
Excluded == {"code", "login", "voucher", "shop"}

----------------------------------------------------------------------------
(* The filters on the way in *)

Receive(t, path, access, cookie) ==
    /\ pc[t] = "idle"
    /\ requests < MaxRequests
    /\ requests' = requests + 1
    /\ pc' = [pc EXCEPT ![t] = "filter"]
    /\ request' = [request EXCEPT ![t] = [path |-> path, access |-> access, cookie |-> cookie]]
    /\ traced' = traced \cup {t}
    /\ UNCHANGED <<storeVars, holder, context, accepted, phone, sent>>

\* accept: both thread-locals get the user of the token.
Accept(t, user) ==
    /\ user # NoUser
    /\ context' = [context EXCEPT ![t] = user]
    /\ holder' = [holder EXCEPT ![t] = user]
    /\ accepted' = accepted \cup {t}

\* doFilterInternal up to the chain.  The access token counts if it is valid; if
\* it has expired, the refresh cookie does, if it is valid and a new access token
\* can be made from it; in every other case nobody is logged in.
Authenticate(t) ==
    /\ pc[t] = "filter"
    /\ pc' = [pc EXCEPT ![t] = "authorize"]
    /\ \/ Accept(t, request[t].access)
       \/ request[t].access # NoUser /\ Accept(t, request[t].cookie)
       \/ UNCHANGED <<holder, context, accepted>>
    /\ UNCHANGED <<storeVars, traced, request, phone, historyVars>>

\* The rules of SecurityConfig: on to the interceptors, or the entry point answers.
Authorize(t) ==
    /\ pc[t] = "authorize"
    /\ pc' = [pc EXCEPT ![t] =
                IF request[t].path \in Permitted \/ context[t] # NoUser THEN "intercept" ELSE "leave"]
    /\ UNCHANGED <<storeVars, localVars, request, phone, historyVars>>

\* RefreshTokenInterceptor asks Redis for a hash that nothing writes, and passes.
\* LoginInterceptor turns away who has no user, which completes the request.
PreHandle(t) ==
    /\ pc[t] = "intercept"
    /\ pc' = [pc EXCEPT ![t] =
                IF request[t].path \in Excluded \/ holder[t] # NoUser THEN "handle" ELSE "complete"]
    /\ UNCHANGED <<storeVars, localVars, request, phone, historyVars>>

\* Redis fails in RefreshTokenInterceptor, whose afterCompletion is then not called.
PreHandleFails(t) ==
    /\ MayFail
    /\ pc[t] = "intercept"
    /\ request[t].access # NoUser
    /\ pc' = [pc EXCEPT ![t] = "leave"]
    /\ UNCHANGED <<storeVars, localVars, request, phone, historyVars>>

----------------------------------------------------------------------------
(* The handlers *)

\* A handler that leaves users and codes alone, or refuses its input.
Handle(t) ==
    /\ pc[t] = "handle"
    /\ pc' = [pc EXCEPT ![t] = "complete"]
    /\ UNCHANGED <<storeVars, localVars, request, phone, historyVars>>

\* sendCode: a code replaces the one before.  SET may fail after its effect.
SendCode(t, p, c) ==
    /\ pc[t] = "handle"
    /\ request[t].path = "code"
    /\ codes' = [codes EXCEPT ![p] = c]
    /\ sent' = sent \cup {<<p, c>>}
    /\ pc' = [pc EXCEPT ![t] = "complete"]
    /\ UNCHANGED <<users, nextId, tokens, localVars, request, phone, requests>>

\* Mutant of CheckCode: the code of the form is compared with those of all phones.
CheckAnyCode(t, p, c) ==
    /\ pc[t] = "handle"
    /\ request[t].path = "login"
    /\ phone' = [phone EXCEPT ![t] = p]
    /\ pc' = [pc EXCEPT ![t] = IF \E q \in Phone : codes[q] = c THEN "find" ELSE "complete"]
    /\ UNCHANGED <<storeVars, localVars, request, historyVars>>

\* login: GET the code of the phone and compare.  The code stays.
CheckCode(t, p, c) ==
    /\ pc[t] = "handle"
    /\ request[t].path = "login"
    /\ phone' = [phone EXCEPT ![t] = p]
    /\ pc' = [pc EXCEPT ![t] = IF codes[p] = c THEN "find" ELSE "complete"]
    /\ UNCHANGED <<storeVars, localVars, request, historyVars>>

\* The answer carries tokens for a user, unless it is lost.
Issue(user) ==
    \/ tokens' = tokens \cup {user.id}
    \/ MayFail /\ UNCHANGED tokens

Registered(p) == {user \in users : user.phone = p}

\* findByPhone: the user's tokens, or on to createUserWithPhone.
FindByPhone(t) ==
    /\ pc[t] = "find"
    /\ IF Registered(phone[t]) = {}
       THEN /\ pc' = [pc EXCEPT ![t] = "create"]
            /\ UNCHANGED tokens
       ELSE /\ pc' = [pc EXCEPT ![t] = "complete"]
            /\ \E user \in Registered(phone[t]) : Issue(user)
    /\ UNCHANGED <<users, nextId, codes, localVars, request, phone, historyVars>>

\* Mutant of CreateUserWithPhone: tb_user has no unique key.
CreateUnchecked(t) ==
    /\ pc[t] = "create"
    /\ pc' = [pc EXCEPT ![t] = "complete"]
    /\ nextId' = nextId + 1
    /\ LET user == [id |-> nextId, phone |-> phone[t]] IN
            users' = users \cup {user} /\ Issue(user)
    /\ UNCHANGED <<codes, localVars, request, phone, historyVars>>

\* createUserWithPhone: the INSERT takes an id, and fails if uk_user_phone has
\* the phone by now.
CreateUserWithPhone(t) ==
    /\ pc[t] = "create"
    /\ pc' = [pc EXCEPT ![t] = "complete"]
    /\ nextId' = nextId + 1
    /\ IF Registered(phone[t]) = {}
       THEN LET user == [id |-> nextId, phone |-> phone[t]] IN
            users' = users \cup {user} /\ Issue(user)
       ELSE UNCHANGED <<users, tokens>>
    /\ UNCHANGED <<codes, localVars, request, phone, historyVars>>

\* MySQL or Redis throws without having done anything.
HandlerFails(t) ==
    /\ MayFail
    /\ pc[t] \in {"find", "create"}
    /\ pc' = [pc EXCEPT ![t] = "complete"]
    /\ UNCHANGED <<storeVars, localVars, request, phone, historyVars>>

----------------------------------------------------------------------------
(* The way out *)

\* afterCompletion of RefreshTokenInterceptor.
AfterCompletion(t) ==
    /\ pc[t] = "complete"
    /\ holder' = [holder EXCEPT ![t] = NoUser]
    /\ pc' = [pc EXCEPT ![t] = "leave"]
    /\ UNCHANGED <<storeVars, context, traced, accepted, request, phone, historyVars>>

\* Mutant of Leave: JwtAuthenticationFilter trusts the interceptor to clear UserHolder.
LeaveToInterceptor(t) ==
    /\ pc[t] = "leave"
    /\ context' = IF t \in accepted THEN [context EXCEPT ![t] = NoUser] ELSE context
    /\ accepted' = accepted \ {t}
    /\ traced' = traced \ {t}
    /\ pc' = [pc EXCEPT ![t] = "idle"]
    /\ UNCHANGED <<storeVars, holder, request, phone, historyVars>>

\* Mutant of Leave: the thread-locals are cleared if nobody is authenticated.
LeaveUnlessAccepted(t) ==
    /\ pc[t] = "leave"
    /\ IF t \notin accepted
       THEN /\ holder' = [holder EXCEPT ![t] = NoUser]
            /\ context' = [context EXCEPT ![t] = NoUser]
       ELSE UNCHANGED <<holder, context>>
    /\ accepted' = accepted \ {t}
    /\ traced' = traced \ {t}
    /\ pc' = [pc EXCEPT ![t] = "idle"]
    /\ UNCHANGED <<storeVars, request, phone, historyVars>>

\* The finally blocks of JwtAuthenticationFilter and TraceIdFilter.
Leave(t) ==
    /\ pc[t] = "leave"
    /\ IF t \in accepted
       THEN /\ holder' = [holder EXCEPT ![t] = NoUser]
            /\ context' = [context EXCEPT ![t] = NoUser]
       ELSE UNCHANGED <<holder, context>>
    /\ accepted' = accepted \ {t}
    /\ traced' = traced \ {t}
    /\ pc' = [pc EXCEPT ![t] = "idle"]
    /\ UNCHANGED <<storeVars, request, phone, historyVars>>

\* The TTL of a code.
ExpireCode(p) ==
    /\ codes[p] # NoCode
    /\ codes' = [codes EXCEPT ![p] = NoCode]
    /\ UNCHANGED <<users, nextId, tokens, localVars, pc, request, phone, historyVars>>

Init ==
    /\ users = {}
    /\ nextId = 1
    /\ codes = [p \in Phone |-> NoCode]
    /\ tokens = {}
    /\ holder = [t \in Thread |-> NoUser]
    /\ context = [t \in Thread |-> NoUser]
    /\ traced = {}
    /\ accepted = {}
    /\ pc = [t \in Thread |-> "idle"]
    /\ request = [t \in Thread |-> [path |-> "page", access |-> NoUser, cookie |-> NoUser]]
    /\ phone \in {[t \in Thread |-> p] : p \in Phone}
    /\ sent = {}
    /\ requests = 0

Header == tokens \cup {NoUser}

Filter(t) == Authenticate(t) \/ Authorize(t) \/ AfterCompletion(t) \/ Leave(t)

Login(t) == FindByPhone(t) \/ CreateUserWithPhone(t) \/ HandlerFails(t)

Next ==
    \/ \E t \in Thread :
        \/ \E path \in Path, access, cookie \in Header : Receive(t, path, access, cookie)
        \/ Filter(t)
        \/ PreHandle(t) \/ PreHandleFails(t)
        \/ Handle(t)
        \/ \E p \in Phone, c \in Code : SendCode(t, p, c) \/ CheckCode(t, p, c)
        \/ Login(t)
    \/ \E p \in Phone : ExpireCode(p)

Spec == Init /\ [][Next]_vars

----------------------------------------------------------------------------
(* Properties *)

Inside == {"authorize", "intercept", "handle", "find", "create", "complete", "leave"}

UserId == Nat \ {NoUser}

\* Every variable keeps to its set.
TypeOK ==
    /\ users \in SUBSET [id : UserId, phone : Phone]
    /\ nextId \in UserId
    /\ codes \in [Phone -> Code \cup {NoCode}]
    /\ tokens \in SUBSET UserId
    /\ holder \in [Thread -> Nat]
    /\ context \in [Thread -> Nat]
    /\ traced \in SUBSET Thread
    /\ accepted \in SUBSET Thread
    /\ pc \in [Thread -> Inside \cup {"idle", "filter"}]
    /\ request \in [Thread -> [path : Path, access : Nat, cookie : Nat]]
    /\ phone \in [Thread -> Phone]
    /\ sent \in SUBSET (Phone \X Code)
    /\ requests \in 0 .. MaxRequests

\* A thread that goes back to the pool takes along no user, no authentication
\* and no traceId, whichever way its request ended: refused by the entry point or
\* by an interceptor, failed, or answered.
NothingIsLeftBehind ==
    \A t \in Thread : pc[t] = "idle" =>
        holder[t] = NoUser /\ context[t] = NoUser /\ t \notin traced /\ t \notin accepted

\* Past the filter a thread acts for a user its own request has presented a
\* token of; the handlers that call UserHolder.getUser().getId() find a user, and
\* both thread-locals agree on it.
ActsForItsCaller ==
    \A t \in Thread :
        /\ pc[t] \in Inside => context[t] \in {NoUser, request[t].access, request[t].cookie}
        /\ pc[t] \in {"handle", "find", "create"} => holder[t] = context[t]
        /\ pc[t] = "handle" /\ request[t].path = "own" => holder[t] # NoUser

\* Whoever has a token is the one user of a phone that was sent a code, even if
\* two first logins race, a code is replaced or expires during a login, or the
\* answer to a first login is lost.
TokensAreEarned ==
    \A id \in tokens :
        \E user \in users :
            /\ user.id = id
            /\ \E c \in Code : <<user.phone, c>> \in sent
            /\ \A other \in users : other.phone = user.phone \/ other.id = id => other = user

----------------------------------------------------------------------------
(* The inductive invariant behind them *)

\* The two keys of tb_user.
KeysHold ==
    \A u, v \in users : u.phone = v.phone \/ u.id = v.id => u = v

IdsAreTaken == \A user \in users : user.id < nextId

TokensHaveUsers == \A id \in tokens : \E user \in users : user.id = id

\* Codes in Redis, logins past their check and users all go back to a code sent.
SentCodes ==
    /\ \A p \in Phone : codes[p] # NoCode => <<p, codes[p]>> \in sent
    /\ \A t \in Thread :
        pc[t] \in {"find", "create"} => \E c \in Code : <<phone[t], c>> \in sent
    /\ \A user \in users : \E c \in Code : <<user.phone, c>> \in sent

\* Who is in a thread-local was accepted, and will be taken out again.
LocalsFollowFilter ==
    \A t \in Thread :
        /\ pc[t] \in {"idle", "filter"} =>
            holder[t] = NoUser /\ context[t] = NoUser /\ t \notin accepted
        /\ pc[t] = "idle" => t \notin traced
        /\ t \notin accepted => holder[t] = NoUser /\ context[t] = NoUser
        /\ pc[t] # "leave" => holder[t] = context[t]
        /\ pc[t] \in Inside => context[t] \in {NoUser, request[t].access, request[t].cookie}
        /\ pc[t] = "handle" /\ request[t].path \notin Excluded => holder[t] # NoUser

IInv ==
    /\ TypeOK
    /\ KeysHold
    /\ IdsAreTaken
    /\ TokensHaveUsers
    /\ SentCodes
    /\ LocalsFollowFilter
=============================================================================

------------------------------ MODULE FrontEnd ------------------------------
(***************************************************************************)
(* The browser in front of Account: common.js, which every page loads, and *)
(* what the pages do with it.                                              *)
(*                                                                         *)
(* A tab keeps the access token in its sessionStorage.  Each page reads it *)
(* once, when common.js is loaded, and sends it with every call.  The      *)
(* refresh cookie is one for all tabs of a browser.  A call is given up    *)
(* after 2 s; the server's thread goes on.  An answer is taken by its HTTP *)
(* status and its `success`.                                               *)
(*                                                                         *)
(* The steps of the server are those of Account, each with the answer it   *)
(* gives; nginx only passes calls on.  A tab has one call in flight.       *)
(***************************************************************************)
EXTENDS Account

CONSTANTS
    Tab,            \* the tabs that are open
    Browser,        \* the browsers
    BrowserOf,      \* the browser of a tab
    NoThread        \* no call is in flight

ASSUME BrowserAssumption == BrowserOf \in [Tab -> Browser]
ASSUME NoThreadAssumption == NoThread \notin Thread

VARIABLES
    storage,        \* sessionStorage.token of each tab
    token,          \* the variable `token` of the page in the tab
    cookie,         \* REFRESH_TOKEN of each browser
    page,           \* login.html, or one of the others
    call,           \* the thread that serves the tab's call
    reply,          \* its answer, on the way to the tab that waits for it
    shown,          \* the last thing a page has reported as done
    signedIn        \* history: the users whose tokens came to a browser

tabVars == <<storage, token, cookie, page, call, shown, signedIn>>
allVars == <<vars, tabVars, reply>>

\* An answer: 200 with success or without, 401, another error; the user a login
\* has tokens for; the user the handler ran for.
Reply == [what : {"none", "ok", "fail", "unauthorized", "error"}, login : Nat, ran : Nat]

Nothing == [what |-> "none", login |-> NoUser, ran |-> NoUser]

Refusal(what) == [Nothing EXCEPT !.what = what]

Ok(login, user) == [what |-> "ok", login |-> login, ran |-> user]

Pages == {"login", "other"}

Shown == [path : Path, ran : Nat]

Blank == [path |-> "page", ran |-> NoUser]

----------------------------------------------------------------------------
(* The server's answers *)

\* An answer nobody waits for any more is dropped.
Answers(t, r) ==
    reply' = [reply EXCEPT ![t] = IF \E tab \in Tab : call[tab] = t THEN r ELSE Nothing]

\* RestAuthenticationEntryPoint answers 200 without success.
Refuse(t) ==
    /\ Authorize(t)
    /\ IF pc'[t] = "leave" THEN Answers(t, Refusal("fail")) ELSE UNCHANGED reply

\* LoginInterceptor answers 401; an exception ends in WebExceptionAdvice, as 500.
Intercept(t) ==
    \/ PreHandle(t)
       /\ IF pc'[t] = "complete" THEN Answers(t, Refusal("unauthorized")) ELSE UNCHANGED reply
    \/ PreHandleFails(t) /\ Answers(t, Refusal("error"))

\* A handler refuses (200), throws (500) or does what it is asked to.
Run(t) ==
    /\ Handle(t)
    /\ \/ Answers(t, Refusal("fail")) \/ Answers(t, Refusal("error"))
       \/ request[t].path \notin {"code", "login"} /\ Answers(t, Ok(NoUser, holder[t]))

Code_(t, p, c) ==
    /\ SendCode(t, p, c)
    /\ Answers(t, Ok(NoUser, holder[t])) \/ Answers(t, Refusal("error"))

Check(t, p, c) ==
    /\ CheckCode(t, p, c)
    /\ IF pc'[t] = "complete" THEN Answers(t, Refusal("fail")) ELSE UNCHANGED reply

\* login has found or made its user: the tokens, or an error on the way to them.
Issued(t, user) ==
    \/ user.id \in tokens' /\ Answers(t, Ok(user.id, holder[t]))
    \/ MayFail /\ Answers(t, Refusal("error"))

SignIn(t) ==
    \/ /\ FindByPhone(t)
       /\ IF pc'[t] = "create" THEN UNCHANGED reply
          ELSE \E user \in Registered(phone[t]) : Issued(t, user)
    \/ /\ CreateUserWithPhone(t)
       /\ IF users' = users THEN Answers(t, Refusal("error"))
          ELSE \E user \in users' \ users : Issued(t, user)
    \/ HandlerFails(t) /\ Answers(t, Refusal("error"))

Pass(t) == (Authenticate(t) \/ AfterCompletion(t) \/ Leave(t)) /\ UNCHANGED reply

Server ==
    \/ \E t \in Thread :
        \/ Pass(t) \/ Refuse(t) \/ Intercept(t) \/ Run(t) \/ SignIn(t)
        \/ \E p \in Phone, c \in Code : Code_(t, p, c) \/ Check(t, p, c)
    \/ (\E p \in Phone : ExpireCode(p)) /\ UNCHANGED reply

----------------------------------------------------------------------------
(* The tabs *)

\* login.html calls /user/code and /user/login, the others everything else.
Calls(tab) == IF page[tab] = "login" THEN {"code", "login"} ELSE {"shop", "own"}

\* A call goes out with the token, if the page has one, and the cookie.  The
\* seckill button of shop-detail.html, an "own" call, first looks for the token;
\* other pages leave it to the server.
Send(tab, t, path) ==
    /\ call[tab] = NoThread
    /\ \A other \in Tab : call[other] # t
    /\ path \in Calls(tab)
    /\ Receive(t, path, token[tab], cookie[BrowserOf[tab]])
    /\ call' = [call EXCEPT ![tab] = t]
    /\ shown' = [shown EXCEPT ![tab] = Blank]
    /\ UNCHANGED <<reply, storage, token, cookie, page, signedIn>>

\* The call is over for the tab.
Ends(tab) ==
    /\ call' = [call EXCEPT ![tab] = NoThread]
    /\ reply' = [t \in Thread |-> IF t = call[tab] THEN Nothing ELSE reply[t]]

\* The browser takes the cookie of a login, if the answer has come so far.
TakeCookie(tab, login) ==
    /\ cookie' = [cookie EXCEPT ![BrowserOf[tab]] = login]
    /\ signedIn' = [signedIn EXCEPT ![BrowserOf[tab]] = @ \cup {login}]

\* Mutant of Fulfil: the response interceptor goes by the HTTP status alone.
FulfilAny200(tab) ==
    \E t \in Thread :
        /\ t = call[tab]
        /\ reply[t].what \in {"ok", "fail"}
        /\ reply[t].login = NoUser
        /\ shown' = [shown EXCEPT ![tab] = [path |-> request[t].path, ran |-> reply[t].ran]]
        /\ Ends(tab)
        /\ UNCHANGED <<vars, storage, token, cookie, page, signedIn>>

\* The response interceptor hands on an answer with success.
Fulfil(tab) ==
    \E t \in Thread :
        /\ t = call[tab]
        /\ reply[t].what = "ok"
        /\ reply[t].login = NoUser
        /\ shown' = [shown EXCEPT ![tab] = [path |-> request[t].path, ran |-> reply[t].ran]]
        /\ Ends(tab)
        /\ UNCHANGED <<vars, storage, token, cookie, page, signedIn>>

\* login.html stores the token and goes to /index.html, which reads it.
LoggedIn(tab) ==
    \E t \in Thread :
        /\ t = call[tab]
        /\ reply[t].login # NoUser
        /\ storage' = [storage EXCEPT ![tab] = reply[t].login]
        /\ token' = [token EXCEPT ![tab] = reply[t].login]
        /\ page' = [page EXCEPT ![tab] = "other"]
        /\ shown' = [shown EXCEPT ![tab] = Blank]
        /\ TakeCookie(tab, reply[t].login)
        /\ Ends(tab)
        /\ UNCHANGED vars

\* Every other answer is rejected, with a message.  After a 401 a timer also goes
\* to /login.html, which Navigate may do at any time.
Reject(tab) ==
    \E t \in Thread :
        /\ t = call[tab]
        /\ reply[t].what \in {"fail", "unauthorized", "error"}
        /\ Ends(tab)
        /\ UNCHANGED <<vars, storage, token, cookie, page, shown, signedIn>>

\* A call, if there is one, is given up.  The headers of its answer may have come
\* by then, and the cookie with them.
GiveUp(tab) ==
    /\ Ends(tab)
    /\ \/ UNCHANGED <<cookie, signedIn>>
       \/ \E t \in Thread :
            t = call[tab] /\ reply[t].login # NoUser /\ TakeCookie(tab, reply[t].login)

\* 2 s are over.  error.response is undefined, so that the interceptor itself
\* throws: rejected all the same.
TimeOut(tab) ==
    /\ call[tab] # NoThread
    /\ GiveUp(tab)
    /\ UNCHANGED <<vars, storage, token, page, shown>>

\* A page is loaded: common.js reads the token; the page before forgets its call.
Navigate(tab, to) ==
    /\ token' = [token EXCEPT ![tab] = storage[tab]]
    /\ page' = [page EXCEPT ![tab] = to]
    /\ shown' = [shown EXCEPT ![tab] = Blank]
    /\ GiveUp(tab)
    /\ UNCHANGED <<vars, storage>>

\* The tab is closed and opened again, with an empty sessionStorage.
Reopen(tab) ==
    /\ storage[tab] # NoUser
    /\ storage' = [storage EXCEPT ![tab] = NoUser]
    /\ token' = [token EXCEPT ![tab] = NoUser]
    /\ page' = [page EXCEPT ![tab] = "other"]
    /\ shown' = [shown EXCEPT ![tab] = Blank]
    /\ GiveUp(tab)
    /\ UNCHANGED vars

----------------------------------------------------------------------------

FrontInit ==
    /\ Init
    /\ storage = [tab \in Tab |-> NoUser]
    /\ token = storage
    /\ cookie = [browser \in Browser |-> NoUser]
    /\ page = [tab \in Tab |-> "other"]
    /\ call = [tab \in Tab |-> NoThread]
    /\ reply = [t \in Thread |-> Nothing]
    /\ shown = [tab \in Tab |-> Blank]
    /\ signedIn = [browser \in Browser |-> {}]

Page(tab) ==
    \/ \E t \in Thread, path \in Path : Send(tab, t, path)
    \/ Fulfil(tab) \/ LoggedIn(tab) \/ Reject(tab) \/ TimeOut(tab)
    \/ \E to \in Pages : Navigate(tab, to)
    \/ Reopen(tab)

FrontNext ==
    \/ Server /\ UNCHANGED tabVars
    \/ \E tab \in Tab : Page(tab)

FrontSpec == FrontInit /\ [][FrontNext]_allVars

----------------------------------------------------------------------------
(* Properties *)

\* Through two filters, two lists of paths, thread-locals on a pool, an entry
\* point that answers 200 and an interceptor that goes by `success`: an order or
\* a blog that a page reports as done was done for a user, and for none but one
\* who has logged in in the browser of this tab.  (The cookie is shared, so that
\* it need not be the one of the tab.)
DoneForItsBrowser ==
    \A tab \in Tab :
        shown[tab].path = "own" => shown[tab].ran \in signedIn[BrowserOf[tab]]

----------------------------------------------------------------------------
(* The inductive invariant behind it *)

FrontTypeOK ==
    /\ storage \in [Tab -> Nat]
    /\ token \in [Tab -> Nat]
    /\ cookie \in [Browser -> Nat]
    /\ page \in [Tab -> Pages]
    /\ call \in [Tab -> Thread \cup {NoThread}]
    /\ reply \in [Thread -> Reply]
    /\ shown \in [Tab -> Shown]
    /\ signedIn \in [Browser -> SUBSET Nat]

\* What a browser may present to the server.
Own(browser) == {NoUser} \cup (signedIn[browser] \cap tokens)

\* Tabs and cookies hold what their own browser was given.
HeldIsOwn ==
    /\ \A tab \in Tab : {storage[tab], token[tab]} \subseteq Own(BrowserOf[tab])
    /\ \A browser \in Browser : cookie[browser] \in Own(browser)

\* A thread works for one tab at most, and with what that tab's browser had.
CallsAreOwn ==
    \A tab \in Tab : call[tab] # NoThread =>
        /\ \A other \in Tab : call[other] = call[tab] => other = tab
        /\ {request[call[tab]].access, request[call[tab]].cookie} \subseteq Own(BrowserOf[tab])

\* An answer on its way is for a tab that waits, and says whom it was for.
AnswersAreTrue ==
    \A t \in Thread :
        /\ reply[t].login \in {NoUser} \cup tokens
        /\ reply[t].what # "none" => \E tab \in Tab : call[tab] = t
        /\ reply[t].login # NoUser => reply[t].what = "ok"
        /\ reply[t].what = "ok" /\ reply[t].login = NoUser /\ request[t].path = "own"
              => reply[t].ran # NoUser /\ reply[t].ran \in {request[t].access, request[t].cookie}

\* Tokens and cookies never leave the browser they were issued to, and an answer
\* reaches only the tab that asked, on top of what the server keeps (IInv).
FrontInv ==
    /\ IInv /\ FrontTypeOK
    /\ HeldIsOwn /\ CallsAreOwn /\ AnswersAreTrue /\ DoneForItsBrowser
=============================================================================

-------------------------------- MODULE Http --------------------------------
(***************************************************************************)
(* One request of RpmCgiAdapter (adapters/rpm_cgi.py): _get and _post,     *)
(* their one retry after a login page, and authenticate.  A request that   *)
(* needs the token (g_tid) carries the one the adapter had when its text   *)
(* was made.  The switch answers a request without a login session with    *)
(* its login page, and ignores a form with the token of another session.   *)
(*                                                                         *)
(* Callers begin a request and take its answer; the adapter serves one at  *)
(* a time (io_lock in the daemon, one process in mercswitchctl).           *)
(***************************************************************************)
EXTENDS Naturals

CONSTANTS None, MaxEnds   \* BOUND: how often sessions end

VARIABLES
  open,      \* the switch honours the cookies of the adapter
  token,     \* the adapter's token: "none", "good" or "old"
  authed,    \* _authenticated
  call,      \* the request under way
  carried, answer, ended   \* as in Link

loginVars == <<open, token, authed>>
httpVars == <<loginVars, call, carried, answer, ended>>

Kinds == {"login", "page", "form", "file"}
Tokens == {"none", "good", "old"}
Stages == {"root", "logon", "token", "send"}
Calls == [kind : Kinds, stage : Stages, text : Tokens, retry : BOOLEAN]
Answers == {"good", "wrong", "raised"}

(* None is a value of its own. *)
ASSUME NothingIsApart == None \notin Kinds \cup Calls \cup Answers

HttpTypeOK ==
  /\ open \in BOOLEAN /\ authed \in BOOLEAN /\ token \in Tokens
  /\ call \in Calls \cup {None}
  /\ carried \in BOOLEAN /\ answer \in Answers \cup {None}
  /\ ended \in 0..MaxEnds
  /\ call # None => answer = None

HttpInit ==
  /\ open = FALSE /\ token = "none" /\ authed = FALSE
  /\ call = None /\ carried = FALSE /\ answer = None /\ ended = 0

Aged(t) == IF t = "good" THEN "old" ELSE t

----------------------------------------------------------------------------

(* _ensure_authenticated; an operation of the client logs in by itself. *)
Begin(kind) ==
  /\ call = None
  /\ call' = [kind |-> kind,
              stage |-> IF authed /\ kind # "login" THEN "send" ELSE "root",
              text |-> IF kind \in {"form", "file"} THEN token ELSE "none",
              retry |-> TRUE]
  /\ carried' = FALSE /\ answer' = None
  /\ UNCHANGED <<loginVars, ended>>

Goto(stage) == call' = [call EXCEPT !.stage = stage] /\ UNCHANGED <<carried, answer, ended>>

Answered(a) ==
  /\ call' = None /\ answer' = a
  /\ ended' = IF a = "good" THEN 0 ELSE ended

(* authenticate has a token now: the request goes out, or was nothing else. *)
LoggedIn ==
  /\ token' = "good" /\ authed' = TRUE
  /\ IF call.kind = "login" THEN Answered("good") /\ UNCHANGED carried ELSE Goto("send")

Root ==
  /\ call.stage = "root"
  /\ \/ open /\ LoggedIn
     \/ ~open /\ Goto("logon") /\ UNCHANGED <<token, authed>>
  /\ UNCHANGED open

Logon ==
  /\ call.stage = "logon"
  /\ open' = TRUE
  /\ Goto("token")
  /\ UNCHANGED <<token, authed>>

(* A session that ends here leaves a page without g_tid: a ParseError. *)
FetchToken ==
  /\ call.stage = "token"
  /\ \/ open /\ LoggedIn
     \/ ~open /\ Answered("raised") /\ UNCHANGED <<token, authed, carried>>
  /\ UNCHANGED open

(* Mutant: the login page is never looked for. *)
MayRetryNever == FALSE
MayRetry == call.retry

Accepts == open /\ (call.kind = "page" \/ call.text = "good")

Send ==
  /\ call.stage = "send"
  /\ \/ /\ Accepts
        /\ carried' = (call.kind = "form")
        /\ Answered("good")
        /\ UNCHANGED authed
     \/ /\ open /\ ~Accepts
        /\ Answered("wrong")
        /\ UNCHANGED <<carried, authed>>
     \/ /\ ~open /\ MayRetry
        /\ authed' = FALSE
        /\ call' = [call EXCEPT !.stage = "root", !.retry = FALSE]
        /\ UNCHANGED <<carried, answer, ended>>
     \/ /\ ~open /\ ~MayRetry
        /\ Answered("wrong")
        /\ UNCHANGED <<carried, authed>>
  /\ UNCHANGED <<open, token>>

Exchange == call # None /\ (Root \/ Logon \/ FetchToken \/ Send)

(* No answer, or an HTTP error: the switch may have carried the form out. *)
Raises ==
  /\ call # None
  /\ Answered("raised")
  /\ carried' \in IF call.kind = "form" /\ call.stage = "send" /\ Accepts
                  THEN BOOLEAN ELSE {carried}
  /\ UNCHANGED loginVars

EndSession ==
  /\ open /\ ended < MaxEnds
  /\ open' = FALSE /\ ended' = ended + 1
  /\ token' = Aged(token)
  /\ call' = IF call = None THEN None ELSE [call EXCEPT !.text = Aged(@)]
  /\ UNCHANGED <<authed, carried, answer>>

(* The process is gone, and its cookies and token with it. *)
Forgotten ==
  /\ open' = FALSE /\ token' = "none" /\ authed' = FALSE
  /\ call' = None /\ carried' = FALSE /\ answer' = None /\ ended' = 0

----------------------------------------------------------------------------
(* Whatever sessions do in the middle of a request, it keeps to Link. *)

Contract == INSTANCE Link WITH kind <- IF call = None THEN None ELSE call.kind

ImplementsLink == Contract!Spec
=============================================================================

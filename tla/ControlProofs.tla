---------------------------- MODULE ControlProofs ----------------------------
(***************************************************************************)
(* Proofs about Http and Control, for any configurations, and any number   *)
(* of commands, faults and ends of the login session.                      *)
(***************************************************************************)
EXTENDS Control, TLAPS

----------------------------------------------------------------------------
(* One request.                                                            *)

(* Callers ask for anything but a login only after an answer; what an      *)
(* exception leaves behind (a login session with an old token, perhaps) is *)
(* never built upon.                                                       *)
Asked(kind) == Begin(kind) /\ (kind # "login" => answer \in {"good", "wrong"})

HttpStep ==
  \/ \E kind \in Kinds : Asked(kind)
  \/ Exchange \/ Raises \/ EndSession \/ Forgotten
  \/ UNCHANGED httpVars

(* What is known of the token between requests.                            *)
TokenInv ==
  /\ token = "good" => open
  /\ token = "old" => ended >= 1
  /\ answer \in {"good", "wrong"} => token # "none" /\ (open => token = "good")

(* ... and during one: how often the session must have ended for the       *)
(* request to be where it is.                                              *)
CallInv ==
  call # None =>
    /\ ~carried
    /\ call.stage = "send" =>
         /\ call.kind # "login" /\ token # "none"
         /\ open => token = "good"
    /\ call.kind \in {"form", "file"} /\ call.text # "good" => ended >= 1
    /\ ~call.retry => ended >= 1
    /\ ~call.retry /\ call.stage = "send" /\ ~open => ended >= 2

HttpInv == HttpTypeOK /\ TokenInv /\ CallInv

----------------------------------------------------------------------------
(* A commit.                                                               *)

(* The page or file that was not given is remembered as long as the        *)
(* command runs.                                                           *)
AnswerInv == answer = "wrong" => wrong

(* What a command asks for is what its place in the code says.             *)
KindInv == call # None => pc \in Requests /\ call.kind = RequestKind(pc)

(* After the plan, the configuration seen is the one the switch has, and   *)
(* the one the candidate was made from; with the backup taken, it is in a  *)
(* backup too.                                                             *)
SeenIsTrue == seen = dev \/ disturbed \/ wrong

CommitInv ==
  /\ pc = "plan" /\ answer \in {"good", "wrong"} => SeenIsTrue
  /\ pc = "write" => cmd.op = "commit"
  /\ cmd.op = "commit" /\ (pc = "download" \/ (pc = "write" /\ call # None)) =>
       SeenIsTrue /\ (cmd.force \/ seen = cmd.base)
  /\ pc = "write" /\ call # None => dev \in backups \/ disturbed \/ wrong

ControlInv == TypeOK /\ HttpInv /\ AnswerInv /\ KindInv /\ CommitInv
----------------------------------------------------------------------------
(* The request keeps to Link.                                              *)

LEMMA HttpStarts ==
  ASSUME HttpInit
  PROVE  HttpInv /\ Contract!Init
<1>1. open \in BOOLEAN /\ authed \in BOOLEAN /\ carried \in BOOLEAN
  BY Zenon DEF HttpInit
<1>2. ended \in 0..MaxEnds
  BY ControlConstants DEF HttpInit
<1>3. HttpTypeOK
  BY <1>1, <1>2 DEF HttpInit, HttpTypeOK, Tokens
<1>4. TokenInv /\ CallInv
  BY NothingIsApart DEF HttpInit, TokenInv, CallInv, Answers
<1>5. Contract!Init
  BY DEF HttpInit, Contract!Init
<1> QED
  BY <1>3, <1>4, <1>5 DEF HttpInv

LEMMA AskedStep ==
  ASSUME HttpInv, NEW kind \in Kinds, Asked(kind)
  PROVE  HttpInv' /\ Contract!Begin
<1>1. call = None /\ call' \in Calls /\ call'.kind = kind /\ call'.retry
  BY DEF Asked, Begin, HttpInv, HttpTypeOK, Calls, Stages, Tokens, Kinds
<1>2. HttpTypeOK'
  BY <1>1 DEF Asked, Begin, HttpInv, HttpTypeOK, loginVars
<1>3. TokenInv'
  BY NothingIsApart DEF Asked, Begin, HttpInv, TokenInv, loginVars, Answers
<1>4. CallInv'
  <2>1. call'.stage = "send" => kind # "login" /\ token # "none" /\ (open => token = "good")
    BY DEF Asked, Begin, HttpInv, TokenInv
  <2>2. kind \in {"form", "file"} /\ call'.text # "good" => ended >= 1
    BY DEF Asked, Begin, HttpInv, HttpTypeOK, TokenInv, Tokens
  <2> QED
    BY <1>1, <2>1, <2>2 DEF Asked, Begin, CallInv, loginVars
<1>5. Contract!Begin
  BY <1>1, NothingIsApart DEF Asked, Begin, Contract!Begin, Contract!Kinds, Kinds
<1> QED
  BY <1>2, <1>3, <1>4, <1>5 DEF HttpInv

(* The kind of the request under way, as Link sees it. *)
Kind == IF call = None THEN None ELSE call.kind
linkVars == <<Kind, carried, answer, ended>>

LEMMA AnsweredStep ==
  ASSUME HttpInv, call # None, NEW a \in Answers, Answered(a),
         open' = open, a # "raised" => token' # "none" /\ (open => token' = "good"),
         token' = "good" => open, token' = "old" => token = "old",
         a = "good" => token' # "old" /\ (call.kind = "form" => carried'),
         a = "wrong" => ~carried' /\ call.kind # "login"
                        /\ ended >= (IF call.kind = "page" THEN 2 ELSE 1),
         carried' \in IF call.kind = "form" THEN BOOLEAN ELSE {FALSE},
         token' \in Tokens, authed' \in BOOLEAN
  PROVE  HttpInv' /\ Contract!Answer
<1>1. call \in Calls /\ ~carried /\ call.kind \in Kinds
  BY DEF HttpInv, HttpTypeOK, CallInv, Calls
<1>2. call' = None /\ answer' = a /\ ended' = IF a = "good" THEN 0 ELSE ended
  BY DEF Answered
<1>3. HttpTypeOK'
  <2>1. carried' \in BOOLEAN /\ open' \in BOOLEAN
    BY Zenon DEF HttpInv, HttpTypeOK
  <2>2. ended' \in 0..MaxEnds
    BY <1>2, ControlConstants DEF HttpInv, HttpTypeOK
  <2> QED
    BY <1>2, <2>1, <2>2 DEF HttpTypeOK
<1>4. TokenInv' /\ CallInv'
  BY <1>2 DEF HttpInv, HttpTypeOK, TokenInv, CallInv, Answers
<1>5. Contract!Answer
  <2>1. Contract!May(a, carried')
    BY <1>1, NothingIsApart DEF Contract!May, Answers, Kinds
  <2>2. call.kind # None
    BY <1>1, NothingIsApart
  <2> QED
    BY <1>1, <1>2, <2>1, <2>2 DEF Contract!Answer, Answers, HttpInv, HttpTypeOK
<1> QED
  BY <1>3, <1>4, <1>5 DEF HttpInv

(* The request gets further without an answer. *)
LEMMA QuietStep ==
  ASSUME HttpInv, call # None, call' \in Calls, call'.kind = call.kind, call'.text = call.text,
         call'.retry \/ (call'.retry = call.retry) \/ ended >= 1,
         call'.stage = "send" => /\ call'.retry = call.retry /\ call.kind # "login"
                                 /\ open /\ token' = "good",
         token' = "good" => open', token' = "old" => token = "old",
         token' \in Tokens, authed' \in BOOLEAN, open' \in BOOLEAN,
         UNCHANGED <<carried, answer, ended>>
  PROVE  HttpInv' /\ UNCHANGED linkVars
<1>1. call' # None
  BY NothingIsApart
<1>2. HttpTypeOK'
  BY <1>1 DEF HttpInv, HttpTypeOK
<1>3. answer = None
  BY DEF HttpInv, HttpTypeOK
<1> QED
  BY <1>1, <1>2, <1>3, NothingIsApart
  DEF HttpInv, TokenInv, CallInv, linkVars, Kind, Answers

LinkStep == Contract!Begin \/ Contract!End \/ Contract!Answer \/ Contract!Forget

LEMMA ExchangeStep ==
  ASSUME HttpInv, Exchange
  PROVE  HttpInv' /\ (Contract!Answer \/ UNCHANGED linkVars)
<1>1. /\ call # None /\ call \in Calls /\ ~carried
      /\ token \in Tokens /\ open \in BOOLEAN /\ authed \in BOOLEAN
  BY DEF HttpInv, HttpTypeOK, CallInv, Exchange
<1>2. ASSUME LoggedIn, open, open' = open, call.stage # "send"
      PROVE  HttpInv' /\ (Contract!Answer \/ UNCHANGED linkVars)
  <2>1. token' = "good" /\ token' \in Tokens
    BY <1>2 DEF LoggedIn, Tokens
  <2>2. authed' \in BOOLEAN
    BY <1>2, Zenon DEF LoggedIn
  <2>3. CASE call.kind = "login"
    <3>1. Answered("good") /\ carried' = FALSE
      BY <1>1, <1>2, <2>3 DEF LoggedIn, HttpInv, HttpTypeOK
    <3> QED
      BY <1>1, <1>2, <2>1, <2>2, <2>3, <3>1, AnsweredStep DEF Answers
  <2>4. CASE call.kind # "login"
    <3>1. call' = [call EXCEPT !.stage = "send"] /\ UNCHANGED <<carried, answer, ended>>
      BY <1>2, <2>4 DEF LoggedIn, Goto
    <3>2. call' \in Calls /\ call'.kind = call.kind /\ call'.text = call.text
          /\ call'.retry = call.retry
      BY <1>1, <3>1 DEF Calls, Stages
    <3> QED
      BY <1>1, <1>2, <2>1, <2>2, <2>4, <3>1, <3>2, QuietStep
  <2> QED
    BY <2>3, <2>4
<1>3. CASE Root
  <2>1. CASE open /\ LoggedIn
    BY <1>2, <1>3, <2>1 DEF Root
  <2>2. CASE ~open /\ Goto("logon") /\ UNCHANGED <<token, authed>>
    <3>1. call' \in Calls /\ call'.kind = call.kind /\ call'.text = call.text
          /\ call'.retry = call.retry /\ call'.stage = "logon"
      BY <1>1, <2>2 DEF Goto, Calls, Stages
    <3>2. token = "good" => open
      BY DEF HttpInv, TokenInv
    <3> QED
      BY <1>1, <1>3, <2>2, <3>1, <3>2, QuietStep DEF Root, Goto
  <2> QED
    BY <1>3, <2>1, <2>2 DEF Root
<1>4. CASE Logon
  <2>1. call' \in Calls /\ call'.kind = call.kind /\ call'.text = call.text
        /\ call'.retry = call.retry /\ call'.stage = "token"
    BY <1>1, <1>4 DEF Logon, Goto, Calls, Stages
  <2>2. open' /\ open' \in BOOLEAN
    BY <1>4, Zenon DEF Logon
  <2> QED
    BY <1>1, <1>4, <2>1, <2>2, QuietStep DEF Logon, Goto
<1>5. CASE FetchToken
  <2>1. CASE open /\ LoggedIn
    BY <1>2, <1>5, <2>1 DEF FetchToken
  <2>2. CASE ~open /\ Answered("raised") /\ UNCHANGED <<token, authed, carried>>
    <3>1. token = "good" => open
      BY DEF HttpInv, TokenInv
    <3>2. carried' = FALSE
      BY <1>1, <2>2 DEF HttpInv, HttpTypeOK
    <3> QED
      BY <1>1, <1>5, <2>2, <3>1, <3>2, AnsweredStep DEF FetchToken, Answers
  <2> QED
    BY <1>5, <2>1, <2>2 DEF FetchToken
<1>6. CASE Send
  <2>1. /\ call.stage = "send" /\ call.kind # "login" /\ token # "none"
        /\ open => token = "good"
        /\ ~open => token = "old" /\ ended >= 1
        /\ ~open /\ ~call.retry => ended >= 2
        /\ call.kind \in {"form", "file"} /\ call.text # "good" => ended >= 1
        /\ ended \in Nat
    BY <1>1, <1>6 DEF HttpInv, HttpTypeOK, TokenInv, CallInv, Send, Tokens
  <2>2. open' = open /\ token' = token
    BY <1>6 DEF Send
  <2>3. CASE Accepts /\ carried' = (call.kind = "form") /\ Answered("good") /\ UNCHANGED authed
    <3>1. open
      BY <2>3 DEF Accepts
    <3>2. /\ call.kind = "form" => carried' /\ carried' \in BOOLEAN
          /\ call.kind # "form" => carried' = FALSE
      BY <2>3, Zenon
    <3> QED
      BY <1>1, <2>1, <2>2, <2>3, <3>1, <3>2, AnsweredStep DEF Answers
  <2>4. CASE open /\ ~Accepts /\ Answered("wrong") /\ UNCHANGED <<carried, authed>>
    <3>1. call.kind \in {"form", "file"} /\ call.text # "good"
      BY <1>1, <2>1, <2>4 DEF Accepts, Calls, Kinds
    <3>2. carried' = FALSE
      BY <1>1, <2>4 DEF HttpInv, HttpTypeOK
    <3> QED
      BY <1>1, <2>1, <2>2, <2>4, <3>1, <3>2, AnsweredStep DEF Answers
  <2>5. CASE /\ ~open /\ MayRetry /\ authed' = FALSE
             /\ call' = [call EXCEPT !.stage = "root", !.retry = FALSE]
             /\ UNCHANGED <<carried, answer, ended>>
    <3>1. call' \in Calls /\ call'.kind = call.kind /\ call'.text = call.text
          /\ call'.stage = "root"
      BY <1>1, <2>5 DEF Calls, Stages
    <3>2. authed' \in BOOLEAN
      BY <2>5, Zenon
    <3> QED
      BY <1>1, <2>1, <2>2, <2>5, <3>1, <3>2, QuietStep
  <2>6. CASE ~open /\ ~MayRetry /\ Answered("wrong") /\ UNCHANGED <<carried, authed>>
    <3>1. ended >= 2
      BY <2>1, <2>6 DEF MayRetry
    <3>2. carried' = FALSE
      BY <1>1, <2>6 DEF HttpInv, HttpTypeOK
    <3> QED
      BY <1>1, <2>1, <2>2, <2>6, <3>1, <3>2, AnsweredStep DEF Answers
  <2> QED
    BY <1>6, <2>3, <2>4, <2>5, <2>6 DEF Send
<1> QED
  BY <1>3, <1>4, <1>5, <1>6 DEF Exchange

LEMMA RaisesStep ==
  ASSUME HttpInv, Raises
  PROVE  HttpInv' /\ Contract!Answer
<1>1. call # None /\ call \in Calls /\ ~carried /\ carried \in BOOLEAN /\ Answered("raised")
      /\ UNCHANGED loginVars
  BY DEF HttpInv, HttpTypeOK, CallInv, Raises
<1>2. carried' \in IF call.kind = "form" THEN BOOLEAN ELSE {FALSE}
  <2>1. carried = FALSE
    BY <1>1
  <2> QED
    BY <2>1 DEF Raises
<1>3. open' = open /\ token' = token /\ token \in Tokens /\ authed' \in BOOLEAN
      /\ (token = "good" => open)
  BY <1>1 DEF loginVars, HttpInv, HttpTypeOK, TokenInv
<1> QED
  BY <1>1, <1>2, <1>3, AnsweredStep DEF Answers

LEMMA EndSessionStep ==
  ASSUME HttpInv, EndSession
  PROVE  HttpInv' /\ Contract!End
<1>1. /\ open /\ open' = FALSE /\ token' = Aged(token)
      /\ ended \in Nat /\ ended < MaxEnds /\ ended' = ended + 1
      /\ call' = IF call = None THEN None ELSE [call EXCEPT !.text = Aged(@)]
      /\ UNCHANGED <<authed, carried, answer>>
  BY DEF EndSession, HttpInv, HttpTypeOK
<1>2. call = None => call' = None
  BY <1>1
<1>3. ASSUME call # None
      PROVE  /\ call' # None /\ call' \in Calls
             /\ call'.kind = call.kind /\ call'.stage = call.stage /\ call'.retry = call.retry
  <2>1. call \in Calls
    BY <1>3 DEF HttpInv, HttpTypeOK
  <2>2. call' = [call EXCEPT !.text = Aged(call.text)] /\ Aged(call.text) \in Tokens
    BY <1>1, <1>3, <2>1 DEF Aged, Calls, Tokens
  <2> QED
    BY <2>1, <2>2, NothingIsApart DEF Calls
<1>4. HttpTypeOK'
  <2>1. open' \in BOOLEAN
    BY <1>1, Zenon
  <2>2. ended' \in 0..MaxEnds /\ token' \in Tokens
    BY <1>1, ControlConstants DEF HttpInv, HttpTypeOK, Aged, Tokens
  <2> QED
    BY <1>1, <1>2, <1>3, <2>1, <2>2 DEF HttpInv, HttpTypeOK
<1>5. TokenInv'
  BY <1>1 DEF HttpInv, HttpTypeOK, TokenInv, Aged, Tokens
<1>6. CallInv'
  BY <1>1, <1>2, <1>3 DEF HttpInv, HttpTypeOK, TokenInv, CallInv, Aged, Tokens
<1>7. Contract!End
  BY <1>1, <1>2, <1>3 DEF Contract!End
<1> QED
  BY <1>4, <1>5, <1>6, <1>7 DEF HttpInv

LEMMA ForgottenStep ==
  ASSUME HttpInv, Forgotten
  PROVE  HttpInv' /\ Contract!Forget
<1>1. open' \in BOOLEAN /\ authed' \in BOOLEAN /\ carried' \in BOOLEAN
  BY Zenon DEF Forgotten
<1>2. ended' \in 0..MaxEnds
  BY ControlConstants DEF Forgotten
<1>3. HttpTypeOK'
  BY <1>1, <1>2 DEF Forgotten, HttpTypeOK, Tokens
<1>4. TokenInv' /\ CallInv'
  BY NothingIsApart DEF Forgotten, TokenInv, CallInv, Answers
<1>5. Contract!Forget
  BY DEF Forgotten, Contract!Forget
<1> QED
  BY <1>3, <1>4, <1>5 DEF HttpInv

(* Whatever becomes of the login session, every request keeps to Link.     *)
LEMMA HttpKeeps ==
  ASSUME HttpInv, HttpStep
  PROVE  HttpInv' /\ [LinkStep]_linkVars
<1>1. CASE UNCHANGED httpVars
  BY <1>1 DEF httpVars, loginVars, HttpInv, HttpTypeOK, TokenInv, CallInv, linkVars, Kind
<1> QED
  BY <1>1, AskedStep, ExchangeStep, RaisesStep, EndSessionStep, ForgottenStep
  DEF HttpStep, LinkStep

----------------------------------------------------------------------------
(* The steps of a command: on the wire, ...                                *)

LEMMA OnTheWireIs ==
  ASSUME HttpInv, Exchange \/ Raises \/ EndSession
  PROVE  /\ HttpInv'
         /\ \/ /\ Arrives
               /\ answer' \in Answers
               /\ call.kind # "form" => ~CarriedOut
            \/ /\ ~Arrives /\ ~CarriedOut
               /\ Kind' = Kind /\ (call = None <=> call' = None) /\ answer' = answer
<1>1. /\ HttpInv'
      /\ Contract!Answer \/ Contract!End \/ UNCHANGED linkVars
  BY ExchangeStep, RaisesStep, EndSessionStep
<1>2. /\ call # None => Kind # None
      /\ call' # None => Kind' # None
  BY <1>1, NothingIsApart DEF Kind, HttpInv, HttpTypeOK, Calls
<1>3. CASE Contract!Answer
  BY <1>1, <1>2, <1>3 DEF Contract!Answer, Kind, Arrives, CarriedOut, Answers
<1>4. CASE Contract!End \/ UNCHANGED linkVars
  BY <1>1, <1>2, <1>4 DEF Contract!End, linkVars, Kind, Arrives, CarriedOut
<1> QED
  BY <1>1, <1>3, <1>4

LEMMA WireStep ==
  ASSUME ControlInv, OnTheWire(Exchange \/ Raises \/ EndSession), faults' \in 0..MaxFaults
  PROVE  ControlInv' /\ HttpStep
<1>1. HttpInv /\ (Exchange \/ Raises \/ EndSession)
  BY DEF ControlInv, OnTheWire
<1>2. HttpInv' /\ HttpStep
  BY <1>1, OnTheWireIs DEF HttpStep
<1>3. /\ UNCHANGED <<pc, cmd, session, fileVars, commands>>
      /\ wrong \/ answer' = "wrong" => wrong'
      /\ wrong' \in BOOLEAN /\ disturbed' \in BOOLEAN
  BY Zenon DEF OnTheWire
<1>4. TypeOK'
  <2>1. dev' \in Configs /\ seen' \in Configs
    BY ControlConstants DEF OnTheWire, Effect, ControlInv, TypeOK, Command
  <2> QED
    BY <1>2, <1>3, <2>1 DEF ControlInv, TypeOK, HttpInv, fileVars
<1>5. KindInv'
  BY <1>1, <1>2, <1>3, OnTheWireIs, NothingIsApart DEF ControlInv, KindInv, Kind, Arrives
<1>6. CommitInv'
  <2>1. CASE Arrives
    <3>1. call.kind = RequestKind(pc) /\ call # None /\ call' = None
      BY <2>1 DEF Arrives, ControlInv, KindInv
    <3>2. pc \in {"plan", "download"} => dev' = dev
      <4>1. pc \in {"plan", "download"} => call.kind # "form"
        BY <3>1 DEF RequestKind, Reads
      <4> QED
        BY <1>1, <2>1, <4>1, OnTheWireIs DEF OnTheWire
    <3>3. pc = "plan" /\ answer' = "good" => seen' = dev
      BY <2>1 DEF OnTheWire, Reads
    <3>4. pc = "download" => seen' = seen /\ disturbed' = disturbed
      BY DEF OnTheWire, Reads, ControlInv, TypeOK
    <3> QED
      BY <1>3, <3>1, <3>2, <3>3, <3>4 DEF ControlInv, CommitInv, SeenIsTrue, fileVars
  <2>2. CASE ~Arrives
    <3>1. /\ UNCHANGED <<dev, seen, disturbed, answer>>
          /\ call' = None <=> call = None
      BY <1>1, <2>2, OnTheWireIs DEF OnTheWire, ControlInv, TypeOK
    <3> QED
      BY <1>3, <3>1 DEF ControlInv, CommitInv, SeenIsTrue, fileVars
  <2> QED
    BY <2>1, <2>2
<1> QED
  BY <1>2, <1>3, <1>4, <1>5, <1>6 DEF ControlInv, AnswerInv

(* ... between commands, ...                                               *)

LEMMA Rests ==
  ASSUME ControlInv, HttpStep, TypeOK', pc' \in {"idle", "prompt", "store"}, call' = None,
         answer' = None \/ UNCHANGED <<answer, wrong>>
  PROVE  ControlInv'
BY HttpKeeps, NothingIsApart DEF ControlInv, AnswerInv, KindInv, CommitInv, Answers

(* ... and to the next request.  A form of a commit goes out only with     *)
(* what the plan has found still true.                                     *)
LEMMA Requested ==
  ASSUME ControlInv, TypeOK', NEW where \in Requests, pc' = where,
         Begin(RequestKind(where)), where = "login" \/ answer \in {"good", "wrong"},
         where = "write" => cmd'.op = "commit" /\ (dev' \in backups' \/ disturbed' \/ wrong'),
         where \in {"download", "write"} /\ cmd'.op = "commit" =>
           SeenIsTrue' /\ (cmd'.force \/ seen' = cmd'.base)
  PROVE  ControlInv' /\ HttpStep
<1>1. RequestKind(where) \in Kinds
  BY DEF RequestKind, Requests, Reads, Kinds
<1>2. RequestKind(where) # "login" => where # "login"
  BY DEF RequestKind, Reads
<1>3. HttpStep
  BY <1>1, <1>2 DEF HttpStep, Asked
<1>4. HttpInv'
  BY <1>3, HttpKeeps DEF ControlInv
<1>5. answer' = None /\ call'.kind = RequestKind(where)
  BY DEF Begin
<1>6. CommitInv'
  BY <1>5, NothingIsApart DEF CommitInv, Answers
<1> QED
  BY <1>3, <1>4, <1>5, <1>6, NothingIsApart DEF ControlInv, AnswerInv, KindInv, Answers

LEMMA OperationStep ==
  ASSUME ControlInv, NEW c \in Command, Operation(c), pc \in {"idle", "prompt"}
  PROVE  ControlInv' /\ HttpStep
<1>1. HttpInv'
  <2>1. Asked("login") /\ "login" \in Kinds
    BY DEF Operation, Asked, Kinds
  <2> QED
    BY <2>1, HttpKeeps DEF HttpStep, ControlInv
<1>2. wrong' \in BOOLEAN /\ disturbed' \in BOOLEAN
  BY Zenon DEF Operation
<1>3. commands' \in 0..MaxCommands
  BY ControlConstants DEF Operation, ControlInv, TypeOK
<1>4. TypeOK'
  BY <1>1, <1>2, <1>3 DEF Operation, ControlInv, TypeOK, HttpInv, Requests, fileVars
<1>5. RequestKind("login") = "login" /\ "login" \in Requests
  BY DEF RequestKind, Requests, Reads
<1> QED
  BY <1>4, <1>5, Requested DEF Operation

LEMMA KeepCandidateType ==
  ASSUME TypeOK, session' \in Session, KeepCandidate
  PROVE  /\ file' \in Configs \cup {None} /\ made' \in Configs \cup {None}
         /\ (file' = None) = (made' = None)
         /\ faults' \in 0..MaxFaults
<1>1. CASE file' = session'.candidate /\ made' = session'.running /\ UNCHANGED faults
  BY <1>1, ControlConstants DEF TypeOK, Session
<1>2. CASE Happens("disk") /\ UNCHANGED <<file, made>>
  BY <1>2, ControlConstants DEF TypeOK, Happens
<1> QED
  BY <1>1, <1>2 DEF KeepCandidate

LEMMA EndsProcessIs ==
  ASSUME ControlInv, EndsProcess
  PROVE  /\ HttpInv' /\ HttpStep /\ call' = None /\ answer' = None
         /\ pc' = "idle" /\ cmd' \in Command /\ session' = None
         /\ UNCHANGED <<dev, seen>>
<1>1. HttpInv' /\ HttpStep
  BY HttpKeeps DEF EndsProcess, HttpStep, ControlInv
<1>2. NoCommand \in Command
  BY ControlConstants DEF NoCommand, Command, Operations
<1> QED
  BY <1>1, <1>2 DEF EndsProcess, Forgotten

LEMMA UserStep ==
  ASSUME ControlInv, User
  PROVE  ControlInv' /\ HttpStep
<1>1. \A op \in Operations : Asks(op) \in Command
  BY ControlConstants DEF Asks, NoCommand, Command, Operations
<1>2. TypeOK /\ HttpInv /\ NoCommand \in Command
  BY ControlConstants DEF ControlInv, NoCommand, Command, Operations
<1>3. CASE Pull \/ WriteMemory \/ Backup \/ Shell \/ ShellWrite
  BY <1>1, <1>3, OperationStep DEF Pull, WriteMemory, Backup, Shell, ShellWrite, Operations
<1>4. CASE Restore
  <2>1. PICK b \in backups : Operation([Asks("restore") EXCEPT !.target = b])
    BY <1>4 DEF Restore
  <2>2. [Asks("restore") EXCEPT !.target = b] \in Command
    BY <1>1, <1>2 DEF TypeOK, Command, Operations
  <2> QED
    BY <1>4, <2>1, <2>2, OperationStep DEF Restore
<1>5. CASE Commit \/ ShellCommit
  <2>1. PICK check \in BOOLEAN, force \in BOOLEAN, target \in Configs, base \in Configs :
          Operation([op |-> "commit", target |-> target, base |-> base,
                     check |-> check, force |-> force])
    BY <1>2, <1>5 DEF Commit, ShellCommit, TypeOK, Session
  <2>2. [op |-> "commit", target |-> target, base |-> base, check |-> check, force |-> force]
          \in Command
    BY DEF Command, Operations
  <2> QED
    BY <1>5, <2>1, <2>2, OperationStep DEF Commit, ShellCommit
<1>6. CASE WriteFile
  <2>1. UNCHANGED httpVars /\ HttpStep /\ HttpInv'
    BY <1>2, <1>6, HttpKeeps DEF WriteFile, HttpStep
  <2>2. TypeOK'
    BY <1>2, <1>6, <2>1, ControlConstants DEF WriteFile, TypeOK, HttpInv, boundVars, historyVars
  <2>3. call' = None
    BY <1>6 DEF WriteFile, ControlInv, KindInv, Requests, Reads, httpVars
  <2> QED
    BY <1>6, <2>1, <2>2, <2>3, Rests DEF WriteFile, httpVars, historyVars
<1>7. CASE ShellLine
  <2>1. UNCHANGED httpVars /\ HttpStep /\ HttpInv'
    BY <1>2, <1>7, HttpKeeps DEF ShellLine, HttpStep
  <2>2. session' \in Session
    BY <1>2, <1>7 DEF ShellLine, TypeOK, Session
  <2>3. /\ file' \in Configs \cup {None} /\ made' \in Configs \cup {None}
        /\ (file' = None) = (made' = None)
        /\ faults' \in 0..MaxFaults
    BY <1>2, <1>7, <2>2, KeepCandidateType DEF ShellLine, TypeOK
  <2>4. TypeOK'
    BY <1>2, <1>7, <2>1, <2>2, <2>3, NoneIsApart DEF ShellLine, TypeOK, HttpInv, historyVars
  <2>5. call' = None
    BY <1>7 DEF ShellLine, ControlInv, KindInv, Requests, Reads, httpVars
  <2> QED
    BY <1>7, <2>1, <2>4, <2>5, Rests DEF ShellLine, httpVars, historyVars
<1>8. CASE ShellEnds
  <2>1. TypeOK'
    BY <1>2, <1>8, EndsProcessIs DEF ShellEnds, TypeOK, HttpInv, fileVars, boundVars, historyVars
  <2> QED
    BY <1>8, <2>1, EndsProcessIs, Rests DEF ShellEnds
<1> QED
  BY <1>3, <1>4, <1>5, <1>6, <1>7, <1>8 DEF User

(* ... and what the client does with an answer.                            *)

LEMMA StopsIs ==
  ASSUME ControlInv, Stops, call = None
  PROVE  /\ HttpInv' /\ HttpStep
         /\ call' = None /\ (answer' = None \/ answer' = answer)
         /\ pc' \in {"idle", "prompt"} /\ cmd' \in Command
         /\ session' = session /\ (pc' = "idle" <=> session = None)
         /\ UNCHANGED <<dev, seen>>
<1>1. CASE session = None /\ EndsProcess
  BY <1>1, EndsProcessIs
<1>2. CASE /\ session # None /\ pc' = "prompt" /\ cmd' = NoCommand
           /\ UNCHANGED <<httpVars, dev, seen, session>>
  <2>1. HttpStep /\ HttpInv'
    BY <1>2, HttpKeeps DEF ControlInv, HttpStep
  <2>2. NoCommand \in Command
    BY ControlConstants DEF NoCommand, Command, Operations
  <2> QED
    BY <1>2, <2>1, <2>2 DEF httpVars
<1> QED
  BY <1>1, <1>2 DEF Stops

(* A command ends, and has changed nothing but its files. *)
LEMMA StopsStep ==
  ASSUME ControlInv, Stops, call = None,
         cache' \in Configs \cup {None}, backups' \subseteq Configs,
         file' \in Configs \cup {None}, made' \in Configs \cup {None},
         (file' = None) = (made' = None), faults' \in 0..MaxFaults,
         UNCHANGED <<commands, historyVars>>
  PROVE  ControlInv' /\ HttpStep
<1>1. TypeOK'
  BY StopsIs DEF ControlInv, TypeOK, HttpInv, historyVars
<1>2. answer' = None \/ UNCHANGED <<answer, wrong>>
  BY StopsIs DEF historyVars
<1> QED
  BY <1>1, <1>2, StopsIs, Rests

LEMMA FailsStep ==
  ASSUME ControlInv, Fails, call = None
  PROVE  ControlInv' /\ HttpStep
<1>1. /\ Stops /\ UNCHANGED <<cache, file, made, backups, faults, commands, historyVars>>
  BY DEF Fails, fileVars, boundVars
<1> QED
  BY <1>1, StopsStep DEF ControlInv, TypeOK

LEMMA ReturnsStep ==
  ASSUME ControlInv, Returns, call = None
  PROVE  ControlInv' /\ HttpStep
<1>1. Stops /\ UNCHANGED <<cache, backups, commands, historyVars>>
  BY DEF Returns
<1>2. /\ file' \in Configs \cup {None} /\ made' \in Configs \cup {None}
      /\ (file' = None) = (made' = None)
      /\ faults' \in 0..MaxFaults
  <2>1. CASE session = None
    BY <2>1 DEF Returns, ControlInv, TypeOK
  <2>2. CASE session # None
    <3>1. session' \in Session
      BY <1>1, <2>2, StopsIs DEF ControlInv, TypeOK
    <3> QED
      BY <2>2, <3>1, KeepCandidateType DEF Returns, ControlInv
  <2> QED
    BY <2>1, <2>2
<1> QED
  BY <1>1, <1>2, StopsStep DEF ControlInv, TypeOK

LEMMA StoreStep ==
  ASSUME ControlInv, NEW where, Store(where), where \in Requests
  PROVE  ControlInv' /\ HttpStep
<1>1. HttpStep /\ HttpInv' /\ call' = None /\ UNCHANGED answer
  BY HttpKeeps DEF Store, Has, ControlInv, HttpStep, httpVars
<1>2. TypeOK'
  BY <1>1 DEF Store, Has, ControlInv, TypeOK, HttpInv, fileVars, boundVars, historyVars, Requests, Reads
<1> QED
  BY <1>1, <1>2, Rests DEF Store, historyVars

LEMMA GoOnStep ==
  ASSUME ControlInv, NEW where \in Requests, GoOn(where), answer \in {"good", "wrong"},
         where # "write",
         where = "download" /\ cmd.op = "commit" => SeenIsTrue /\ (cmd.force \/ seen = cmd.base)
  PROVE  ControlInv' /\ HttpStep
<1>1. HttpInv'
  <2>1. Asked(RequestKind(where)) /\ RequestKind(where) \in Kinds
    BY DEF GoOn, Asked, RequestKind, Requests, Reads, Kinds
  <2> QED
    BY <2>1, HttpKeeps DEF HttpStep, ControlInv
<1>2. TypeOK'
  BY <1>1 DEF GoOn, ControlInv, TypeOK, HttpInv, fileVars, boundVars, historyVars, Requests, Reads
<1>3. SeenIsTrue => SeenIsTrue'
  BY DEF SeenIsTrue, GoOn, historyVars
<1> QED
  BY <1>2, <1>3, Requested DEF GoOn

LEMMA AfterPlanStep ==
  ASSUME ControlInv, AfterPlan
  PROVE  ControlInv' /\ HttpStep
<1>1. pc = "plan" /\ call = None /\ answer \in {"good", "wrong"} /\ "plan" \in Requests
  BY DEF AfterPlan, Has, Requests, Reads
<1>2. CASE Fails
  BY <1>1, <1>2, FailsStep
<1>3. CASE Returns
  BY <1>1, <1>3, ReturnsStep
<1>4. CASE Store("plan")
  BY <1>1, <1>4, StoreStep
<1>5. CASE ~Drifted /\ GoOn("download")
  <2>1. SeenIsTrue /\ (cmd.force \/ seen = cmd.base)
    BY <1>1, <1>5 DEF ControlInv, CommitInv, Drifted
  <2>2. "download" \in Requests
    BY DEF Requests
  <2> QED
    BY <1>1, <1>5, <2>1, <2>2, GoOnStep
<1> QED
  BY <1>2, <1>3, <1>4, <1>5 DEF AfterPlan

LEMMA AfterDownloadStep ==
  ASSUME ControlInv, AfterDownload
  PROVE  ControlInv' /\ HttpStep
<1>1. /\ pc = "download" /\ call = None /\ answer \in {"good", "wrong"}
      /\ UNCHANGED <<cache, file, made, commands, historyVars>>
  BY DEF AfterDownload, Has
<1>2. /\ TypeOK /\ backups' \subseteq Configs /\ backups \subseteq backups'
      /\ SaveBackup => dev \in backups' \/ wrong
  BY <1>1 DEF AfterDownload, SaveBackup, ControlInv, TypeOK, AnswerInv
<1>3. faults' \in 0..MaxFaults
  BY <1>2, ControlConstants DEF AfterDownload, Happens, TypeOK
<1>4. CASE Stops
  BY <1>1, <1>2, <1>3, <1>4, StopsStep DEF TypeOK
<1>5. CASE /\ SaveBackup /\ cmd.op = "commit" /\ UNCHANGED faults
           /\ pc' = "write" /\ Begin("form") /\ UNCHANGED <<dev, cmd, seen, session>>
  <2>1. RequestKind("write") = "form" /\ "write" \in Requests /\ "form" \in Kinds
    BY DEF RequestKind, Requests, Reads, Kinds
  <2>2. HttpInv'
    <3>1. Asked("form")
      BY <1>1, <1>5 DEF Asked
    <3> QED
      BY <2>1, <3>1, HttpKeeps DEF HttpStep, ControlInv
  <2>3. TypeOK'
    BY <1>1, <1>2, <1>5, <2>1, <2>2 DEF TypeOK, HttpInv, historyVars
  <2>4. dev' \in backups' \/ disturbed' \/ wrong'
    BY <1>1, <1>2, <1>5 DEF historyVars
  <2>5. SeenIsTrue' /\ (cmd'.force \/ seen' = cmd'.base)
    BY <1>1, <1>5 DEF ControlInv, CommitInv, SeenIsTrue, historyVars
  <2> QED
    BY <1>1, <1>5, <2>1, <2>3, <2>4, <2>5, Requested
<1> QED
  BY <1>4, <1>5 DEF AfterDownload

LEMMA StoreStateStep ==
  ASSUME ControlInv, StoreState
  PROVE  ControlInv' /\ HttpStep
<1>1. call = None /\ pc = "store" /\ UNCHANGED <<backups, commands, historyVars>> /\ TypeOK
  BY DEF StoreState, ControlInv, KindInv, Requests, Reads
<1>2. CASE /\ Happens("disk") /\ cache' \in {cache, seen} /\ Stops
           /\ UNCHANGED <<file, made>>
  <2>1. faults' \in 0..MaxFaults
    BY <1>1, <1>2, ControlConstants DEF Happens, TypeOK
  <2> QED
    BY <1>1, <1>2, <2>1, StopsStep DEF TypeOK
<1>3. CASE /\ cache' = seen /\ Shown
           /\ IF session # None THEN KeepCandidate ELSE UNCHANGED <<file, made, faults>>
  <2>1. CASE ~(cmd.op = "shell" \/ session # None)
    <3>1. EndsProcess /\ UNCHANGED <<file, made, faults>> /\ session = None
      BY <1>3, <2>1 DEF Shown
    <3>2. Stops
      BY <3>1 DEF Stops
    <3> QED
      BY <1>1, <1>3, <3>1, <3>2, StopsStep DEF TypeOK
  <2>2. CASE cmd.op = "shell" \/ session # None
    <3>1. /\ pc' = "prompt" /\ cmd' = NoCommand
          /\ session' = [running |-> seen, candidate |-> seen]
          /\ UNCHANGED <<httpVars, dev, seen>>
      BY <1>3, <2>2 DEF Shown
    <3>2. session' \in Session /\ session' # None
      BY <1>1, <3>1, NoneIsApart DEF TypeOK, Session
    <3>3. NoCommand \in Command
      BY ControlConstants DEF NoCommand, Command, Operations
    <3>4. /\ file' \in Configs \cup {None} /\ made' \in Configs \cup {None}
          /\ (file' = None) = (made' = None)
          /\ faults' \in 0..MaxFaults
      BY <1>1, <1>3, <3>2, KeepCandidateType DEF TypeOK
    <3>5. HttpStep /\ HttpInv'
      BY <3>1, HttpKeeps DEF ControlInv, HttpStep
    <3>6. TypeOK'
      BY <1>1, <1>3, <3>1, <3>2, <3>3, <3>4, <3>5 DEF TypeOK, HttpInv, historyVars
    <3>7. call' = None /\ UNCHANGED <<answer, wrong>>
      BY <1>1, <3>1 DEF httpVars, historyVars
    <3> QED
      BY <3>1, <3>5, <3>6, <3>7, Rests
  <2> QED
    BY <2>1, <2>2
<1> QED
  BY <1>2, <1>3 DEF StoreState

LEMMA ClientStep ==
  ASSUME ControlInv, Client
  PROVE  ControlInv' /\ HttpStep
<1>1. CASE Raised
  BY <1>1, FailsStep DEF Raised
<1>2. CASE AfterLogin
  <2> DEFINE where == CASE cmd.op \in {"pull", "shell"} -> "read"
                        [] cmd.op = "commit" -> "plan"
                        [] cmd.op = "backup" -> "download"
                        [] cmd.op = "write-memory" -> "save"
                        [] cmd.op = "restore" -> "upload"
  <2>1. /\ where \in Requests /\ where # "write"
        /\ ~(where = "download" /\ cmd.op = "commit")
    BY DEF ControlInv, TypeOK, Command, Operations, Requests, Reads
  <2>2. GoOn(where) /\ answer \in {"good", "wrong"}
    BY <1>2 DEF AfterLogin, Has
  <2> HIDE DEF where
  <2> QED
    BY <2>1, <2>2, GoOnStep
<1>3. CASE AfterRead
  BY <1>3, StoreStep DEF AfterRead, Requests, Reads
<1>4. CASE AfterWrite \/ AfterConfirm \/ AfterSave
  <2>1. {"confirm", "save", "verify"} \subseteq Requests
    BY DEF Requests, Reads
  <2>2. call = None /\ answer \in {"good", "wrong"}
    BY <1>4 DEF AfterWrite, AfterConfirm, AfterSave, Has
  <2>3. \/ Fails \/ Returns
        \/ \E where \in {"confirm", "save", "verify"} : GoOn(where)
    BY <1>4 DEF AfterWrite, AfterConfirm, AfterSave, GivesUp
  <2> QED
    BY <2>1, <2>2, <2>3, GoOnStep, FailsStep, ReturnsStep
<1>5. CASE AfterUpload
  <2>1. /\ EndsProcess /\ call = None
        /\ UNCHANGED <<cache, file, made, backups, faults, commands, historyVars>>
    BY <1>5 DEF AfterUpload, Has, fileVars, boundVars
  <2>2. TypeOK'
    BY <2>1, EndsProcessIs DEF ControlInv, TypeOK, HttpInv, historyVars
  <2> QED
    BY <2>1, <2>2, EndsProcessIs, Rests
<1>6. CASE AfterVerify
  BY <1>6, StoreStep, FailsStep DEF AfterVerify, Has, GivesUp, Requests, Reads
<1> QED
  BY <1>1, <1>2, <1>3, <1>4, <1>5, <1>6, AfterPlanStep, AfterDownloadStep, StoreStateStep
  DEF Client

----------------------------------------------------------------------------
(* All steps. *)

LEMMA ControlStarts ==
  ASSUME Init
  PROVE  ControlInv
<1>1. HttpInv /\ call = None /\ answer = None
  BY HttpStarts DEF Init, HttpInit
<1>2. NoCommand \in Command /\ wrong \in BOOLEAN /\ disturbed \in BOOLEAN
  BY ControlConstants, Zenon DEF NoCommand, Command, Operations, Init
<1>3. TypeOK
  BY <1>1, <1>2, ControlConstants DEF Init, TypeOK, HttpInv
<1> QED
  BY <1>1, <1>3, NothingIsApart
  DEF Init, ControlInv, AnswerInv, KindInv, CommitInv, Answers

LEMMA ControlKeeps ==
  ASSUME ControlInv, [Next]_vars
  PROVE  ControlInv' /\ HttpStep
<1>1. CASE Wire \/ WireFails \/ SessionEnds
  <2>1. OnTheWire(Exchange \/ Raises \/ EndSession)
    BY <1>1 DEF Wire, WireFails, SessionEnds, OnTheWire
  <2>2. faults' \in 0..MaxFaults
    BY <1>1, ControlConstants DEF Wire, WireFails, SessionEnds, Happens, ControlInv, TypeOK
  <2> QED
    BY <2>1, <2>2, WireStep
<1>2. CASE Kill
  <2>1. /\ EndsProcess /\ faults' \in 0..MaxFaults
        /\ UNCHANGED <<cache, file, made, backups, commands, historyVars>>
    BY <1>2, ControlConstants DEF Kill, Happens, fileVars, ControlInv, TypeOK
  <2>2. TypeOK'
    BY <2>1, EndsProcessIs DEF ControlInv, TypeOK, HttpInv, historyVars
  <2> QED
    BY <2>1, <2>2, EndsProcessIs, Rests
<1>3. CASE Outside
  <2>1. HttpStep /\ HttpInv' /\ UNCHANGED <<call, answer, pc, cmd, seen, wrong>>
    BY <1>3, HttpKeeps DEF Outside, HttpStep, ControlInv, httpVars
  <2>2. disturbed' /\ disturbed' \in BOOLEAN
    BY <1>3, Zenon DEF Outside
  <2>3. faults' \in 0..MaxFaults
    BY <1>3, ControlConstants DEF Outside, Happens, ControlInv, TypeOK
  <2>4. TypeOK'
    BY <1>3, <2>1, <2>2, <2>3 DEF Outside, ControlInv, TypeOK, HttpInv, fileVars
  <2> QED
    BY <2>1, <2>2, <2>4 DEF ControlInv, AnswerInv, KindInv, CommitInv, SeenIsTrue
<1>4. CASE UNCHANGED vars
  <2>1. HttpStep /\ HttpInv'
    BY <1>4, HttpKeeps DEF HttpStep, ControlInv, vars
  <2>2. TypeOK'
    BY <1>4, <2>1 DEF vars, fileVars, boundVars, historyVars, ControlInv, TypeOK, HttpInv
  <2> QED
    BY <1>4, <2>1, <2>2
    DEF vars, httpVars, fileVars, historyVars, ControlInv, AnswerInv, KindInv, CommitInv, SeenIsTrue
<1> QED
  BY <1>1, <1>2, <1>3, <1>4, UserStep, ClientStep DEF Next

LEMMA ControlInvariant == Spec => []ControlInv
<1>1. Init => ControlInv
  BY ControlStarts
<1>2. ControlInv /\ [Next]_vars => ControlInv'
  BY ControlKeeps
<1> QED
  BY <1>1, <1>2, PTL DEF Spec

(* A form is carried out only while a request is under way. *)
LEMMA CarriedOutInCall ==
  ASSUME HttpInv, HttpStep, CarriedOut
  PROVE  call # None
<1>1. CASE UNCHANGED httpVars
  BY <1>1 DEF httpVars, CarriedOut
<1> QED
  BY <1>1 DEF HttpStep, Asked, Begin, Exchange, Raises, EndSession, Forgotten, CarriedOut

----------------------------------------------------------------------------
(* What mercswitchctl and its adapter promise.                             *)

(* Commands, their requests, the shell and the files stay what they are    *)
(* meant to be: a request under way has no answer yet, a candidate on disk *)
(* has a configuration it was made from, and only the shell a session.     *)
THEOREM ControlTypeCorrect == Spec => []TypeOK
BY ControlInvariant, PTL DEF ControlInv

(* Whenever the login session ends, before, in the middle of or after any  *)
(* request, however often, _get, _post and authenticate keep to Link: no   *)
(* form is carried out twice or reported answered without having been      *)
(* carried out, and a page is wrong only if the session has ended twice.   *)
THEOREM RequestImplementsLink == Spec => ImplementsLink
<1>1. Init => Contract!Init
  BY HttpStarts DEF Init
<1>2. ControlInv /\ [Next]_vars => [LinkStep]_linkVars
  BY ControlKeeps, HttpKeeps DEF ControlInv
<1> QED
  BY <1>1, <1>2, ControlInvariant, PTL
  DEF Spec, ImplementsLink, Contract!Spec, LinkStep, linkVars, Kind

(* A commit not forced writes only to a switch that still has the          *)
(* configuration its command began from: what the plan has found true is   *)
(* still known to be true when the form is carried out, after a download,  *)
(* a backup, and any logins on the way.                                    *)
THEOREM CommitNoticesDrift == Spec => DriftIsNoticed
<1>1. ControlInv /\ [Next]_vars =>
        [Writes /\ ~cmd.force => dev = cmd.base \/ disturbed \/ wrong]_vars
  <2> SUFFICES ASSUME ControlInv, [Next]_vars, Writes, ~cmd.force
               PROVE  dev = cmd.base \/ disturbed \/ wrong
    OBVIOUS
  <2>1. pc = "write" /\ call # None
    BY ControlKeeps, CarriedOutInCall DEF ControlInv, Writes
  <2> QED
    BY <2>1 DEF ControlInv, CommitInv, SeenIsTrue
<1> QED
  BY <1>1, ControlInvariant, PTL DEF Spec, DriftIsNoticed

(* ... and the configuration it replaces is in a backup by then.           *)
THEOREM BackupComesFirst == Spec => BackupBeforeWrite
<1>1. ControlInv /\ [Next]_vars => [Writes => dev \in backups \/ disturbed \/ wrong]_vars
  <2> SUFFICES ASSUME ControlInv, [Next]_vars, Writes
               PROVE  dev \in backups \/ disturbed \/ wrong
    OBVIOUS
  <2>1. pc = "write" /\ call # None
    BY ControlKeeps, CarriedOutInCall DEF ControlInv, Writes
  <2> QED
    BY <2>1 DEF ControlInv, CommitInv
<1> QED
  BY <1>1, ControlInvariant, PTL DEF Spec, BackupBeforeWrite
=============================================================================

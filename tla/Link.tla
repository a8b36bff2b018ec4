-------------------------------- MODULE Link --------------------------------
(***************************************************************************)
(* What the client may expect of one request to the switch, whatever login *)
(* sessions do meanwhile.  This is what Commit, Daemon and Control assume. *)
(*   A form that is answered has been carried out, and once, unless the    *)
(*   login session has ended since the last good answer.                   *)
(*   A page that is answered is the page, unless it has ended twice.       *)
(*   A file that is answered is the file, unless it has ended.             *)
(*   A request that raises may have been carried out, once.                *)
(***************************************************************************)
EXTENDS Naturals

CONSTANTS None, MaxEnds   \* BOUND: how often sessions end

VARIABLES
  kind,      \* of the request under way
  carried,   \* it has been carried out
  answer,    \* to the last request
  ended      \* how often the session has ended since the last good answer

Kinds == {"login", "page", "form", "file"}

Init == kind = None /\ carried = FALSE /\ answer = None /\ ended = 0

Begin ==
  /\ kind = None
  /\ kind' \in Kinds
  /\ carried' = FALSE /\ answer' = None
  /\ UNCHANGED ended

End ==
  /\ ended < MaxEnds
  /\ ended' = ended + 1
  /\ UNCHANGED <<kind, carried, answer>>

May(a, done) ==
  CASE a = "good" -> kind = "form" => done
    [] a = "wrong" -> /\ ~done /\ kind # "login"
                      /\ ended >= (IF kind = "page" THEN 2 ELSE 1)
    [] a = "raised" -> TRUE

Answer ==
  /\ kind # None
  /\ carried' \in IF kind = "form" THEN {carried, TRUE} ELSE {carried}
  /\ \E a \in {"good", "wrong", "raised"} :
       /\ May(a, carried')
       /\ answer' = a
       /\ ended' = IF a = "good" THEN 0 ELSE ended
  /\ kind' = None

(* The process that sent it is gone, and a new one starts without a login. *)
Forget == kind' = None /\ carried' = FALSE /\ answer' = None /\ ended' = 0

Spec == Init /\ [][Begin \/ End \/ Answer \/ Forget]_<<kind, carried, answer, ended>>
=============================================================================

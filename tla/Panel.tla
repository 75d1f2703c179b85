-------------------------------- MODULE Panel --------------------------------
(* PanelUsers, and beside it SignOn, which leads to PanelUsers' OIDCFind.  A
   behaviour is of one or of the other. *)
EXTENDS PanelUsers

CONSTANTS Browsers, StateIds, CodeIds   \* of SignOn

VARIABLES cookie, starts, codes, stage, callback, signedOn, back, disturbed

signOnVars == <<cookie, starts, codes, stage, callback, signedOn, back, disturbed>>

SSO == INSTANCE SignOn WITH pc <- stage, req <- callback, sessions <- signedOn

NoSignOn ==
  /\ cookie = <<>> /\ starts = <<>> /\ codes = <<>> /\ stage = <<>> /\ callback = <<>>
  /\ signedOn = <<>> /\ back = {} /\ disturbed = {}

(* Without single sign-on, or with it beside. *)
AccountsInit == Init /\ NoSignOn
AccountsSpec == AccountsInit /\ [][Next /\ UNCHANGED signOnVars]_<<vars, signOnVars>>

SideInit == Init /\ (NoSignOn \/ SSO!Init)
SideSpec ==
  /\ SideInit
  /\ [][\/ Next /\ stage = <<>> /\ UNCHANGED signOnVars
        \/ stage # <<>> /\ SSO!Next /\ UNCHANGED vars]_<<vars, signOnVars>>

(* A session comes of a start in its own browser that was not over, and a code signs
   in once (handleOIDCCallback). *)
RoundTrip == SSO!RoundTrip

(* A sign-on under way can still come back (handleOIDCCallback). *)
StateKept == SSO!StateKept
==============================================================================

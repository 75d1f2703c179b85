-------------------------------- MODULE SignOn --------------------------------
(***************************************************************************)
(* Single sign-on (internal/server/handlers_oidc.go, internal/auth/oidc.go): *)
(* a browser is sent to the identity provider with a state, which it also  *)
(* gets as a cookie, and comes back with the state and a code.  The panel  *)
(* itself keeps nothing in between: a browser has one such cookie for all  *)
(* its tabs, and takes cookies from whatever answer arrives.  State and    *)
(* code come back as two parameters of an address: the cookie vouches for  *)
(* the state, and nothing ties the code to it (neither nonce nor PKCE).    *)
(* Which account the code leads to is up to PanelUsers (OIDCFind on).      *)
(***************************************************************************)
EXTENDS Sequences

CONSTANTS
  Handlers,   \* goroutines serving callbacks
  Browsers,
  StateIds,   \* bounds: the states the panel may hand out, ...
  CodeIds     \* ... and the codes the provider may

VARIABLES
  cookie,     \* browser -> the state in its cookie, {} without one
  starts,     \* history: state -> the browser it was made for
  codes,      \* the provider's: which it has handed out, and which have been used
  pc, req,    \* callbacks in progress: [browser, state, code]
  sessions,   \* the callback of each session given, in turn
  back,       \* history: states that have come back
  disturbed   \* history: states whose cookie ran out, or whose browser has started
              \* again or got another callback's answer since

signOnVars == <<cookie, starts, codes, pc, req, sessions, back, disturbed>>

States == DOMAIN starts
NoRequest == [browser |-> "none", state |-> 0, code |-> 0]

(* Cookies and callbacks refer to states handed out before. *)
TypeOK ==
  /\ States \subseteq StateIds /\ starts \in [States -> Browsers]
  /\ cookie \in [Browsers -> SUBSET States]
  /\ codes \in [CodeIds -> {"unissued", "open", "used"}]
  /\ pc \in [Handlers -> {"idle", "exchange", "account", "answer"}]
  /\ req \in [Handlers -> [browser : Browsers, state : StateIds, code : CodeIds] \cup {NoRequest}]
  /\ \A h \in Handlers :
       pc[h] # "idle" => req[h] \in [browser : Browsers, state : States, code : CodeIds]
  /\ sessions \in Seq([browser : Browsers, state : StateIds, code : CodeIds])
  /\ \A i \in DOMAIN sessions : sessions[i].state \in States
  /\ back \subseteq States /\ disturbed \subseteq States

Init ==
  /\ cookie = [b \in Browsers |-> {}]
  /\ starts = <<>> /\ codes = [k \in CodeIds |-> "unissued"]
  /\ pc = [h \in Handlers |-> "idle"] /\ req = [h \in Handlers |-> NoRequest]
  /\ sessions = <<>> /\ back = {} /\ disturbed = {}

(* auth.NewState: a state nobody has had. *)
NewState == CHOOSE n \in StateIds \ States : TRUE

Of(b) == {s \in States : starts[s] = b}

(* handleOIDCStart. *)
Start ==
  /\ States # StateIds
  /\ \E b \in Browsers :
       /\ cookie' = [cookie EXCEPT ![b] = {NewState}]
       /\ starts' = [s \in States \cup {NewState} |-> IF s = NewState THEN b ELSE starts[s]]
       /\ disturbed' = disturbed \cup Of(b)
  /\ UNCHANGED <<codes, pc, req, sessions, back>>

(* The cookie is for ten minutes. *)
Expire ==
  /\ \E b \in Browsers :
       /\ cookie[b] # {}
       /\ cookie' = [cookie EXCEPT ![b] = {}]
       /\ disturbed' = disturbed \cup cookie[b]
  /\ UNCHANGED <<starts, codes, pc, req, sessions, back>>

(* Somebody signs in at the provider, where a browser was sent. *)
Authorize ==
  /\ States # {}
  /\ \E k \in CodeIds : codes[k] = "unissued" /\ codes' = [codes EXCEPT ![k] = "open"]
  /\ UNCHANGED <<cookie, starts, pc, req, sessions, back, disturbed>>

Become(h, step, record) == pc' = [pc EXCEPT ![h] = step] /\ req' = [req EXCEPT ![h] = record]

(* Mutant: any state will do. *)
CallbackUnchecked(h) ==
  /\ pc[h] = "idle"
  /\ \E b \in Browsers, s \in States, k \in CodeIds :
       /\ cookie[b] # {}
       /\ Become(h, "exchange", [browser |-> b, state |-> s, code |-> k])
       /\ back' = back \cup {s}
  /\ UNCHANGED <<cookie, starts, codes, sessions, disturbed>>

(* Mutant: the cookie is taken away before it is compared. *)
CallbackWiping(h) ==
  /\ pc[h] = "idle"
  /\ \E b \in Browsers, s \in States, k \in CodeIds :
       IF s \in cookie[b]
       THEN /\ Become(h, "exchange", [browser |-> b, state |-> s, code |-> k])
            /\ back' = back \cup {s} /\ UNCHANGED cookie
       ELSE cookie' = [cookie EXCEPT ![b] = {}] /\ UNCHANGED <<pc, req, back>>
  /\ UNCHANGED <<starts, codes, sessions, disturbed>>

(* handleOIDCCallback, up to the exchange.  Any browser may be given any address,
   and again, its state and its code chosen apart: another state than the cookie's
   is answered and changes nothing. *)
Callback(h) ==
  /\ pc[h] = "idle"
  /\ \E b \in Browsers, k \in CodeIds : \E s \in cookie[b] :
       /\ Become(h, "exchange", [browser |-> b, state |-> s, code |-> k])
       /\ back' = back \cup {s}
  /\ UNCHANGED <<cookie, starts, codes, sessions, disturbed>>

(* Exchange: the provider takes a code of its own, and once. *)
Exchange(h) ==
  /\ pc[h] = "exchange"
  /\ LET k == req[h].code
     IN \/ /\ codes[k] = "open"
           /\ codes' = [codes EXCEPT ![k] = "used"]
           /\ pc' = [pc EXCEPT ![h] = "account"]
        \/ pc' = [pc EXCEPT ![h] = "answer"] /\ UNCHANGED codes
  /\ UNCHANGED <<cookie, starts, req, sessions, back, disturbed>>

(* An account is found or made and a session opened, or the database refuses. *)
Account(h) ==
  /\ pc[h] = "account"
  /\ sessions' \in {sessions, Append(sessions, req[h])}
  /\ pc' = [pc EXCEPT ![h] = "answer"]
  /\ UNCHANGED <<cookie, starts, codes, req, back, disturbed>>

(* The answer, whatever it is, takes the state's cookie away - whichever the
   browser has by then. *)
Answer(h) ==
  /\ pc[h] = "answer"
  /\ LET b == req[h].browser
     IN /\ cookie' = [cookie EXCEPT ![b] = {}]
        /\ disturbed' = disturbed \cup Of(b)
  /\ Become(h, "idle", NoRequest)
  /\ UNCHANGED <<starts, codes, sessions, back>>

(* The browser leaves before the answer. *)
Leave(h) ==
  /\ pc[h] # "idle"
  /\ Become(h, "idle", NoRequest)
  /\ UNCHANGED <<cookie, starts, codes, sessions, back, disturbed>>

Next ==
  \/ Start \/ Expire \/ Authorize
  \/ \E h \in Handlers : Callback(h) \/ Exchange(h) \/ Account(h) \/ Answer(h) \/ Leave(h)

Spec == Init /\ [][Next]_signOnVars

------------------------------------------------------------------------------
(* Properties. *)

(* "The callback can verify the round-trip": every session comes of a start in its own
   browser, whatever addresses that was given since and however many of its tabs were
   signing in; a start that has run out, was followed by another or has been answered
   lets nobody in any more; and a code signs in once.  Of the code it says no more:
   that it was given for this start, nothing in the callback checks. *)
RoundTrip ==
  /\ \A i \in DOMAIN sessions : starts[sessions[i].state] = sessions[i].browser
  /\ \A b \in DOMAIN cookie : cookie[b] \cap disturbed = {}
  /\ \A i, j \in DOMAIN sessions : sessions[i].code = sessions[j].code => i = j

(* A sign-on that has not come back yet still can: nothing takes its cookie away
   but time, another start in this browser and the answer to another callback. *)
StateKept ==
  \A s \in States : s \notin back /\ s \notin disturbed => s \in cookie[starts[s]]
==============================================================================

------------------------------- MODULE Bootstrap -------------------------------
(***************************************************************************)
(* The certificate that webtermin makes for itself                         *)
(* (internal/server/tls.go), over the starts, crashes and restarts of its  *)
(* process.  Certificate and key are two files, written one after the      *)
(* other; a file being written is Cut.                                     *)
(***************************************************************************)
EXTENDS Naturals

CONSTANT MaxPairs   \* bound: pairs generated

None == 0
Cut == MaxPairs + 1

VARIABLES
  phase,   \* of the process: "down", a step of EnsureTLSCertificate, "serving",
           \* or "unloadable", which exits and is started again
  cert,    \* tls/cert.pem: None, Cut or the pair it is of
  key,     \* tls/key.pem
  made,    \* pairs generated
  served,  \* history: the pair that browsers have seen, or None
  cutShort \* history: a start ended with the certificate opened and the key not whole

tlsVars == <<phase, cert, key, made, served, cutShort>>

(* Files hold nothing, a part or a whole of something generated. *)
TypeOK ==
  /\ phase \in {"down", "stat", "openCert", "cert", "openKey", "key", "load", "serving", "unloadable"}
  /\ cert \in None..Cut /\ key \in None..Cut
  /\ made \in 0..MaxPairs /\ served \in 0..MaxPairs
  /\ cutShort \in BOOLEAN

Init ==
  /\ phase = "down" /\ cert = None /\ key = None /\ made = 0
  /\ served = None /\ cutShort = FALSE

Start ==
  /\ phase \in {"down", "unloadable"}
  /\ phase' = "stat"
  /\ UNCHANGED <<cert, key, made, served, cutShort>>

(* Mutant: a pair for every start. *)
StatNot ==
  /\ phase = "stat" /\ made < MaxPairs
  /\ phase' = "openCert" /\ made' = made + 1
  /\ UNCHANGED <<cert, key, served, cutShort>>

(* Whether there is a certificate decides whether both are made. *)
Stat ==
  /\ phase = "stat"
  /\ IF cert = None
     THEN made < MaxPairs /\ phase' = "openCert" /\ made' = made + 1
     ELSE phase' = "load" /\ UNCHANGED made
  /\ UNCHANGED <<cert, key, served, cutShort>>

(* generateSelfSigned: each file is opened, truncated, written and closed. *)
OpenCert ==
  /\ phase = "openCert"
  /\ phase' = "cert" /\ cert' = Cut
  /\ UNCHANGED <<key, made, served, cutShort>>

WriteCert ==
  /\ phase = "cert"
  /\ phase' = "openKey" /\ cert' = made
  /\ UNCHANGED <<key, made, served, cutShort>>

OpenKey ==
  /\ phase = "openKey"
  /\ phase' = "key" /\ key' = Cut
  /\ UNCHANGED <<cert, made, served, cutShort>>

WriteKey ==
  /\ phase = "key"
  /\ phase' = "load" /\ key' = made
  /\ UNCHANGED <<cert, made, served, cutShort>>

(* LoadX509KeyPair wants two whole files of one pair. *)
Load ==
  /\ phase = "load"
  /\ IF cert = key /\ cert # Cut
     THEN phase' = "serving" /\ served' = cert
     ELSE phase' = "unloadable" /\ UNCHANGED served
  /\ UNCHANGED <<cert, key, made, cutShort>>

(* A step fails, the process is stopped or killed, the host goes down. *)
Stop ==
  /\ phase # "down"
  /\ phase' = "down"
  /\ cutShort' = (cutShort \/ phase \in {"cert", "openKey", "key"})
  /\ UNCHANGED <<cert, key, made, served>>

(* Somebody removes data_dir/tls. *)
Remove ==
  /\ phase = "down"
  /\ cert' = None /\ key' = None /\ served' = None /\ cutShort' = FALSE
  /\ UNCHANGED <<phase, made>>

Next ==
  \/ Start \/ Stat \/ OpenCert \/ WriteCert \/ OpenKey \/ WriteKey
  \/ Load \/ Stop \/ Remove

Spec == Init /\ [][Next]_tlsVars

(* "generated on first run": the pair that was served once stays the pair that
   is stored, over any number of restarts, and no start fails to load a pair
   unless an earlier one was cut short between the two files. *)
PairKept ==
  /\ served # None => cert = served /\ key = served
  /\ phase = "unloadable" => cutShort
==============================================================================

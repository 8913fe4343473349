----------------------------- MODULE MCProcess ------------------------------
(***************************************************************************)
(* Components inside one process, for TLC: its jobs, the channel adaptor   *)
(* without any discipline of its callers, the end of the process, MQTT     *)
(* subscriptions, and the messages a parquet writer sanitizes.  They have  *)
(* no variable in common, so one behaviour runs the one that part names    *)
(* while the others stay at one initial state: the states of the run are   *)
(* the sum of theirs, not the product.                                     *)
(***************************************************************************)
EXTENDS JobControl, Shutdown, Subscriptions, ChanAdaptor, Sanitize

CONSTANT j1

VARIABLE part

processVars == <<part, jobVars, vars, shutdownVars, subVars, sanitizeVars>>

Parts == {"jobs", "chan", "shutdown", "subscriptions", "sanitize"}

JobSchedules == [{j1} -> {"cron", "fine", "off", "odd", "bad"}]

StopLasts ==
  [h \in Handlers |-> CASE h = "gin" -> 3 [] h = "file" -> 0 [] OTHER -> GraceShutdown]

\* "bad1" and "bad2" differ in their invalid bytes alone.
Repairs == [s \in Strings |-> IF s = "good" THEN s ELSE "replaced"]

\* Messages: a struct of two fields, one of them of any type.
Node(kind, text, kids) == [kind |-> kind, text |-> text, kids |-> kids]
Str(text) == Node("string", text, <<>>)
Strs == {Str("good"), Str("bad1"), Str("bad2")}
Ptrs(S) == {Node("ptr", "", <<v>>) : v \in S} \cup {Node("ptr", "nil", <<>>)}
Ifaces(S) == {Node("iface", "", <<v>>) : v \in S}
Lists(kind, S) == {Node(kind, "", s) : s \in BoundedSeq(S, 2)}
Maps(K, S) ==
  {Node("map", "", [i \in DOMAIN kv[1] |-> Node("pair", "", <<kv[1][i], kv[2][i]>>)]) :
     kv \in {kv \in BoundedSeq(K, 2) \X BoundedSeq(S, 2) :
               Len(kv[1]) = Len(kv[2]) /\ IsInjective(kv[1])}}
Field(text, v) == Node("field", text, <<v>>)

Shallow == Strs \cup Ptrs(Strs) \cup Ifaces(Strs) \cup Lists("slice", Strs)
             \cup Lists("array", Strs) \cup Maps(Strs, Strs)
             \cup {Node("other", "", <<>>), Node("slice", "nil", <<>>), Node("map", "nil", <<>>)}
Deep == Shallow \cup Ptrs(Shallow) \cup Ifaces(Shallow)
          \cup {Node("slice", "", <<v>>) : v \in Shallow}
          \cup Maps(Strs, Ptrs({Str("good"), Str("bad1")}))
          \cup Maps(Ifaces(Strs), {Str("bad1")})
Messages == {Node("struct", "", <<Field(text, v), Field("exported", s)>>) :
               text \in {"exported", "hidden"}, v \in Deep, s \in {Str("good"), Str("bad1")}}

-----------------------------------------------------------------------------
\* Of the initial states of a part that does not run, one is enough.
ProcessInit ==
  /\ part \in Parts
  /\ IF part = "jobs" THEN TRUE
     ELSE configured = FALSE /\ schedule = CHOOSE s \in Schedules : TRUE
  /\ IF part = "shutdown" THEN TRUE
     ELSE order = SetToSeq(Handlers) /\ delay = 0 /\ inFlight = FALSE
  /\ IF part = "sanitize" THEN TRUE
     ELSE form = "nil" /\ schema = FALSE /\ body = CHOOSE v \in Bodies : TRUE
  /\ JobControlInit /\ ShutdownInit /\ SubscriptionsInit /\ Init /\ SanitizeInit

Alone(p, Action) ==
  /\ part = p /\ part' = part
  /\ Action
  /\ p # "jobs" => UNCHANGED jobVars
  /\ p # "chan" => UNCHANGED vars
  /\ p # "shutdown" => UNCHANGED shutdownVars
  /\ p # "subscriptions" => UNCHANGED subVars
  /\ p # "sanitize" => UNCHANGED sanitizeVars

ProcessNext ==
  \/ Alone("jobs", JobControlNext)
  \/ Alone("chan", Next)
  \/ Alone("shutdown", ShutdownNext)
  \/ Alone("subscriptions", SubscriptionsNext)
  \/ Alone("sanitize", SanitizeMessage)

ProcessSpec == ProcessInit /\ [][ProcessNext]_processVars

-----------------------------------------------------------------------------
PartsTypeOK ==
  CASE part = "jobs" -> JobControlTypeOK
    [] part = "chan" -> TypeOK
    [] part = "shutdown" -> ShutdownTypeOK
    [] part = "subscriptions" -> SubscriptionsTypeOK
    [] part = "sanitize" -> form \in Forms /\ schema \in BOOLEAN /\ body \in Bodies
=============================================================================

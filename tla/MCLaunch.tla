------------------------------ MODULE MCLaunch ------------------------------
(* Instances of Launch for TLC.                                            *)
EXTENDS Launch

Window(enabled, start, end, days) ==
  <<[enabled |-> enabled, start |-> start, end |-> end, days |-> days]>>

Times == {<<0, 0>>, <<8, 30>>, <<17, 0>>, <<23, 59>>, <<24, 0>>, <<8, 60>>,
          <<8, -1>>, <<8>>}

DayLists == {<<>>, <<"mon">>, <<"tues", "tuesday">>, <<"sun", "sat">>, <<"mon", "lun">>}

Hours(enabled, start, end, days) ==
  [Minimal EXCEPT !.hours = Window(enabled, start, end, days)]

Switches == {<<>>, <<TRUE>>, <<FALSE>>}

Schedules ==
  {Hours(enabled, start, end, <<"mon">>) :
     enabled \in Switches, start \in Times, end \in Times}
  \cup {[Hours(enabled, <<8, 30>>, end, days) EXCEPT !.timezone = zone] :
         enabled \in Switches, end \in {<<8, 0>>, <<17, 0>>}, days \in DayLists,
         zone \in {"known", "unknown"}}

Idles ==
  {[Minimal EXCEPT !.idle = idle, !.legacy = legacy] :
     idle \in {<<>>, <<-2>>, <<0>>, <<1>>, <<8>>, <<9>>, <<10>>, <<11>>, <<60>>},
     legacy \in {"absent", "null", "set"}}

Strings == {<<>>, <<"">>, <<"mine">>}

Places ==
  {[Minimal EXCEPT !.database = d, !.collection = c, !.document = n, !.sshTarget = t] :
     d \in Strings, c \in Strings, n \in Strings, t \in Strings}

Numbers ==
  {[Minimal EXCEPT !.connect = c, !.wait = w, !.swap = s, !.bootGB = b, !.blank = k] :
     c \in {<<>>, <<0>>, <<2>>}, w \in {<<>>, <<-1>>, <<7>>}, s \in {<<>>, <<-1>>, <<0>>},
     b \in {0, 10}, k \in {{}, {"gcp.zone"}}}

TheDetail(zone, type, zones, message) ==
  [zone |-> zone, vmType |-> type, zonesAvailable |-> zones, message |-> message]

SomeDetails ==
  {TheDetail("", "", <<>>, ""), TheDetail("a", "", <<"", "b">>, "m"),
   TheDetail("", "n2", <<"b", "", "c">>, ""),
   TheDetail("d", "e2", <<"x", "y", "z">>, "n")}

Errors == {[code |-> code, details |-> details, message |-> "item"] :
             code \in {Exhausted, ExhaustedWithDetails, "QUOTA_EXCEEDED"},
             details \in UNION {[1..n -> SomeDetails] : n \in 0..2}}

TheFailure(errors, api, status, items, quotes) ==
  [errors |-> errors, zone |-> "u", api |-> api, status |-> status, items |-> items,
   quotes |-> quotes]

Quota == [code |-> "QUOTA_EXCEEDED", details |-> <<>>, message |-> "quota"]

Items(reasons) == [i \in DOMAIN reasons |-> [reason |-> reasons[i], message |-> "said"]]

SomeFailures ==
  {TheFailure(errors, TRUE, 503, <<>>, {}) :
     errors \in {<<e>> : e \in Errors} \cup {<<Quota, e>> : e \in Errors}
                \cup {<<e, f>> : e \in Errors, f \in {g \in Errors : g.details = <<>>}}}
  \cup
  {TheFailure(<<>>, api, status, Items(reasons), quotes) :
     api \in BOOLEAN, status \in {503, 400},
     reasons \in {<<>>, <<"rateLimit">>, <<Exhausted>>,
                  <<"rateLimit", ExhaustedWithDetails>>},
     quotes \in SUBSET CapacityCodes}

Specs == {<<1>>, <<2>>, <<1, 2>>, <<2, 2>>, <<0>>, <<65536, 1>>, <<1, NotANumber>>,
          <<1, 2, 1>>, <<>>}

Args(specs, families, taken) ==
  [specs |-> specs, families |-> families, taken |-> taken]

Arguments ==
  {Args(specs, families, taken) :
     specs \in {<<s>> : s \in Specs} \cup {<<s, t>> : s \in Specs, t \in Specs},
     families \in {Loopback, {"127.0.0.1"}},
     taken \in {{}, {<<"127.0.0.1", 1>>}, {<<"::1", 2>>}}}

SomeInvocations ==
  {[config |-> c, args |-> Args(<<<<1>>>>, Loopback, {})] :
     c \in Schedules \cup Idles \cup Places \cup Numbers}
  \cup {[config |-> Minimal, args |-> a] : a \in Arguments}
=============================================================================

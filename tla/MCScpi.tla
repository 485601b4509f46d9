------------------------------- MODULE MCScpi -------------------------------
(***************************************************************************)
(* One client on the network and one on the serial line; a parameter and   *)
(* an RPC of one module, a parameter of another that has the same name,    *)
(* and two measured components.                                            *)
(***************************************************************************)
EXTENDS Scpi, TLC

CONSTANTS net, ser, volt, amp, par, rival, future, rpc

MCName == par :> "PAR_Interval" @@ rival :> "PAR_Interval" @@ future :> "PAR_Later" @@ rpc :> "RPC_Save"
MCEntity == par :> "dft" @@ rpc :> "dft" @@ rival :> "rms" @@ future :> "rms"
MCSystem == "over" :> "ques"

get(t) == [kind |-> "parameter", target |-> t, query |-> TRUE, value |-> 0]
set(t, v) == [kind |-> "parameter", target |-> t, query |-> FALSE, value |-> v]
call(t, isAsked) == [kind |-> "rpc", target |-> t, query |-> isAsked, params |-> "right"]
measure(model, comps) ==
  [kind |-> "measure", query |-> model # "INIT", node |-> [model |-> model, components |-> comps]]
write(system, field, bits) ==
  [kind |-> "register", query |-> FALSE, system |-> system, field |-> field, value |-> bits]
standard(kind, isAsked, new) == [kind |-> kind, query |-> isAsked, value |-> new]

wrong == [kind |-> "wrong", query |-> TRUE]
identity == standard("*IDN", TRUE, {})
opc == standard("*OPC", FALSE, {})
cls == standard("*CLS", FALSE, {})

MCLine ==
  {<<set(rival, 1), get(par), identity>>,
   <<set(par, 2), opc, get(rival)>>,
   <<call(rpc, TRUE), measure("MEASURE", <<volt, amp>>)>>,
   <<measure("INIT", <<volt>>), measure("FETCH", <<volt, amp>>)>>,
   <<write("ques", "ptr", {"over"}), write("ques", "enable", {"over"}),
     standard("*SRE", FALSE, {"ques", "esb"}), standard("*ESE", FALSE, TRUE),
     wrong, set(future, 1)>>,
   <<set(par, 1), standard("error", TRUE, {}), opc, cls>>}
=============================================================================

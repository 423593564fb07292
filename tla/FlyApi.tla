------------------------------- MODULE FlyApi -------------------------------
(***************************************************************************)
(* The generated client of pkg/flymachines, for the calls the deployer     *)
(* makes on an app: the request each of them builds, and what each of them *)
(* makes of an answer.                                                     *)
(*                                                                         *)
(* A request is a method, the segments of a path, and what goes along in   *)
(* the query or the body.  An answer is a status and a body: "json" that   *)
(* decodes, "garbled" json that does not, "other" when the content type is *)
(* not json, "cut" when it cannot be read to its end, and "none" when no   *)
(* answer comes at all.  A response is a status, 0 for an error, and the   *)
(* decoded value, if the function decodes one.                             *)
(***************************************************************************)
EXTENDS Naturals, Sequences

CONSTANT Nil

Request(method, path, data) == [method |-> method, path |-> path, data |-> data]
Answer(status, value) == [status |-> status, body |-> "json", value |-> value]

-----------------------------------------------------------------------------
(***************************************************************************)
(* Requests.                                                               *)
(***************************************************************************)
AppsCreateRequest(name) == Request("POST", <<"apps">>, name)
AppsDeleteRequest(name) == Request("DELETE", <<"apps", name>>, Nil)
AppsShowRequest(name) == Request("GET", <<"apps", name>>, Nil)

\* Without parameters: all machines, except those deleted.
MachinesListRequest(name) == Request("GET", <<"apps", name, "machines">>, Nil)
MachinesCreateRequest(name, config) ==
    Request("POST", <<"apps", name, "machines">>, config)
MachinesDeleteRequest(name, id) ==
    Request("DELETE", <<"apps", name, "machines", id>>, "force")
MachinesShowRequest(name, id) ==
    Request("GET", <<"apps", name, "machines", id>>, Nil)
MachinesUpdateRequest(name, id, update) ==
    Request("POST", <<"apps", name, "machines", id>>, update)

MachinesListEventsRequest(name, id) ==
    Request("GET", <<"apps", name, "machines", id, "events">>, Nil)
MachinesRestartRequest(name, id) ==
    Request("POST", <<"apps", name, "machines", id, "restart">>, Nil)
MachinesStartRequest(name, id) ==
    Request("POST", <<"apps", name, "machines", id, "start">>, Nil)
MachinesStopRequest(name, id) ==
    Request("POST", <<"apps", name, "machines", id, "stop">>, Nil)
MachinesSuspendRequest(name, id) ==
    Request("POST", <<"apps", name, "machines", id, "suspend">>, Nil)

SecretCreateRequest(name, key, value) ==
    Request("POST", <<"apps", name, "secrets", key, "type", "string">>, value)

-----------------------------------------------------------------------------
(***************************************************************************)
(* Responses.                                                              *)
(***************************************************************************)
Failed == [status |-> 0, value |-> Nil]

\* Errors of json, at a status the function decodes, are errors of the call; a
\* body of another type is not looked at.  Only a 200 is decoded into a value.
ParseAs(decoded, rsp) ==
    IF rsp.body \in {"none", "cut"} \/ (rsp.body = "garbled" /\ rsp.status \in decoded)
    THEN Failed
    ELSE [status |-> rsp.status,
          value |-> IF rsp.body = "json" /\ rsp.status \in decoded \cap {200}
                    THEN rsp.value ELSE Nil]

ParseAppsCreateResponse(rsp) == ParseAs({400}, rsp)
ParseAppsDeleteResponse(rsp) == ParseAs({}, rsp)
ParseAppsShowResponse(rsp) == ParseAs({200}, rsp)
ParseMachinesListResponse(rsp) == ParseAs({200}, rsp)
ParseMachinesCreateResponse(rsp) == ParseAs({200}, rsp)
ParseMachinesDeleteResponse(rsp) == ParseAs({}, rsp)
ParseMachinesShowResponse(rsp) == ParseAs({200}, rsp)
ParseMachinesUpdateResponse(rsp) == ParseAs({200, 400}, rsp)
ParseMachinesListEventsResponse(rsp) == ParseAs({200}, rsp)
ParseMachinesRestartResponse(rsp) == ParseAs({400}, rsp)
ParseMachinesStartResponse(rsp) == ParseAs({}, rsp)
ParseMachinesStopResponse(rsp) == ParseAs({400}, rsp)
ParseMachinesSuspendResponse(rsp) == ParseAs({}, rsp)
ParseSecretCreateResponse(rsp) == ParseAs({400}, rsp)
=============================================================================

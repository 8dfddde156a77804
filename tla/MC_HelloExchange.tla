-------------------------- MODULE MC_HelloExchange --------------------------
(***************************************************************************)
(* Texts on both sides of every limit, one that is no UTF-8 and grows when *)
(* it is repaired, one that loses a byte order mark and becomes another.   *)
(* Strangers send bodies of every shape, and the messages of our own       *)
(* programs with one field changed.  At most two capabilities in a         *)
(* message instead of sixteen.                                             *)
(***************************************************************************)
EXTENDS HelloExchange

Texts == {"", "1.0", "windows", "text_v1", "file_v1", "voice_v1", "BOM text_v1", "latin-1", "latin-1 repaired",
          "17 bytes", "32 bytes", "33 bytes", "65 bytes", "nope", "id 1", "id 2"}
TextBytes ==
  [text \in Texts |->
    CASE text = "" -> 0
      [] text = "1.0" -> 3
      [] text \in {"windows", "text_v1", "file_v1"} -> 7
      [] text = "BOM text_v1" -> 10
      [] text = "latin-1" -> 16
      [] text \in {"17 bytes", "latin-1 repaired"} -> 17
      [] text = "voice_v1" -> 8
      [] text = "32 bytes" -> 32
      [] text = "33 bytes" -> 33
      [] text = "65 bytes" -> 65
      [] text = "nope" -> 4
      [] text \in {"id 1", "id 2"} -> 36]
Utf8Texts == Texts \ {"latin-1"}
TextThroughQt ==
  [text \in Texts |-> CASE text = "latin-1" -> "latin-1 repaired"
                        [] text = "BOM text_v1" -> "text_v1"
                        [] OTHER -> text]
Ids == {"id 1", "id 2"}

\* One more than fit into a message.
ServerCapabilities == {"text_v1", "file_v1", "voice_v1"}

\* A good request with any capabilities, and good ones with one bad field.
GoodDto == [client_version |-> "1.0", platform |-> "windows", capabilities |-> {"text_v1"}]
Dtos ==
  {[GoodDto EXCEPT !.capabilities = caps] :
     caps \in {{}, {"text_v1"}, {"text_v1", "nope"}, {"BOM text_v1", "file_v1"}, {"65 bytes"},
               ServerCapabilities}}
    \union {[GoodDto EXCEPT !.client_version = text] : text \in {"", "32 bytes", "33 bytes"}}
    \union {[GoodDto EXCEPT !.platform = "latin-1"]}
ClientRequests == [id : Ids \union {""}, request : Dtos]

S(text) == AsString(text)
List(items) == [array |-> items]
Obj(fields) == [object |-> fields]
Null == [null |-> TRUE]

\* The same object with one field dropped or changed.
Changed(object, key, values) == {[object EXCEPT ![key] = v] : v \in values \union {Absent}}

Caps == {Null, List(<<>>), List(<<S("file_v1"), S("file_v1")>>), List(<<S("BOM text_v1"), S("text_v1")>>),
         List(<<S("text_v1"), Null>>), List(<<S("")>>), List(<<S("65 bytes")>>),
         List(<<S("text_v1"), S("text_v1"), S("text_v1")>>)}
Numbers(most) == {Null} \union {[number |-> n] : n \in {-2, -1, 0, 1, 2 * most, 2 * most + 1, 2 * most + 2}}

GoodRequestData == [client_version |-> S("1.0"), platform |-> S("windows"),
                    capabilities |-> List(<<S("text_v1"), S("file_v1")>>)]
RequestDatas ==
  {GoodRequestData} \union Changed(GoodRequestData, "client_version", {Null, S(""), S("33 bytes")})
    \union Changed(GoodRequestData, "platform", {Null, S(""), S("17 bytes")})
    \union Changed(GoodRequestData, "capabilities", Caps)

GoodResponseData ==
  [server_version |-> S("1.0"), server_time |-> [number |-> 2], max_json |-> [number |-> 2],
   max_text |-> [number |-> 2], heartbeat_idle |-> [number |-> 2], timeout |-> [number |-> 2],
   capabilities |-> List(<<S("text_v1")>>)]
ResponseDatas ==
  {GoodResponseData} \union Changed(GoodResponseData, "server_version", {Null, S(""), S("33 bytes")})
    \union Changed(GoodResponseData, "server_time", Numbers(kMaxSafeInteger))
    \union UNION {Changed(GoodResponseData, key, Numbers(kMaxUint32)) : key \in Counts}
    \union Changed(GoodResponseData, "capabilities", Caps)

\* Whole messages: every data with a good id, and every id with good and bad data.
Roots(root, datas) ==
  {[root EXCEPT !.data = Obj(d)] : d \in datas}
    \union {[root EXCEPT !.request_id = i, !.data = d] :
              i \in {S("id 2"), S("nope"), S(""), Null, Absent}, d \in {root.data, Null, Absent}}
Bodies(roots) ==
  {[oversized |-> FALSE, json |-> Obj(root)] : root \in roots}
    \union {[oversized |-> TRUE, json |-> json] : json \in {Malformed} \union {Obj(root) : root \in roots}}
    \union {[oversized |-> FALSE, json |-> json] : json \in {Malformed, Null, List(<<>>)}}

GoodRequest == [request_id |-> S("id 1"), data |-> Obj(GoodRequestData)]
GoodResponse == [request_id |-> S("id 1"), ok |-> [bool |-> TRUE], data |-> Obj(GoodResponseData)]
RequestBodies == Bodies(Roots(GoodRequest, RequestDatas))
ResponseBodies ==
  Bodies(Roots(GoodResponse, ResponseDatas) \union Changed(GoodResponse, "ok", {Null, [bool |-> FALSE]}))
=============================================================================

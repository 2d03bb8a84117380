------------------------------- MODULE OneBot -------------------------------
(***************************************************************************)
(* src/onebot: what the bot makes of a frame the peer sends, and of the    *)
(* data of a reply.  The parsers read JSON in one of two ways: `if (root   *)
(* .get(k)) |v|` gives null when a key is missing, `.?` and a union field  *)
(* of another type (`.integer`, `.string`) end the process.  In a release  *)
(* build without safety checks the latter is undefined; here both are      *)
(* "panic".                                                                *)
(*                                                                         *)
(* A frame that is a JSON object is a record of its values.  A value is    *)
(* the name of its type ("integer") or, where the code looks at it, a word *)
(* of that type ("private").                                               *)
(***************************************************************************)
EXTENDS Integers, Sequences, FiniteSets

\* "negative", "huge": integers @intCast fails on (to u64; to i32).
TypeOf(v) ==
    IF v \in {"absent", "integer", "string", "object", "array", "null", "float"} THEN v
    ELSE IF v \in {"negative", "huge", "home", "operator"} THEN "integer"
    ELSE IF v = "badsegments" THEN "array"   \* a segment without its keys
    ELSE IF v = "badsender" THEN "object"    \* without its keys, or an age out of range
    ELSE IF v \in {"status", "group", "sent"} THEN "object"   \* data of replies
    ELSE IF v = "missent" THEN "object"      \* its message_id is no integer
    ELSE "string"

Is(f, k, T) == TypeOf(f[k]) = T

-----------------------------------------------------------------------------
(* Replies *)

ReplyKeys == <<"retcode", "echo", "data", "status">>   \* in the order of the code

Fits(f, k) == IF k = "retcode" THEN Is(f, k, "integer")
              ELSE IF k = "data" THEN ~Is(f, k, "absent")
              ELSE Is(f, k, "string")

\* DynamicApiReturn.fromJson.  "none": it is not a reply.
ReplyOf(f) ==
    LET bad == {i \in 1..4 : ~Fits(f, ReplyKeys[i])}
        first == CHOOSE i \in bad : \A j \in bad : i <= j
    IN  IF bad = {} THEN "reply"
        ELSE IF Is(f, ReplyKeys[first], "absent") THEN "none" ELSE "panic"

-----------------------------------------------------------------------------
(* Events *)

\* TimestampParser.parseFromJson: an error is caught and the event ignored.
TimeOf(f) == IF f.time = "negative" THEN "panic"
             ELSE IF TypeOf(f.time) \in {"integer", "float"} \/ f.time = "string" THEN "ok"
             ELSE "null"

\* MetaEvent.fromJson
MetaOf(f) ==
    IF f.meta_event_type = "lifecycle" /\ f.sub_type \in {"enable", "disable", "connect"}
    THEN "lifecycle"
    ELSE IF f.meta_event_type = "heartbeat" /\ ~Is(f, "status", "absent")
                                            /\ Is(f, "interval", "integer")
    THEN "heartbeat"
    ELSE "panic"

\* MessageEvent.fromJson, MessageSegment.fromJson, Sender.fromJson.  A sub_type
\* that is not known is null; group_id may be missing; message_id and font are
\* cast to i32.
MessageOf(f) ==
    IF /\ f.message = "array"
       /\ f.message_type \in {"private", "group"}
       /\ Is(f, "sub_type", "string")
       /\ Is(f, "message_id", "integer") /\ f.message_id # "huge"
       /\ Is(f, "group_id", "absent") \/ Is(f, "group_id", "integer")
       /\ Is(f, "user_id", "integer") /\ Is(f, "raw_message", "string")
       /\ Is(f, "font", "integer") /\ f.font # "huge"
       /\ Is(f, "sender", "object") /\ f.sender # "badsender"
    THEN "message" ELSE "panic"

\* Event.fromJson and EventData.fromJson.  A post_type that is neither makes
\* EventData.fromJson return null, which Event.fromJson unwraps.
EventOf(f) ==
    IF TimeOf(f) # "ok" THEN IF TimeOf(f) = "null" THEN "ignored" ELSE "panic"
    ELSE IF ~Is(f, "self_id", "integer") THEN "panic"
    ELSE IF f.post_type = "meta_event" THEN MetaOf(f)
    ELSE IF f.post_type = "message" THEN MessageOf(f)
    ELSE "panic"

\* clientMessage: what a frame is taken for.
Meaning(f) == IF f.json # "object" THEN f.json    \* "malformed" or "other"
              ELSE IF ReplyOf(f) # "none" THEN ReplyOf(f) ELSE EventOf(f)

-----------------------------------------------------------------------------
(* Commands, and the requests they cost *)

\* privateMessage and groupMessage.
Requests(f) ==
    IF f.message_type = "private"
    THEN IF f.user_id # "operator" THEN <<>>
         ELSE IF f.raw_message = "jt" THEN <<"send">> ELSE <<"get_status", "send">>
    ELSE IF f.group_id = "home" /\ f.raw_message = "ginfo" THEN <<"get_group_info", "send">>
    ELSE <<>>

\* H.Ret.fromJson of the data of a reply.  Only sending a message treats a
\* missing key as an error.
Parsed(action, data) ==
    IF TypeOf(data) # "object" THEN "panic"
    ELSE IF action = "send"
    THEN IF data = "sent" THEN "ok" ELSE IF data = "missent" THEN "panic" ELSE "error"
    ELSE IF <<action, data>> \in {<<"get_status", "status">>, <<"get_group_info", "group">>}
    THEN "ok" ELSE "panic"

=============================================================================

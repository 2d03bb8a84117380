------------------------------ MODULE MCFrames ------------------------------
(* Model values, sample frames and symmetry for the run of Frames.         *)
EXTENDS Frames, TLC

CONSTANTS f1, f2, f3

ThreeFrames == {f1, f2, f3}
TwoFrames == {f1, f2}
Symmetry == Permutations(Ids)

Empty == [json |-> "object", retcode |-> "absent", echo |-> "absent", data |-> "absent",
          status |-> "absent", time |-> "absent", self_id |-> "absent",
          post_type |-> "absent", meta_event_type |-> "absent", sub_type |-> "absent",
          interval |-> "absent", message_type |-> "absent", message_id |-> "absent",
          group_id |-> "absent", user_id |-> "absent", message |-> "absent",
          raw_message |-> "absent", font |-> "absent", sender |-> "absent"]

Malformed == [Empty EXCEPT !.json = "malformed"]
NoObject  == [Empty EXCEPT !.json = "other"]
Event     == [Empty EXCEPT !.time = "integer", !.self_id = "integer"]
Heartbeat == [Event EXCEPT !.post_type = "meta_event", !.meta_event_type = "heartbeat",
                           !.status = "object", !.interval = "integer"]
Lifecycle == [Event EXCEPT !.post_type = "meta_event", !.meta_event_type = "lifecycle",
                           !.sub_type = "connect"]
Notice    == [Event EXCEPT !.post_type = "notice"]

Message == [Event EXCEPT !.post_type = "message", !.message = "array", !.message_id = "integer",
                         !.user_id = "integer", !.raw_message = "string", !.font = "integer",
                         !.sender = "object"]
Private == [Message EXCEPT !.message_type = "private", !.sub_type = "friend"]
Group   == [Message EXCEPT !.message_type = "group", !.sub_type = "normal", !.group_id = "home"]

Reply == [Empty EXCEPT !.retcode = "integer", !.echo = "string", !.status = "string"]
Replies == {[Reply EXCEPT !.data = d] : d \in {"null", "sent", "status", "group"}}

\* ws.rb sends `Private', and a ping without time.
Ping == Empty

Commands == {[Private EXCEPT !.user_id = "operator"],
             [Private EXCEPT !.user_id = "operator", !.raw_message = "jt"],
             [Group EXCEPT !.raw_message = "ginfo", !.message_id = "negative"]}

\* The post_types of OneBot 11, and answers; `null' is the data of one that failed.
RegularFrames == Replies \cup Commands \cup {Private, Heartbeat, Lifecycle, Notice}

\* No OneBot frames: keys missing or of another type, numbers out of range.
OddFrames == {Malformed, NoObject, Ping,
              [Event EXCEPT !.time = "negative"],
              [Reply EXCEPT !.echo = "integer"],
              [Reply EXCEPT !.data = "missent"],
              [Group EXCEPT !.group_id = "absent"],
              [Private EXCEPT !.message = "string"],
              [Private EXCEPT !.message_id = "huge"],
              [Private EXCEPT !.sender = "badsender"]}

SomeInputs == RegularFrames \cup OddFrames

=============================================================================

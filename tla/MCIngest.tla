------------------------------- MODULE MCIngest -------------------------------
(***************************************************************************)
(* Instances of Ingest for TLC.  No symmetry: the runs check liveness.     *)
(***************************************************************************)
EXTENDS Ingest

(* Two of our lines, two customers, one of them on WhatsApp.               *)
Lines      == {"+n1", "+n2"}
AllNumbers == Lines \cup {NULL, "+c1", "+c2", "wa:+c1", "wa:+n1"}
NoPrefix   == [n \in AllNumbers |->
                 CASE n = "wa:+c1" -> "+c1" [] n = "wa:+n1" -> "+n1" [] OTHER -> n]

Post(url, sid, status, from, to, outbound, call) ==
  [url |-> url, sid |-> sid, status |-> status, from |-> from, to |-> to,
   outbound |-> outbound, call |-> call]

(* A WhatsApp message and our answer's receipt; two calls, one of which    *)
(* ends, with a recording each; a call of ours; a recording of silence.    *)
AllForms == [
  wa      |-> Post("whatsapp", "SM1", NULL, "wa:+c1", "wa:+n1", FALSE, NULL),
  read    |-> Post("whatsapp/status", "SM2", "read", "wa:+n1", "wa:+c1", TRUE, NULL),
  sms     |-> Post("sms", "SM3", NULL, "+c2", "+n2", FALSE, NULL),
  sent    |-> Post("sms/status", "SM4", "sent", "+n1", "+c2", TRUE, NULL),
  call1   |-> Post("voice", "CA1", NULL, "+c1", "+n1", FALSE, NULL),
  end1    |-> Post("voice/status", "CA1", NULL, "+c1", "+n1", FALSE, NULL),
  rec1    |-> Post("recording", "RE1", "completed", NULL, NULL, FALSE, "CA1"),
  call2   |-> Post("voice", "CA2", NULL, "+c2", "+n2", FALSE, NULL),
  early2  |-> Post("recording", "RE2", "failed", NULL, NULL, FALSE, "CA2"),
  dial3   |-> Post("voice", "CA3", NULL, "+n1", "+c2", TRUE, NULL),
  ours    |-> Post("voice/status", "CA3", NULL, "+n1", "+c2", TRUE, NULL),
  silent  |-> Post("recording", "RE3", "absent", NULL, NULL, FALSE, "CA1")]

(* Twilio posts the end and the recording of the first call in order.  The *)
(* second recording may overtake its call.  The rest of the order only     *)
(* bounds the number of hooks that are on their way at a time.             *)
Order(h) ==
  CASE h = "end1"                -> {"call1"}
    [] h = "rec1"                -> {"call1", "end1"}
    [] h = "dial3"               -> {"wa", "rec1"}
    [] h = "ours"                -> {"dial3"}
    [] h = "silent"              -> {"ours"}
    [] h = "sent"                -> {"silent"}
    [] h = "read"                -> {"sent"}
    [] h \in {"call2", "early2"} -> {"read"}
    [] OTHER                     -> {}

AllHooks == DOMAIN AllForms \ {"sms"}
Forms    == [h \in AllHooks |-> AllForms[h]]
AllOrder == [h \in AllHooks |-> Order(h)]

(* One text message.                                                       *)
OneHook  == {"sms"}
OneForm  == [h \in OneHook |-> AllForms[h]]
NoOrder  == [h \in OneHook |-> {}]
=============================================================================

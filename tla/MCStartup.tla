----------------------------- MODULE MCStartup ------------------------------
(* A small instance of Startup for TLC. *)
EXTENDS Startup

Setting(k, v) ==
  [text |-> k \o "=" \o v, length |-> Len(k) + 1 + Len(v), comment |-> FALSE,
   equals |-> TRUE, pos |-> Len(k), key |-> k, value |-> v]
NoEquals(t) ==
  [text |-> t, length |-> Len(t), comment |-> FALSE,
   equals |-> FALSE, pos |-> 0, key |-> "", value |-> ""]
Comment == [NoEquals("#") EXCEPT !.comment = TRUE]
Empty == NoEquals("")

(* As wctl.cfg is; without log settings; with a level alone; with a line cut short. *)
SomeConfigs == {
  <<Comment, Setting("log.filename", LogFile), Setting("log.level", "LOG_LEVEL_INFO"),
    Empty, Setting("db.user", "<dbuser.prop>")>>,
  <<Setting("db.user", "me"), Setting("db.user", "you"), Setting("log.filename", LogFile)>>,
  <<Setting("log.level", "LOG_LEVEL_INFO"), Setting("db.user", "<dbuser.prop>")>>,
  <<Setting("log.filename", LogFile), Setting("db.user", "me"), NoEquals("db.user")>>,
  <<Setting("db.password", "<dbpasswd.prop>")>>,
  <<Comment>>}

IsPropertyValue(v) == v \in {"<dbuser.prop>", "<dbpasswd.prop>"}
UserFile == [v \in {"<dbuser.prop>"} |-> "wctl"]

Plain == [cfg |-> "absolute", d |-> FALSE, log |-> FALSE, dump |-> FALSE]
SomeCommandLines == {
  Plain,
  [Plain EXCEPT !.dump = TRUE],
  [Plain EXCEPT !.log = TRUE],
  [Plain EXCEPT !.cfg = "none"],
  [Plain EXCEPT !.cfg = "relative", !.d = TRUE],
  [Plain EXCEPT !.d = TRUE]}
Absent == {[Plain EXCEPT !.cfg = "absent"]}

AllIOFaults == {"fork", "look", "archive", "read", "write", "log"}
NoIOFaults == {}
=============================================================================

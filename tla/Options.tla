------------------------------ MODULE Options -------------------------------
(***************************************************************************)
(* The command line (src/options.c): getopt's options are taken one after  *)
(* another, then the result is checked. An option is a record: its letter  *)
(* c and its text. The text of a number is what strtoul makes of it: the   *)
(* number and whether characters are left over. Of the other texts only    *)
(* what is asked about them is kept. Addresses, the proxy and the CA file  *)
(* are passed on unseen and are left out.                                  *)
(***************************************************************************)
EXTENDS Integers, Sequences

CONSTANTS
  MIN_FLIGHT_RECORDER,   \* 100
  MAX_FLIGHT_RECORDER    \* 100000

ASSUME RecorderAssumption ==
  /\ MIN_FLIGHT_RECORDER \in Nat \ {0}
  /\ MAX_FLIGHT_RECORDER \in Nat

LOG_DEBUG == 0
LOG_INFO == 1
LOG_WARNING == 2
LOG_ERROR == 3
LOG_STATS == 4
LOG_FATAL == 5

INT32_MAX == 2147483647
UINT16_MAX == 65535
MAX_TCP_CLIENTS == 200
DEFAULT_HTTP_VERSION == 2

options_init ==
  [parsed |-> "more", listen_port |-> 5053, tcp_client_limit |-> 20,
   logfile |-> "-", loglevel |-> LOG_ERROR, dscp |-> 0,
   user |-> "none", group |-> "none", resolver_url |-> "https",
   bootstrap_dns_polling_interval |-> 120,
   use_http_version |-> DEFAULT_HTTP_VERSION,
   max_idle_time |-> 118, conn_loss_time |-> 15, stats_interval |-> 0,
   flight_recorder_size |-> 0]

parse_int(str) == IF str.rest \/ str.number > INT32_MAX THEN -1 ELSE str.number

NumberField ==
  [c |-> "dscp", p |-> "listen_port", T |-> "tcp_client_limit",
   i |-> "bootstrap_dns_polling_interval", m |-> "max_idle_time",
   L |-> "conn_loss_time", s |-> "stats_interval", F |-> "flight_recorder_size"]

NameField == [l |-> "logfile", u |-> "user", g |-> "group", r |-> "resolver_url"]

PassedOn == {"a", "b", "d", "t", "S", "C", "4"}

Result == [h |-> "OPR_HELP", V |-> "OPR_VERSION"]

(* -v: one level more is logged, down to everything. *)
MoreVerbose(level) == IF level > LOG_DEBUG THEN level - 1 ELSE level

(* One round of the getopt loop; an option that ends it is the last. *)
TakeOption(opt, arg) ==
  IF opt.parsed # "more" THEN opt ELSE
  CASE arg.c \in DOMAIN NumberField -> [opt EXCEPT ![NumberField[arg.c]] = parse_int(arg.text)]
    [] arg.c \in DOMAIN NameField -> [opt EXCEPT ![NameField[arg.c]] = arg.text]
    [] arg.c \in PassedOn -> opt
    [] arg.c = "v" -> [opt EXCEPT !.loglevel = MoreVerbose(@)]
    [] arg.c \in {"x", "q"} /\ opt.use_http_version = DEFAULT_HTTP_VERSION ->
         [opt EXCEPT !.use_http_version = IF arg.c = "x" THEN 1 ELSE 3]
    [] arg.c \in {"x", "q"} /\ opt.use_http_version # DEFAULT_HTTP_VERSION ->
         [opt EXCEPT !.parsed = "OPR_OPTION_ERROR"]
    [] arg.c \in DOMAIN Result -> [opt EXCEPT !.parsed = Result[arg.c]]
    [] OTHER -> [opt EXCEPT !.parsed = "OPR_PARSING_ERROR"]

(* The options after n rounds. *)
AfterArgs(args) ==
  LET opt[n \in 0..Len(args)] ==
        IF n = 0 THEN options_init ELSE TakeOption(opt[n - 1], args[n])
  IN  opt

(* The checks behind the loop, in any order: each ends in the same result.  *)
RecorderSizeOk(size) == size = 0 \/ size \in MIN_FLIGHT_RECORDER..MAX_FLIGHT_RECORDER

OptionsOk(opt) ==
  /\ opt.user # "unknown" /\ opt.group # "unknown"
  /\ opt.dscp \in 0..63
  /\ opt.resolver_url = "https"
  /\ opt.bootstrap_dns_polling_interval \in 5..3600
  /\ opt.max_idle_time \in 0..3600
  /\ opt.conn_loss_time \in 5..60
  /\ opt.stats_interval \in 0..3600
  /\ RecorderSizeOk(opt.flight_recorder_size)
  /\ opt.listen_port \in 0..UINT16_MAX
  /\ opt.tcp_client_limit \in 0..MAX_TCP_CLIENTS

(* options_parse_args. A log file that cannot be opened is no error. *)
options_parse_args(args) ==
  LET opt == AfterArgs(args)[Len(args)] IN
    IF opt.parsed # "more" THEN opt
    ELSE IF ~OptionsOk(opt) THEN [opt EXCEPT !.parsed = "OPR_OPTION_ERROR"]
    ELSE [opt EXCEPT !.parsed = "OPR_SUCCESS", !.dscp = @ * 4]
=============================================================================

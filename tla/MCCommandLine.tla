----------------------------- MODULE MCCommandLine -----------------------------
EXTENDS CommandLine

(* Options of every type, with a value of their own, without one, and with *)
(* one that does not fit; one of the endpoints; two of the sinks, with     *)
(* levels; arguments that are no options, or none that exist; and numbers  *)
(* that fit, that wrap, and that are too large.                            *)
MCArguments ==
  { Long("socket_file", Empty), Long("syslog_logging", Empty),
    Long("syslog_level", Number(4)), Long("filelog_filename", Name("log")),
    Long("filelog_level", Empty), Long("threads", Empty), Long("help", Empty),
    Long("help", Name("yes")), Long("eventlog_logging", Empty),
    Short(2, TRUE), Short(0, FALSE), DashDash,
    Name("log"), Empty, Number(7), Number(-1), Number(1048576) }

MCPortMax == 65535
MCSizeMax == 1048575
MCIntMax == 524287
===============================================================================

--------------------------- MODULE ServiceConfig ---------------------------
(***************************************************************************)
(* The configuration file .pc2sms, which the server and the client search  *)
(* for and read alike: config-filename.cpp, file2string() and the two      *)
(* parsers.  A file is the sequence of its lines; `files` maps the places  *)
(* that have one to their lines, so that a missing file differs from an    *)
(* empty one, which hides the files behind it.                             *)
(***************************************************************************)
EXTENDS Naturals, Sequences, SequencesExt

Place == {"cwd", "etc", "home", "program", "profile"}

(* getDefaultConfigFileName(): where it looks, in this order *)
SearchOrder(windows) ==
  IF windows THEN <<"cwd", "program", "profile">>
  ELSE <<"cwd", "etc", "home", "program">>

(* The place of the file that is read, or "none" *)
FoundAt(windows, files) ==
  LET order == SearchOrder(windows)
      n == SelectInSeq(order, LAMBDA p : p \in DOMAIN files)
  IN IF n = 0 THEN "none" ELSE order[n]

(* file2string(): a file that cannot be read has no lines. *)
ReadLines(windows, files) ==
  LET p == FoundAt(windows, files)
  IN IF p = "none" THEN <<>> ELSE files[p]

(* getline(), n-th call: a line that is not there leaves the field empty. *)
Line(lines, n) == IF n <= Len(lines) THEN lines[n] ELSE ""

OrElse(line, default) == IF line = "" THEN default ELSE line

(* s.find(letter) for the lines that are used as the fourth and the fifth *)
Has(line, letter) ==
  line \in CASE letter = "a" -> {"all", "daemonize"}
             [] letter = "d" -> {"daemonize"}

(* Faulty form: login and password in the other order. *)
SwappedService(lines) ==
  [address  |-> OrElse(Line(lines, 1), "0.0.0.0:50053"),
   login    |-> Line(lines, 3), password |-> Line(lines, 2),
   policy   |-> "NP_ROUND_ROBIN", daemonize |-> FALSE]

(* parseServiceConfig(); the option -d adds to daemonize *)
ParseService(lines) ==
  [address   |-> OrElse(Line(lines, 1), "0.0.0.0:50053"),
   login     |-> Line(lines, 2),
   password  |-> Line(lines, 3),
   policy    |-> IF Has(Line(lines, 4), "a") THEN "NP_ALL" ELSE "NP_ROUND_ROBIN",
   daemonize |-> Has(Line(lines, 5), "d")]

(* parseClientConfig() *)
ParseClient(lines) ==
  [address  |-> OrElse(Line(lines, 1), "82.97.249.193:50053"),
   login    |-> Line(lines, 2),
   password |-> Line(lines, 3)]

(* SMSServiceImpl::isAllowed(), of a server that has configuration s *)
IsAllowed(s, c) == c.login = s.login /\ c.password = s.password
=============================================================================

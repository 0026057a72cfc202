----------------------------- MODULE MCSendSms -----------------------------
(* A file that names everything, and one whose address is left empty *)
EXTENDS SendSms

SomeContents ==
  {<<"pc:50053", "scott", "tiger", "robin-bobin">>,
   <<"", "scott", "tiger", "all">>}
=============================================================================

------------------------------ MODULE MCProxy -------------------------------
(***************************************************************************)
(* Proxy for TLC: handler chains for each question.                        *)
(***************************************************************************)
EXTENDS Proxy

(* Requests to the second site and HTTP/2 prefaces without a URL are left  *)
(* to main.go's handlers, the others edited and their responses filtered   *)
(* or replaced; any response may be dropped in the end.                    *)
MainThenEdit == <<[on |-> {"other", "badpri"}, looks |-> FALSE, does |-> "cffi"],
                  [on |-> {"get", "ws", "other"}, looks |-> FALSE, does |-> "edit"]>>
ReplaceMainOrDrop == <<[on |-> {"ws"}, looks |-> FALSE, does |-> "bytes"],
                       [on |-> {"get"}, looks |-> FALSE, does |-> "replace"],
                       [on |-> {"other"}, looks |-> FALSE, does |-> "main"],
                       [on |-> Kinds, looks |-> FALSE, does |-> "drop"]>>

(* A chain that answers requests to the second site and edits the others, *)
(* and looks at no URL.                                                   *)
AnswerThenEdit == <<[on |-> {"other"}, looks |-> FALSE, does |-> "answer"],
                    [on |-> {"get", "ws", "other"}, looks |-> FALSE, does |-> "edit"]>>

(* Response handlers that never let the response go. *)
OnlyBytes == <<[on |-> {"get", "other"}, looks |-> FALSE, does |-> "bytes"]>>

(* CONNECT handlers that may decide anything, after one that may decline. *)
AnyAction == <<{"skip", "unauthorized"},
               Actions \cup {"skip"}>>
ToMitm == <<{"mitm"}>>

(* Two handlers that return requests of their own. *)
RewriteTwice == <<[on |-> {"get"}, looks |-> FALSE, does |-> "rewrite"],
                  [on |-> {"get"}, looks |-> FALSE, does |-> "rewrite"]>>
PassAll == <<[on |-> Kinds, looks |-> FALSE, does |-> "pass"]>>

(* main.go. *)
MainReq == <<[on |-> Kinds, looks |-> FALSE, does |-> "cffi"]>>
MainResp == <<[on |-> Kinds, looks |-> FALSE, does |-> "main"]>>

Nothing == <<>>
=============================================================================

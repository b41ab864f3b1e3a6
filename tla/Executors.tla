----------------------------- MODULE Executors -----------------------------
(***************************************************************************)
(* The three executors that come with dkron (builtin/bins), each as what   *)
(* its ExecuteImpl makes of a job's ExecutorConfig and of the outside      *)
(* world, and the notifier (dkron/notifier.go) likewise.  A field of a     *)
(* configuration says which of the cases the code tells apart it is in;    *)
(* what the world will answer is part of the record.                       *)
(*                                                                         *)
(* The results: "ok" and "error" are ExecuteResponses; "panic" ends the    *)
(* process that runs the code; "blocked" never returns; "started" is a     *)
(* command that runs.                                                      *)
(***************************************************************************)
EXTENDS Naturals, Sequences

-----------------------------------------------------------------------------
(* dkron-executor-shell *)

Shell == [executor : {"shell"},
          shell    : BOOLEAN,                               \* "shell": true
          command  : {"words", "empty", "unbalanced"},      \* as shellwords sees it
          su       : {"", "known", "unknown"},              \* user and group
          payload  : {"small", "large", "undecodable"},     \* large: over a pipe's buffer
          starts   : BOOLEAN,                               \* the program can be run
          exit     : {0, 1}]

\* setCmdAttr: without "su" the command runs as the agent's user.
setCmdAttr(c) == c.su # "unknown"

\* buildCmd indexes the first word without looking whether there is one.  The
\* payload goes into the pipe before the command is there to read it.
ShellResult(c) ==
  CASE ~c.shell /\ c.command = "unbalanced" -> "error"
    [] ~c.shell /\ c.command = "empty"      -> "panic"
    [] ~setCmdAttr(c)                       -> "error"
    [] c.payload = "undecodable"            -> "error"
    [] c.payload = "large"                  -> "blocked"
    [] ~c.starts                            -> "error"
    [] OTHER                                -> "started"

-----------------------------------------------------------------------------
(* dkron-executor-http *)

Codes == {200, 404}

HTTP == [executor   : {"http"},
         url        : {"", "valid", "invalid"},
         method     : {"", "GET"},
         headers    : {"", "not json", "key: value", "no colon"},
         timeout    : {0, 30},                    \* 0 is no timeout
         reply      : {"refused", "never", "cut", "complete"},
         code       : Codes,
         expectCode : {<<>>, <<200>>, <<404, 200>>},
         expectBody : {"", "found", "not found", "not a regexp"}]

\* strings.Contains(expectCode + ",", code + ","): a code that ends in the one
\* received matches too.
CodeMatches(expectCode, code) == \E i \in DOMAIN expectCode : expectCode[i] % 1000 = code

\* A mistake in the client's TLS files, or in the timeout, is only a warning.
HTTPResult(c) ==
  CASE c.url = "" \/ c.method = ""      -> "error"
    [] c.url = "invalid"                -> "error"
    [] c.headers = "no colon"           -> "panic"
    [] c.reply = "never"                -> IF c.timeout = 0 THEN "blocked" ELSE "error"
    [] c.reply \in {"refused", "cut"}   -> "error"
    [] c.expectCode # <<>> /\ ~CodeMatches(c.expectCode, c.code)   -> "error"
    [] c.expectBody \notin {"", "found"}                           -> "error"
    [] OTHER                            -> "ok"

-----------------------------------------------------------------------------
(* dkron-executor-rabbitmq *)

RabbitMQ == [executor : {"rabbitmq"},
             url      : {"", "set"},
             queue    : {"", "set"},
             body     : {"text", "base64", "undecodable"},
             fails    : {"", "dial", "channel", "declare", "publish"}]

RabbitMQResult(c) ==
  CASE c.url = "" \/ c.queue = ""                 -> "error"
    [] c.fails \in {"dial", "channel", "declare"} -> "error"
    [] c.body = "undecodable"                     -> "error"
    [] c.fails = "publish"                        -> "error"
    [] OTHER                                      -> "ok"

-----------------------------------------------------------------------------

\* Mutant of ExecuteImpl: the response's code is not looked at.
AnyReply(c) ==
  CASE c.executor = "shell"    -> ShellResult(c)
    [] c.executor = "http"     -> HTTPResult([c EXCEPT !.expectCode = <<>>])
    [] c.executor = "rabbitmq" -> RabbitMQResult(c)

ExecuteImpl(c) ==
  CASE c.executor = "shell"    -> ShellResult(c)
    [] c.executor = "http"     -> HTTPResult(c)
    [] c.executor = "rabbitmq" -> RabbitMQResult(c)

\* What whoever wrote the job means by a success: the command ran and exited
\* with 0, the reply is one of those expected, the message was published.
Succeeds(c) ==
  CASE c.executor = "shell"    -> c.starts /\ c.exit = 0
    [] c.executor = "http"     ->
         /\ c.reply = "complete"
         /\ c.expectCode # <<>> => \E i \in DOMAIN c.expectCode : c.expectCode[i] = c.code
         /\ c.expectBody # "" => c.expectBody = "found"
    [] c.executor = "rabbitmq" -> c.fails = "" /\ c.body # "undecodable"

-----------------------------------------------------------------------------
(* The notifier. *)

Notification == [mail     : BOOLEAN,   \* MailHost, MailPort and OwnerEmail are set
                 webhook  : BOOLEAN,   \* WebhookURL and WebhookPayload are set
                 template : {"", "valid", "invalid"},
                 url      : {"valid", "invalid"},
                 headers  : {"", "key: value", "no colon"},
                 reply    : {"ok", "refused", "never"}]  \* of mail server or webhook

\* Notifier.Send: a mail if one can be sent, else the webhook, else nothing.
\* The status of the webhook's reply is not looked at.
Send(c) ==
  LET sent == CASE c.reply = "ok"      -> "ok"
                [] c.reply = "refused" -> "error"
                [] c.reply = "never"   -> "blocked"   \* neither has a timeout
  IN CASE ~c.mail /\ ~c.webhook                   -> "ok"
       [] c.template = "invalid"                  -> "panic"
       [] c.mail                                  -> sent
       [] c.url = "invalid"                       -> "error"
       [] c.headers = "no colon"                  -> "panic"
       [] OTHER                                   -> sent

=============================================================================

-------------------------- MODULE ServiceHandlers --------------------------
(***************************************************************************)
(* The processors that call services or compute: per kind of node its      *)
(* steps.  (The MySQL node is SqlBatch.)                                   *)
(***************************************************************************)
EXTENDS HandlerSteps

-----------------------------------------------------------------------------
(* http_processor.py, http_client.py *)

\* Rendering the request happens outside of any try.
HttpRequest == <<Raising(Check)>>

\* A credential that is not found, expired or broken is a warning: the
\* request is sent without it.
HttpCredential == <<Try(Check)>>

\* _make_request turns every failure into a reply; only 2xx is a success.
HttpReply == <<Ask>>

\* The files of an upload are fetched from the platform first.
HttpFiles == <<Raising(Ask)>>

Http == [http |-> HttpRequest \o HttpCredential \o HttpReply,
         http_upload |-> HttpRequest \o HttpFiles \o HttpCredential \o HttpReply]

-----------------------------------------------------------------------------
(* dubbo_processor.py, rocketmq_processor.py, xxljob_processor.py and their *)
(* clients                                                                  *)

\* The gateway's JSON is the result, whatever the HTTP status is.
DubboReply == <<Unread(Ask)>>
Dubbo == [dubbo |-> <<Raising(Check)>> \o DubboReply]

\* The output variable is set before the reply is looked at.
RocketReply == <<Unread(Ask)>>
RocketMQ ==
    [rocketmq |-> <<Raising(Check)>> \o RocketReply \o <<Reply>>,
     rocketmq_output |-> <<Raising(Check)>> \o RocketReply \o <<Save, Reply>>]

\* Logging in never fails; asking for the job and triggering it answer
\* their failures.  A refused configuration raises: the finally block closes
\* a client there is not.
JobRequests == <<Try(Look), Unread(Ask)>>
XxlJob == [xxl_job |-> <<Raising(Check)>> \o JobRequests \o <<Save, Reply>>]

-----------------------------------------------------------------------------
(* oss_processor.py, oss_client.py: the client raises on another status *)

\* A plausible slip: the variable is set before the upload is answered.
OssUploadEarly == [oss_upload |-> <<Check, Save, Ask>>, oss_upload_stream |-> <<Check, Ask, Save>>]

OssUpload == [oss_upload |-> <<Check, Ask, Save>>, oss_upload_stream |-> <<Check, Ask, Save>>]
OssDownload == [oss_download |-> <<Check, Ask, Act, Save>>, oss_delete |-> <<Check, Ask>>]
Oss == OssUpload ++ OssDownload

-----------------------------------------------------------------------------
(* redis_processor.py, mongodb_processor.py: execute takes the              *)
(* configuration and the context, the engine calls it with the node, the    *)
(* context and the results of the predecessors.                             *)

Redis == [redis |-> <<Raising(Never)>>]
MongoDB == [mongodb |-> <<Raising(Never)>>]

-----------------------------------------------------------------------------
(* script_processor.py, assertion_processor.py, condition_processor.py,     *)
(* variable_extractor_processor.py, sleep_processor.py, log_message         *)

\* The script is checked outside the try; what it does before it raises
\* stays done.  It has the live context: it may set variables and then raise.
ScriptCheck == <<Raising(Check)>>
ScriptRun == <<Act>>
Script ==
    [script |-> ScriptCheck \o ScriptRun,
     script_sets |-> ScriptCheck \o <<Save>> \o ScriptRun]

\* Two rules stand for any number.
AssertionRule == <<Raising(Look), Raising(Holds)>>
Assertion == [assertion |-> <<Raising(Check)>> \o Twice(AssertionRule)]

Condition == [condition |-> <<Look>>]

\* One extraction after the other: the variables before a failure are set.
Extraction == [variable_extractor |-> <<Raising(Check)>> \o Twice(<<Raising(Look), Save>>)]

Sleep == [sleep |-> <<Raising(Check)>>]
LogMessage == [log_message |-> << >>]

\* sub_workflow_processor.py imports modules that are not there: discovery
\* passes over it, and no processor has its type.  (LoopNodes has the loops.)
SubWorkflow == [sub_workflow |-> <<Raising(Never)>>]

Computations ==
    Script ++ Assertion ++ Condition ++ Extraction ++ Sleep ++ LogMessage ++ SubWorkflow
Services == Http ++ Dubbo ++ RocketMQ ++ XxlJob ++ Oss ++ Redis ++ MongoDB
=============================================================================

-------------------------- MODULE MCAlertDelivery ---------------------------
(* AlertDelivery for TLC. *)
EXTENDS AlertDelivery

MCSiemModes ==
    {<<"webhook">>, <<"sentinel">>, <<"datadog">>, <<"datadog", "datadog">>,
     <<"splunk", "elastic", "sumologic">>, <<"datadog", "sentinel", "syslog">>}

\* The default of SIEM_MODE.
MCDefaultMode == {<<"webhook">>}
=============================================================================

----------------------------- MODULE MCStreaming -----------------------------
EXTENDS Streaming

\* The launcher is installed in both plugin directories.
BothDirectories ==
    {<<1, "launcher">>, <<1, "pose">>, <<1, "backgroundblur">>, <<2, "launcher">>}

TwoStates == {INVALID, 0}
=============================================================================

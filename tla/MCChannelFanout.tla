-------------------------- MODULE MCChannelFanout --------------------------
EXTENDS ChannelFanout, TLC

CONSTANTS v1, v2

TwoViewers == {v1, v2}

============================================================================

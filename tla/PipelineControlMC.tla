-------------------------- MODULE PipelineControlMC --------------------------
EXTENDS PipelineControl
=============================================================================

----------------------------- MODULE RpcServer -----------------------------
(***************************************************************************)
(* The server's handlers of function_dispatch.cpp, one row per OpenXR      *)
(* function: what the handler deserializes, what it serializes into the    *)
(* answer after the result and the runtime's duration, and what it frees   *)
(* after the answer has been sent (cleanups of values free nothing and are *)
(* left out), and what it does with the saved_instance of the Server.      *)
(* Then the table of the function ids.                                     *)
(***************************************************************************)
EXTENDS WireFields, TLC

\* Mutant of Handling: the cleanups after the answer are missing.
WithoutCleanup(reads, writes, frees) ==
  [reads |-> reads, writes |-> writes, frees |-> <<>>, instance |-> "ignores"]

\* A handler: what it reads, what it answers and what it frees.  The generated ones do not
\* know saved_instance.
Handling(reads, writes, frees) ==
  [reads |-> reads, writes |-> writes, frees |-> frees, instance |-> "ignores"]

\* Mutant of create_instance_handler: the answer lacks the instance.
AnswersWithoutInstance ==
  Handling(<<Ptr("createInfo"), Ptr("instance")>>, <<>>, <<Ptr("createInfo"), Ptr("instance")>>)

\* The two handlers that function_dispatch.cpp redirects to the Server object.
create_instance_handler ==
  [Handling(<<Ptr("createInfo"), Ptr("instance")>>, <<Ptr("instance")>>,
            <<Ptr("createInfo"), Ptr("instance")>>) EXCEPT !.instance = "saves"]

\* It compares the handle with saved_instance before it calls the runtime.
destroy_instance_handler ==
  [Handling(<<Val("instance")>>, <<>>, <<>>) EXCEPT !.instance = "checks"]


Server_XR_ALMALENCE_digital_lens_control ==
  [xrSetDigitalLensControlALMALENCE |-> Handling(<<Val("session"), Ptr("digitalLensControl")>>,
        <<>>, <<Ptr("digitalLensControl")>>)]

Server_XR_BD_body_tracking ==
  [xrCreateBodyTrackerBD |-> Handling(<<Val("session"), Ptr("createInfo"),
        Ptr("bodyTracker")>>, <<Ptr("bodyTracker")>>, <<Ptr("createInfo"),
        Ptr("bodyTracker")>>),
   xrDestroyBodyTrackerBD |-> Handling(<<Val("bodyTracker")>>, <<>>, <<>>),
   xrLocateBodyJointsBD |-> Handling(<<Val("bodyTracker"), Ptr("locateInfo"),
        Ptr("locations")>>, <<Ptr("locations")>>, <<Ptr("locateInfo"), Ptr("locations")>>)]

Server_XR_BD_spatial_anchor_1 ==
  [xrCreateSpatialAnchorAsyncBD |-> Handling(<<Val("provider"), Ptr("info"), Ptr("future")>>,
        <<Ptr("future")>>, <<Ptr("info"), Ptr("future")>>),
   xrCreateSpatialAnchorCompleteBD |-> Handling(<<Val("provider"), Val("future"),
        Ptr("completion")>>, <<Ptr("completion")>>, <<Ptr("completion")>>),
   xrPersistSpatialAnchorAsyncBD |-> Handling(<<Val("provider"), Ptr("info"), Ptr("future")>>,
        <<Ptr("future")>>, <<Ptr("info"), Ptr("future")>>),
   xrPersistSpatialAnchorCompleteBD |-> Handling(<<Val("provider"), Val("future"),
        Ptr("completion")>>, <<Ptr("completion")>>, <<Ptr("completion")>>),
   xrUnpersistSpatialAnchorAsyncBD |-> Handling(<<Val("provider"), Ptr("info"),
        Ptr("future")>>, <<Ptr("future")>>, <<Ptr("info"), Ptr("future")>>)]

Server_XR_BD_spatial_anchor_2 ==
  [xrUnpersistSpatialAnchorCompleteBD |-> Handling(<<Val("provider"), Val("future"),
        Ptr("completion")>>, <<Ptr("completion")>>, <<Ptr("completion")>>)]

Server_XR_BD_spatial_anchor_sharing ==
  [xrDownloadSharedSpatialAnchorAsyncBD |-> Handling(<<Val("provider"), Ptr("info"),
        Ptr("future")>>, <<Ptr("future")>>, <<Ptr("info"), Ptr("future")>>),
   xrDownloadSharedSpatialAnchorCompleteBD |-> Handling(<<Val("provider"), Val("future"),
        Ptr("completion")>>, <<Ptr("completion")>>, <<Ptr("completion")>>),
   xrShareSpatialAnchorAsyncBD |-> Handling(<<Val("provider"), Ptr("info"), Ptr("future")>>,
        <<Ptr("future")>>, <<Ptr("info"), Ptr("future")>>),
   xrShareSpatialAnchorCompleteBD |-> Handling(<<Val("provider"), Val("future"),
        Ptr("completion")>>, <<Ptr("completion")>>, <<Ptr("completion")>>)]

Server_XR_BD_spatial_scene ==
  [xrCaptureSceneAsyncBD |-> Handling(<<Val("provider"), Ptr("info"), Ptr("future")>>,
        <<Ptr("future")>>, <<Ptr("info"), Ptr("future")>>),
   xrCaptureSceneCompleteBD |-> Handling(<<Val("provider"), Val("future"), Ptr("completion")>>,
        <<Ptr("completion")>>, <<Ptr("completion")>>)]

Server_XR_BD_spatial_sensing_1 ==
  [xrCreateAnchorSpaceBD |-> Handling(<<Val("session"), Ptr("createInfo"), Ptr("space")>>,
        <<Ptr("space")>>, <<Ptr("createInfo"), Ptr("space")>>),
   xrCreateSenseDataProviderBD |-> Handling(<<Val("session"), Ptr("createInfo"),
        Ptr("provider")>>, <<Ptr("provider")>>, <<Ptr("createInfo"), Ptr("provider")>>),
   xrCreateSpatialEntityAnchorBD |-> Handling(<<Val("provider"), Ptr("createInfo"),
        Ptr("anchor")>>, <<Ptr("anchor")>>, <<Ptr("createInfo"), Ptr("anchor")>>),
   xrDestroyAnchorBD |-> Handling(<<Val("anchor")>>, <<>>, <<>>),
   xrDestroySenseDataProviderBD |-> Handling(<<Val("provider")>>, <<>>, <<>>),
   xrDestroySenseDataSnapshotBD |-> Handling(<<Val("snapshot")>>, <<>>, <<>>)]

Server_XR_BD_spatial_sensing_2 ==
  [xrEnumerateSpatialEntityComponentTypesBD |-> Handling(<<Val("snapshot"), Val("entityId"),
        Val("componentTypeCapacityInput"), Ptr("componentTypeCountOutput"),
        Ptr("componentTypes")>>, <<Ptr("componentTypeCountOutput"), PtrN("componentTypes",
        "componentTypeCapacityInput")>>, <<Ptr("componentTypeCountOutput"),
        Ptr("componentTypes")>>),
   xrGetAnchorUuidBD |-> Handling(<<Val("anchor"), Ptr("uuid")>>, <<Ptr("uuid")>>,
        <<Ptr("uuid")>>),
   xrGetQueriedSenseDataBD |-> Handling(<<Val("snapshot"), Ptr("getInfo"),
        Ptr("queriedSenseData")>>, <<Ptr("getInfo"), Ptr("queriedSenseData")>>,
        <<Ptr("getInfo"), Ptr("queriedSenseData")>>),
   xrGetSenseDataProviderStateBD |-> Handling(<<Val("provider"), Ptr("state")>>,
        <<Ptr("state")>>, <<Ptr("state")>>),
   xrGetSpatialEntityComponentDataBD |-> Handling(<<Val("snapshot"), Ptr("getInfo"),
        Xr("componentData")>>, <<Xr("componentData")>>, <<Ptr("getInfo"),
        Xr("componentData")>>)]

Server_XR_BD_spatial_sensing_3 ==
  [xrGetSpatialEntityUuidBD |-> Handling(<<Val("snapshot"), Val("entityId"), Ptr("uuid")>>,
        <<Ptr("uuid")>>, <<Ptr("uuid")>>),
   xrQuerySenseDataAsyncBD |-> Handling(<<Val("provider"), Ptr("queryInfo"), Ptr("future")>>,
        <<Ptr("future")>>, <<Ptr("queryInfo"), Ptr("future")>>),
   xrQuerySenseDataCompleteBD |-> Handling(<<Val("provider"), Val("future"),
        Ptr("completion")>>, <<Ptr("completion")>>, <<Ptr("completion")>>),
   xrStartSenseDataProviderAsyncBD |-> Handling(<<Val("provider"), Ptr("startInfo"),
        Ptr("future")>>, <<Ptr("future")>>, <<Ptr("startInfo"), Ptr("future")>>),
   xrStartSenseDataProviderCompleteBD |-> Handling(<<Val("session"), Val("future"),
        Ptr("completion")>>, <<Ptr("completion")>>, <<Ptr("completion")>>)]

Server_XR_BD_spatial_sensing_4 ==
  [xrStopSenseDataProviderBD |-> Handling(<<Val("provider")>>, <<>>, <<>>)]

Server_XR_EXT_conformance_automation ==
  [xrSetInputDeviceActiveEXT |-> Handling(<<Val("session"), Val("interactionProfile"),
        Val("topLevelPath"), Val("isActive")>>, <<>>, <<>>),
   xrSetInputDeviceLocationEXT |-> Handling(<<Val("session"), Val("topLevelPath"),
        Val("inputSourcePath"), Val("space"), Val("pose")>>, <<>>, <<>>),
   xrSetInputDeviceStateBoolEXT |-> Handling(<<Val("session"), Val("topLevelPath"),
        Val("inputSourcePath"), Val("state")>>, <<>>, <<>>),
   xrSetInputDeviceStateFloatEXT |-> Handling(<<Val("session"), Val("topLevelPath"),
        Val("inputSourcePath"), Val("state")>>, <<>>, <<>>),
   xrSetInputDeviceStateVector2fEXT |-> Handling(<<Val("session"), Val("topLevelPath"),
        Val("inputSourcePath"), Val("state")>>, <<>>, <<>>)]

Server_XR_EXT_debug_utils_1 ==
  [xrCreateDebugUtilsMessengerEXT |-> Handling(<<Val("instance"), Ptr("createInfo"),
        Ptr("messenger")>>, <<Ptr("createInfo.userData"), Ptr("messenger")>>,
        <<Ptr("createInfo"), Ptr("messenger")>>),
   xrDestroyDebugUtilsMessengerEXT |-> Handling(<<Val("messenger")>>, <<>>, <<>>),
   xrSessionBeginDebugUtilsLabelRegionEXT |-> Handling(<<Val("session"), Ptr("labelInfo")>>,
        <<>>, <<Ptr("labelInfo")>>),
   xrSessionEndDebugUtilsLabelRegionEXT |-> Handling(<<Val("session")>>, <<>>, <<>>),
   xrSessionInsertDebugUtilsLabelEXT |-> Handling(<<Val("session"), Ptr("labelInfo")>>, <<>>,
        <<Ptr("labelInfo")>>),
   xrSetDebugUtilsObjectNameEXT |-> Handling(<<Val("instance"), Ptr("nameInfo")>>, <<>>,
        <<Ptr("nameInfo")>>)]

Server_XR_EXT_debug_utils_2 ==
  [xrSubmitDebugUtilsMessageEXT |-> Handling(<<Val("instance"), Val("messageSeverity"),
        Val("messageTypes"), Ptr("callbackData")>>, <<PtrN("callbackData.objects",
        "callbackData.objectCount"), PtrN("callbackData.sessionLabels",
        "callbackData.sessionLabelCount")>>, <<Ptr("callbackData")>>)]

Server_XR_EXT_future ==
  [xrCancelFutureEXT |-> Handling(<<Val("instance"), Ptr("cancelInfo")>>, <<>>,
        <<Ptr("cancelInfo")>>),
   xrPollFutureEXT |-> Handling(<<Val("instance"), Ptr("pollInfo"), Ptr("pollResult")>>,
        <<Ptr("pollResult")>>, <<Ptr("pollInfo"), Ptr("pollResult")>>)]

Server_XR_EXT_hand_tracking ==
  [xrCreateHandTrackerEXT |-> Handling(<<Val("session"), Ptr("createInfo"),
        Ptr("handTracker")>>, <<Ptr("handTracker")>>, <<Ptr("createInfo"),
        Ptr("handTracker")>>),
   xrDestroyHandTrackerEXT |-> Handling(<<Val("handTracker")>>, <<>>, <<>>),
   xrLocateHandJointsEXT |-> Handling(<<Val("handTracker"), Ptr("locateInfo"),
        Ptr("locations")>>, <<Ptr("locations")>>, <<Ptr("locateInfo"), Ptr("locations")>>)]

Server_XR_EXT_performance_settings ==
  [xrPerfSettingsSetPerformanceLevelEXT |-> Handling(<<Val("session"), Val("domain"),
        Val("level")>>, <<>>, <<>>)]

Server_XR_EXT_plane_detection ==
  [xrBeginPlaneDetectionEXT |-> Handling(<<Val("planeDetector"), Ptr("beginInfo")>>, <<>>,
        <<Ptr("beginInfo")>>),
   xrCreatePlaneDetectorEXT |-> Handling(<<Val("session"), Ptr("createInfo"),
        Ptr("planeDetector")>>, <<Ptr("planeDetector")>>, <<Ptr("createInfo"),
        Ptr("planeDetector")>>),
   xrDestroyPlaneDetectorEXT |-> Handling(<<Val("planeDetector")>>, <<>>, <<>>),
   xrGetPlaneDetectionStateEXT |-> Handling(<<Val("planeDetector"), Ptr("state")>>,
        <<Ptr("state")>>, <<Ptr("state")>>),
   xrGetPlaneDetectionsEXT |-> Handling(<<Val("planeDetector"), Ptr("info"),
        Ptr("locations")>>, <<Ptr("locations")>>, <<Ptr("info"), Ptr("locations")>>),
   xrGetPlanePolygonBufferEXT |-> Handling(<<Val("planeDetector"), Val("planeId"),
        Val("polygonBufferIndex"), Ptr("polygonBuffer")>>, <<Ptr("polygonBuffer")>>,
        <<Ptr("polygonBuffer")>>)]

Server_XR_EXT_thermal_query ==
  [xrThermalGetTemperatureTrendEXT |-> Handling(<<Val("session"), Val("domain"),
        Ptr("notificationLevel"), Ptr("tempHeadroom"), Ptr("tempSlope")>>,
        <<Ptr("notificationLevel"), Ptr("tempHeadroom"), Ptr("tempSlope")>>,
        <<Ptr("notificationLevel"), Ptr("tempHeadroom"), Ptr("tempSlope")>>)]

Server_XR_FB_body_tracking ==
  [xrCreateBodyTrackerFB |-> Handling(<<Val("session"), Ptr("createInfo"),
        Ptr("bodyTracker")>>, <<Ptr("bodyTracker")>>, <<Ptr("createInfo"),
        Ptr("bodyTracker")>>),
   xrDestroyBodyTrackerFB |-> Handling(<<Val("bodyTracker")>>, <<>>, <<>>),
   xrGetBodySkeletonFB |-> Handling(<<Val("bodyTracker"), Ptr("skeleton")>>,
        <<Ptr("skeleton")>>, <<Ptr("skeleton")>>),
   xrLocateBodyJointsFB |-> Handling(<<Val("bodyTracker"), Ptr("locateInfo"),
        Ptr("locations")>>, <<Ptr("locations")>>, <<Ptr("locateInfo"), Ptr("locations")>>)]

Server_XR_FB_color_space ==
  [xrEnumerateColorSpacesFB |-> Handling(<<Val("session"), Val("colorSpaceCapacityInput"),
        Ptr("colorSpaceCountOutput"), Ptr("colorSpaces")>>, <<Ptr("colorSpaceCountOutput"),
        PtrN("colorSpaces", "colorSpaceCapacityInput")>>, <<Ptr("colorSpaceCountOutput"),
        Ptr("colorSpaces")>>),
   xrSetColorSpaceFB |-> Handling(<<Val("session"), Val("colorSpace")>>, <<>>, <<>>)]

Server_XR_FB_display_refresh_rate ==
  [xrEnumerateDisplayRefreshRatesFB |-> Handling(<<Val("session"),
        Val("displayRefreshRateCapacityInput"), Ptr("displayRefreshRateCountOutput"),
        Ptr("displayRefreshRates")>>, <<Ptr("displayRefreshRateCountOutput"),
        PtrN("displayRefreshRates", "displayRefreshRateCapacityInput")>>,
        <<Ptr("displayRefreshRateCountOutput"), Ptr("displayRefreshRates")>>),
   xrGetDisplayRefreshRateFB |-> Handling(<<Val("session"), Ptr("displayRefreshRate")>>,
        <<Ptr("displayRefreshRate")>>, <<Ptr("displayRefreshRate")>>),
   xrRequestDisplayRefreshRateFB |-> Handling(<<Val("session"), Val("displayRefreshRate")>>,
        <<>>, <<>>)]

Server_XR_FB_eye_tracking_social ==
  [xrCreateEyeTrackerFB |-> Handling(<<Val("session"), Ptr("createInfo"), Ptr("eyeTracker")>>,
        <<Ptr("eyeTracker")>>, <<Ptr("createInfo"), Ptr("eyeTracker")>>),
   xrDestroyEyeTrackerFB |-> Handling(<<Val("eyeTracker")>>, <<>>, <<>>),
   xrGetEyeGazesFB |-> Handling(<<Val("eyeTracker"), Ptr("gazeInfo"), Ptr("eyeGazes")>>,
        <<Ptr("eyeGazes")>>, <<Ptr("gazeInfo"), Ptr("eyeGazes")>>)]

Server_XR_FB_face_tracking ==
  [xrCreateFaceTrackerFB |-> Handling(<<Val("session"), Ptr("createInfo"),
        Ptr("faceTracker")>>, <<Ptr("faceTracker")>>, <<Ptr("createInfo"),
        Ptr("faceTracker")>>),
   xrDestroyFaceTrackerFB |-> Handling(<<Val("faceTracker")>>, <<>>, <<>>),
   xrGetFaceExpressionWeightsFB |-> Handling(<<Val("faceTracker"), Ptr("expressionInfo"),
        Ptr("expressionWeights")>>, <<Ptr("expressionWeights")>>, <<Ptr("expressionInfo"),
        Ptr("expressionWeights")>>)]

Server_XR_FB_face_tracking2 ==
  [xrCreateFaceTracker2FB |-> Handling(<<Val("session"), Ptr("createInfo"),
        Ptr("faceTracker")>>, <<PtrN("createInfo.requestedDataSources",
        "createInfo.requestedDataSourceCount"), Ptr("faceTracker")>>, <<Ptr("createInfo"),
        Ptr("faceTracker")>>),
   xrDestroyFaceTracker2FB |-> Handling(<<Val("faceTracker")>>, <<>>, <<>>),
   xrGetFaceExpressionWeights2FB |-> Handling(<<Val("faceTracker"), Ptr("expressionInfo"),
        Ptr("expressionWeights")>>, <<Ptr("expressionWeights")>>, <<Ptr("expressionInfo"),
        Ptr("expressionWeights")>>)]

Server_XR_FB_foveation ==
  [xrCreateFoveationProfileFB |-> Handling(<<Val("session"), Ptr("createInfo"),
        Ptr("profile")>>, <<Xr("createInfo.next"), Ptr("profile")>>, <<Ptr("createInfo"),
        Ptr("profile")>>),
   xrDestroyFoveationProfileFB |-> Handling(<<Val("profile")>>, <<>>, <<>>)]

Server_XR_FB_hand_tracking_mesh ==
  [xrGetHandMeshFB |-> Handling(<<Val("handTracker"), Ptr("mesh")>>, <<Ptr("mesh")>>,
        <<Ptr("mesh")>>)]

Server_XR_FB_haptic_pcm ==
  [xrGetDeviceSampleRateFB |-> Handling(<<Val("session"), Ptr("hapticActionInfo"),
        Ptr("deviceSampleRate")>>, <<Ptr("deviceSampleRate")>>, <<Ptr("hapticActionInfo"),
        Ptr("deviceSampleRate")>>)]

Server_XR_FB_keyboard_tracking ==
  [xrCreateKeyboardSpaceFB |-> Handling(<<Val("session"), Ptr("createInfo"),
        Ptr("keyboardSpace")>>, <<Xr("createInfo.next"), Ptr("keyboardSpace")>>,
        <<Ptr("createInfo"), Ptr("keyboardSpace")>>),
   xrQuerySystemTrackedKeyboardFB |-> Handling(<<Val("session"), Ptr("queryInfo"),
        Ptr("keyboard")>>, <<Xr("queryInfo.next"), Ptr("keyboard")>>, <<Ptr("queryInfo"),
        Ptr("keyboard")>>)]

Server_XR_FB_passthrough_1 ==
  [xrCreateGeometryInstanceFB |-> Handling(<<Val("session"), Ptr("createInfo"),
        Ptr("outGeometryInstance")>>, <<Ptr("outGeometryInstance")>>, <<Ptr("createInfo"),
        Ptr("outGeometryInstance")>>),
   xrCreatePassthroughFB |-> Handling(<<Val("session"), Ptr("createInfo"),
        Ptr("outPassthrough")>>, <<Ptr("outPassthrough")>>, <<Ptr("createInfo"),
        Ptr("outPassthrough")>>),
   xrCreatePassthroughLayerFB |-> Handling(<<Val("session"), Ptr("createInfo"),
        Ptr("outLayer")>>, <<Ptr("outLayer")>>, <<Ptr("createInfo"), Ptr("outLayer")>>),
   xrDestroyGeometryInstanceFB |-> Handling(<<Val("instance")>>, <<>>, <<>>),
   xrDestroyPassthroughFB |-> Handling(<<Val("passthrough")>>, <<>>, <<>>),
   xrDestroyPassthroughLayerFB |-> Handling(<<Val("layer")>>, <<>>, <<>>)]

Server_XR_FB_passthrough_2 ==
  [xrGeometryInstanceSetTransformFB |-> Handling(<<Val("instance"), Ptr("transformation")>>,
        <<>>, <<Ptr("transformation")>>),
   xrPassthroughLayerPauseFB |-> Handling(<<Val("layer")>>, <<>>, <<>>),
   xrPassthroughLayerResumeFB |-> Handling(<<Val("layer")>>, <<>>, <<>>),
   xrPassthroughLayerSetStyleFB |-> Handling(<<Val("layer"), Ptr("style")>>, <<>>,
        <<Ptr("style")>>),
   xrPassthroughPauseFB |-> Handling(<<Val("passthrough")>>, <<>>, <<>>),
   xrPassthroughStartFB |-> Handling(<<Val("passthrough")>>, <<>>, <<>>)]

Server_XR_FB_passthrough_keyboard_hands ==
  [xrPassthroughLayerSetKeyboardHandsIntensityFB |-> Handling(<<Val("layer"),
        Ptr("intensity")>>, <<>>, <<Ptr("intensity")>>)]

Server_XR_FB_render_model ==
  [xrEnumerateRenderModelPathsFB |-> Handling(<<Val("session"), Val("pathCapacityInput"),
        Ptr("pathCountOutput"), Ptr("paths")>>, <<Ptr("pathCountOutput"), PtrN("paths",
        "pathCapacityInput")>>, <<Ptr("pathCountOutput"), Ptr("paths")>>),
   xrGetRenderModelPropertiesFB |-> Handling(<<Val("session"), Val("path"),
        Ptr("properties")>>, <<Ptr("properties")>>, <<Ptr("properties")>>),
   xrLoadRenderModelFB |-> Handling(<<Val("session"), Ptr("info"), Ptr("buffer")>>,
        <<Xr("info.next"), Ptr("buffer")>>, <<Ptr("info"), Ptr("buffer")>>)]

Server_XR_FB_scene ==
  [xrGetSpaceBoundary2DFB |-> Handling(<<Val("session"), Val("space"),
        Ptr("boundary2DOutput")>>, <<Ptr("boundary2DOutput")>>, <<Ptr("boundary2DOutput")>>),
   xrGetSpaceBoundingBox2DFB |-> Handling(<<Val("session"), Val("space"),
        Ptr("boundingBox2DOutput")>>, <<Ptr("boundingBox2DOutput")>>,
        <<Ptr("boundingBox2DOutput")>>),
   xrGetSpaceBoundingBox3DFB |-> Handling(<<Val("session"), Val("space"),
        Ptr("boundingBox3DOutput")>>, <<Ptr("boundingBox3DOutput")>>,
        <<Ptr("boundingBox3DOutput")>>),
   xrGetSpaceRoomLayoutFB |-> Handling(<<Val("session"), Val("space"),
        Ptr("roomLayoutOutput")>>, <<Ptr("roomLayoutOutput")>>, <<Ptr("roomLayoutOutput")>>),
   xrGetSpaceSemanticLabelsFB |-> Handling(<<Val("session"), Val("space"),
        Ptr("semanticLabelsOutput")>>, <<Ptr("semanticLabelsOutput")>>,
        <<Ptr("semanticLabelsOutput")>>)]

Server_XR_FB_scene_capture ==
  [xrRequestSceneCaptureFB |-> Handling(<<Val("session"), Ptr("info"), Ptr("requestId")>>,
        <<Ptr("requestId")>>, <<Ptr("info"), Ptr("requestId")>>)]

Server_XR_FB_spatial_entity ==
  [xrCreateSpatialAnchorFB |-> Handling(<<Val("session"), Ptr("info"), Ptr("requestId")>>,
        <<Ptr("requestId")>>, <<Ptr("info"), Ptr("requestId")>>),
   xrEnumerateSpaceSupportedComponentsFB |-> Handling(<<Val("space"),
        Val("componentTypeCapacityInput"), Ptr("componentTypeCountOutput"),
        Ptr("componentTypes")>>, <<Ptr("componentTypeCountOutput"), PtrN("componentTypes",
        "componentTypeCapacityInput")>>, <<Ptr("componentTypeCountOutput"),
        Ptr("componentTypes")>>),
   xrGetSpaceComponentStatusFB |-> Handling(<<Val("space"), Val("componentType"),
        Ptr("status")>>, <<Ptr("status")>>, <<Ptr("status")>>),
   xrGetSpaceUuidFB |-> Handling(<<Val("space"), Ptr("uuid")>>, <<Ptr("uuid")>>,
        <<Ptr("uuid")>>),
   xrSetSpaceComponentStatusFB |-> Handling(<<Val("space"), Ptr("info"), Ptr("requestId")>>,
        <<Ptr("requestId")>>, <<Ptr("info"), Ptr("requestId")>>)]

Server_XR_FB_spatial_entity_container ==
  [xrGetSpaceContainerFB |-> Handling(<<Val("session"), Val("space"),
        Ptr("spaceContainerOutput")>>, <<Ptr("spaceContainerOutput")>>,
        <<Ptr("spaceContainerOutput")>>)]

Server_XR_FB_spatial_entity_query ==
  [xrQuerySpacesFB |-> Handling(<<Val("session"), Xr("info"), Ptr("requestId")>>,
        <<Ptr("requestId")>>, <<Xr("info"), Ptr("requestId")>>),
   xrRetrieveSpaceQueryResultsFB |-> Handling(<<Val("session"), Val("requestId"),
        Ptr("results")>>, <<Ptr("results")>>, <<Ptr("results")>>)]

Server_XR_FB_spatial_entity_sharing ==
  [xrShareSpacesFB |-> Handling(<<Val("session"), Ptr("info"), Ptr("requestId")>>,
        <<PtrN("info.spaces", "info.spaceCount"), PtrN("info.users", "info.userCount"),
        Ptr("requestId")>>, <<Ptr("info"), Ptr("requestId")>>)]

Server_XR_FB_spatial_entity_storage ==
  [xrEraseSpaceFB |-> Handling(<<Val("session"), Ptr("info"), Ptr("requestId")>>,
        <<Ptr("requestId")>>, <<Ptr("info"), Ptr("requestId")>>),
   xrSaveSpaceFB |-> Handling(<<Val("session"), Ptr("info"), Ptr("requestId")>>,
        <<Ptr("requestId")>>, <<Ptr("info"), Ptr("requestId")>>)]

Server_XR_FB_spatial_entity_storage_batch ==
  [xrSaveSpaceListFB |-> Handling(<<Val("session"), Ptr("info"), Ptr("requestId")>>,
        <<PtrN("info.spaces", "info.spaceCount"), Ptr("requestId")>>, <<Ptr("info"),
        Ptr("requestId")>>)]

Server_XR_FB_spatial_entity_user ==
  [xrCreateSpaceUserFB |-> Handling(<<Val("session"), Ptr("info"), Ptr("user")>>,
        <<Ptr("user")>>, <<Ptr("info"), Ptr("user")>>),
   xrDestroySpaceUserFB |-> Handling(<<Val("user")>>, <<>>, <<>>),
   xrGetSpaceUserIdFB |-> Handling(<<Val("user"), Ptr("userId")>>, <<Ptr("userId")>>,
        <<Ptr("userId")>>)]

Server_XR_FB_swapchain_update_state ==
  [xrGetSwapchainStateFB |-> Handling(<<Val("swapchain"), Xr("state")>>, <<Xr("state")>>,
        <<Xr("state")>>),
   xrUpdateSwapchainFB |-> Handling(<<Val("swapchain"), Xr("state")>>, <<>>, <<Xr("state")>>)]

Server_XR_FB_triangle_mesh_1 ==
  [xrCreateTriangleMeshFB |-> Handling(<<Val("session"), Ptr("createInfo"),
        Ptr("outTriangleMesh")>>, <<Ptr("outTriangleMesh")>>, <<Ptr("createInfo"),
        Ptr("outTriangleMesh")>>),
   xrDestroyTriangleMeshFB |-> Handling(<<Val("mesh")>>, <<>>, <<>>),
   xrTriangleMeshBeginUpdateFB |-> Handling(<<Val("mesh")>>, <<>>, <<>>),
   xrTriangleMeshBeginVertexBufferUpdateFB |-> Handling(<<Val("mesh"), Ptr("outVertexCount")>>,
        <<Ptr("outVertexCount")>>, <<Ptr("outVertexCount")>>),
   xrTriangleMeshEndUpdateFB |-> Handling(<<Val("mesh"), Val("vertexCount"),
        Val("triangleCount")>>, <<>>, <<>>),
   xrTriangleMeshEndVertexBufferUpdateFB |-> Handling(<<Val("mesh")>>, <<>>, <<>>)]

Server_XR_FB_triangle_mesh_2 ==
  [xrTriangleMeshGetIndexBufferFB |-> Handling(<<Val("mesh"), NotGenerated("outIndexBuffer")>>,
        <<Ptr("outIndexBuffer")>>, <<NotGenerated("outIndexBuffer")>>),
   xrTriangleMeshGetVertexBufferFB |-> Handling(<<Val("mesh"),
        NotGenerated("outVertexBuffer")>>, <<Ptr("outVertexBuffer")>>,
        <<NotGenerated("outVertexBuffer")>>)]

\* Mutant of Server_XR_HTCX_vive_tracker_interaction: the outputs in another order.
OutputsSwapped ==
  [xrEnumerateViveTrackerPathsHTCX |-> Handling(<<Val("instance"), Val("pathCapacityInput"),
        Ptr("pathCountOutput"), Ptr("paths")>>, <<PtrN("paths", "pathCapacityInput"),
        Ptr("pathCountOutput")>>, <<Ptr("pathCountOutput"), Ptr("paths")>>)]

Server_XR_HTCX_vive_tracker_interaction ==
  [xrEnumerateViveTrackerPathsHTCX |-> Handling(<<Val("instance"), Val("pathCapacityInput"),
        Ptr("pathCountOutput"), Ptr("paths")>>, <<Ptr("pathCountOutput"), PtrN("paths",
        "pathCapacityInput")>>, <<Ptr("pathCountOutput"), Ptr("paths")>>)]

Server_XR_HTC_anchor ==
  [xrCreateSpatialAnchorHTC |-> Handling(<<Val("session"), Ptr("createInfo"), Ptr("anchor")>>,
        <<Ptr("anchor")>>, <<Ptr("createInfo"), Ptr("anchor")>>),
   xrGetSpatialAnchorNameHTC |-> Handling(<<Val("anchor"), Ptr("name")>>, <<Ptr("name")>>,
        <<Ptr("name")>>)]

Server_XR_HTC_body_tracking ==
  [xrCreateBodyTrackerHTC |-> Handling(<<Val("session"), Ptr("createInfo"),
        Ptr("bodyTracker")>>, <<Ptr("bodyTracker")>>, <<Ptr("createInfo"),
        Ptr("bodyTracker")>>),
   xrDestroyBodyTrackerHTC |-> Handling(<<Val("bodyTracker")>>, <<>>, <<>>),
   xrGetBodySkeletonHTC |-> Handling(<<Val("bodyTracker"), Val("baseSpace"),
        Val("skeletonGenerationId"), Ptr("skeleton")>>, <<Ptr("skeleton")>>,
        <<Ptr("skeleton")>>),
   xrLocateBodyJointsHTC |-> Handling(<<Val("bodyTracker"), Ptr("locateInfo"),
        Ptr("locations")>>, <<Ptr("locations")>>, <<Ptr("locateInfo"), Ptr("locations")>>)]

Server_XR_HTC_facial_tracking ==
  [xrCreateFacialTrackerHTC |-> Handling(<<Val("session"), Ptr("createInfo"),
        Ptr("facialTracker")>>, <<Ptr("facialTracker")>>, <<Ptr("createInfo"),
        Ptr("facialTracker")>>),
   xrDestroyFacialTrackerHTC |-> Handling(<<Val("facialTracker")>>, <<>>, <<>>),
   xrGetFacialExpressionsHTC |-> Handling(<<Val("facialTracker"), Ptr("facialExpressions")>>,
        <<Ptr("facialExpressions")>>, <<Ptr("facialExpressions")>>)]

Server_XR_HTC_foveation ==
  [xrApplyFoveationHTC |-> Handling(<<Val("session"), Ptr("applyInfo")>>,
        <<PtrN("applyInfo.subImages", "applyInfo.subImageCount")>>, <<Ptr("applyInfo")>>)]

Server_XR_HTC_passthrough ==
  [xrCreatePassthroughHTC |-> Handling(<<Val("session"), Ptr("createInfo"),
        Ptr("passthrough")>>, <<Ptr("passthrough")>>, <<Ptr("createInfo"),
        Ptr("passthrough")>>),
   xrDestroyPassthroughHTC |-> Handling(<<Val("passthrough")>>, <<>>, <<>>)]

Server_XR_KHR_D3D11_enable ==
  [xrGetD3D11GraphicsRequirementsKHR |-> Handling(<<Val("instance"), Val("systemId"),
        Ptr("graphicsRequirements")>>, <<Ptr("graphicsRequirements")>>,
        <<Ptr("graphicsRequirements")>>)]

Server_XR_KHR_D3D12_enable ==
  [xrGetD3D12GraphicsRequirementsKHR |-> Handling(<<Val("instance"), Val("systemId"),
        Ptr("graphicsRequirements")>>, <<Ptr("graphicsRequirements")>>,
        <<Ptr("graphicsRequirements")>>)]

Server_XR_KHR_android_surface_swapchain ==
  [xrCreateSwapchainAndroidSurfaceKHR |-> Handling(<<Val("session"), Ptr("info"),
        Ptr("swapchain"), Ptr("surface")>>, <<Ptr("swapchain"), Ptr("surface")>>,
        <<Ptr("info"), Ptr("swapchain"), Ptr("surface")>>)]

Server_XR_KHR_android_thread_settings ==
  [xrSetAndroidApplicationThreadKHR |-> Handling(<<Val("session"), Val("threadType"),
        Val("threadId")>>, <<>>, <<>>)]

Server_XR_KHR_convert_timespec_time ==
  [xrConvertTimeToTimespecTimeKHR |-> Handling(<<Val("instance"), Time("time"),
        Ptr("timespecTime")>>, <<Ptr("timespecTime")>>, <<Ptr("timespecTime")>>),
   xrConvertTimespecTimeToTimeKHR |-> Handling(<<Val("instance"), Ptr("timespecTime"),
        Ptr("time")>>, <<Ptr("timespecTime"), Ptr("time")>>, <<Ptr("timespecTime"),
        Ptr("time")>>)]

Server_XR_KHR_extended_struct_name_lengths ==
  [xrStructureTypeToString2KHR |-> Handling(<<Val("instance"), Val("value"), Arr("buffer")>>,
        <<PtrN("buffer", "XR_MAX_STRUCTURE_NAME_SIZE_EXTENDED_KHR")>>, <<>>)]

Server_XR_KHR_loader_init ==
  [xrInitializeLoaderKHR |-> Handling(<<Xr("loaderInitInfo")>>, <<>>, <<Xr("loaderInitInfo")>>)]

Server_XR_KHR_metal_enable ==
  [xrGetMetalGraphicsRequirementsKHR |-> Handling(<<Val("instance"), Val("systemId"),
        Ptr("graphicsRequirements")>>, <<Ptr("graphicsRequirements")>>,
        <<Ptr("graphicsRequirements")>>)]

Server_XR_KHR_opengl_enable ==
  [xrGetOpenGLGraphicsRequirementsKHR |-> Handling(<<Val("instance"), Val("systemId"),
        Ptr("graphicsRequirements")>>, <<Ptr("graphicsRequirements")>>,
        <<Ptr("graphicsRequirements")>>)]

Server_XR_KHR_opengl_es_enable ==
  [xrGetOpenGLESGraphicsRequirementsKHR |-> Handling(<<Val("instance"), Val("systemId"),
        Ptr("graphicsRequirements")>>, <<Ptr("graphicsRequirements")>>,
        <<Ptr("graphicsRequirements")>>)]

Server_XR_KHR_visibility_mask ==
  [xrGetVisibilityMaskKHR |-> Handling(<<Val("session"), Val("viewConfigurationType"),
        Val("viewIndex"), Val("visibilityMaskType"), Ptr("visibilityMask")>>,
        <<Ptr("visibilityMask")>>, <<Ptr("visibilityMask")>>)]

Server_XR_KHR_vulkan_enable ==
  [xrGetVulkanDeviceExtensionsKHR |-> Handling(<<Val("instance"), Val("systemId"),
        Val("bufferCapacityInput"), Ptr("bufferCountOutput"), Ptr("buffer")>>,
        <<Ptr("bufferCountOutput"), PtrN("buffer", "bufferCapacityInput")>>,
        <<Ptr("bufferCountOutput"), Ptr("buffer")>>),
   xrGetVulkanGraphicsDeviceKHR |-> Handling(<<Val("instance"), Val("systemId"),
        Val("vkInstance"), Ptr("vkPhysicalDevice")>>, <<Ptr("vkPhysicalDevice")>>,
        <<Ptr("vkPhysicalDevice")>>),
   xrGetVulkanGraphicsRequirementsKHR |-> Handling(<<Val("instance"), Val("systemId"),
        Ptr("graphicsRequirements")>>, <<Ptr("graphicsRequirements")>>,
        <<Ptr("graphicsRequirements")>>),
   xrGetVulkanInstanceExtensionsKHR |-> Handling(<<Val("instance"), Val("systemId"),
        Val("bufferCapacityInput"), Ptr("bufferCountOutput"), Ptr("buffer")>>,
        <<Ptr("bufferCountOutput"), PtrN("buffer", "bufferCapacityInput")>>,
        <<Ptr("bufferCountOutput"), Ptr("buffer")>>)]

Server_XR_KHR_vulkan_enable2 ==
  [xrCreateVulkanDeviceKHR |-> Handling(<<Val("instance"), Ptr("createInfo"),
        Ptr("vulkanDevice"), Ptr("vulkanResult")>>, <<Ptr("vulkanDevice"),
        Ptr("vulkanResult")>>, <<Ptr("createInfo"), Ptr("vulkanDevice"),
        Ptr("vulkanResult")>>),
   xrCreateVulkanInstanceKHR |-> Handling(<<Val("instance"), Ptr("createInfo"),
        Ptr("vulkanInstance"), Ptr("vulkanResult")>>, <<Ptr("vulkanInstance"),
        Ptr("vulkanResult")>>, <<Ptr("createInfo"), Ptr("vulkanInstance"),
        Ptr("vulkanResult")>>),
   xrGetVulkanGraphicsDevice2KHR |-> Handling(<<Val("instance"), Ptr("getInfo"),
        Ptr("vulkanPhysicalDevice")>>, <<Ptr("vulkanPhysicalDevice")>>, <<Ptr("getInfo"),
        Ptr("vulkanPhysicalDevice")>>)]

Server_XR_KHR_win32_convert_performance_counter_time ==
  [xrConvertTimeToWin32PerformanceCounterKHR |-> Handling(<<Val("instance"), Time("time"),
        Ptr("performanceCounter")>>, <<Ptr("performanceCounter")>>,
        <<Ptr("performanceCounter")>>),
   xrConvertWin32PerformanceCounterToTimeKHR |-> Handling(<<Val("instance"),
        Ptr("performanceCounter"), Ptr("time")>>, <<Ptr("time")>>,
        <<Ptr("performanceCounter"), Ptr("time")>>)]

Server_XR_META_colocation_discovery ==
  [xrStartColocationAdvertisementMETA |-> Handling(<<Val("session"), Ptr("info"),
        Ptr("advertisementRequestId")>>, <<PtrN("info.buffer", "info.bufferSize"),
        Ptr("advertisementRequestId")>>, <<Ptr("info"), Ptr("advertisementRequestId")>>),
   xrStartColocationDiscoveryMETA |-> Handling(<<Val("session"), Ptr("info"),
        Ptr("discoveryRequestId")>>, <<Ptr("discoveryRequestId")>>, <<Ptr("info"),
        Ptr("discoveryRequestId")>>),
   xrStopColocationAdvertisementMETA |-> Handling(<<Val("session"), Ptr("info"),
        Ptr("requestId")>>, <<Ptr("requestId")>>, <<Ptr("info"), Ptr("requestId")>>),
   xrStopColocationDiscoveryMETA |-> Handling(<<Val("session"), Ptr("info"),
        Ptr("requestId")>>, <<Ptr("requestId")>>, <<Ptr("info"), Ptr("requestId")>>)]

Server_XR_META_environment_depth_1 ==
  [xrAcquireEnvironmentDepthImageMETA |-> Handling(<<Val("environmentDepthProvider"),
        Ptr("acquireInfo"), Ptr("environmentDepthImage")>>,
        <<Ptr("environmentDepthImage")>>, <<Ptr("acquireInfo"),
        Ptr("environmentDepthImage")>>),
   xrCreateEnvironmentDepthProviderMETA |-> Handling(<<Val("session"), Ptr("createInfo"),
        Ptr("environmentDepthProvider")>>, <<Ptr("environmentDepthProvider")>>,
        <<Ptr("createInfo"), Ptr("environmentDepthProvider")>>),
   xrCreateEnvironmentDepthSwapchainMETA |-> Handling(<<Val("environmentDepthProvider"),
        Ptr("createInfo"), Ptr("swapchain")>>, <<Ptr("swapchain")>>, <<Ptr("createInfo"),
        Ptr("swapchain")>>),
   xrDestroyEnvironmentDepthProviderMETA |-> Handling(<<Val("environmentDepthProvider")>>,
        <<>>, <<>>),
   xrDestroyEnvironmentDepthSwapchainMETA |-> Handling(<<Val("swapchain")>>, <<>>, <<>>)]

Server_XR_META_environment_depth_2 ==
  [xrEnumerateEnvironmentDepthSwapchainImagesMETA |-> Handling(<<Val("swapchain"),
        Val("imageCapacityInput"), Ptr("imageCountOutput"), XrArrIn("images")>>,
        <<Ptr("imageCountOutput"), XrArr("images", "imageCapacityInput")>>,
        <<Ptr("imageCountOutput"), XrArrIn("images")>>),
   xrGetEnvironmentDepthSwapchainStateMETA |-> Handling(<<Val("swapchain"), Ptr("state")>>,
        <<Ptr("state")>>, <<Ptr("state")>>),
   xrSetEnvironmentDepthHandRemovalMETA |-> Handling(<<Val("environmentDepthProvider"),
        Ptr("setInfo")>>, <<>>, <<Ptr("setInfo")>>),
   xrStartEnvironmentDepthProviderMETA |-> Handling(<<Val("environmentDepthProvider")>>, <<>>,
        <<>>),
   xrStopEnvironmentDepthProviderMETA |-> Handling(<<Val("environmentDepthProvider")>>, <<>>,
        <<>>)]

Server_XR_META_foveation_eye_tracked ==
  [xrGetFoveationEyeTrackedStateMETA |-> Handling(<<Val("session"), Ptr("foveationState")>>,
        <<Ptr("foveationState")>>, <<Ptr("foveationState")>>)]

Server_XR_META_passthrough_color_lut ==
  [xrCreatePassthroughColorLutMETA |-> Handling(<<Val("passthrough"), Ptr("createInfo"),
        Ptr("colorLut")>>, <<Ptr("colorLut")>>, <<Ptr("createInfo"), Ptr("colorLut")>>),
   xrDestroyPassthroughColorLutMETA |-> Handling(<<Val("colorLut")>>, <<>>, <<>>),
   xrUpdatePassthroughColorLutMETA |-> Handling(<<Val("colorLut"), Ptr("updateInfo")>>, <<>>,
        <<Ptr("updateInfo")>>)]

Server_XR_META_passthrough_preferences ==
  [xrGetPassthroughPreferencesMETA |-> Handling(<<Val("session"), Ptr("preferences")>>,
        <<Ptr("preferences")>>, <<Ptr("preferences")>>)]

Server_XR_META_performance_metrics ==
  [xrEnumeratePerformanceMetricsCounterPathsMETA |-> Handling(<<Val("instance"),
        Val("counterPathCapacityInput"), Ptr("counterPathCountOutput"),
        Ptr("counterPaths")>>, <<Ptr("counterPathCountOutput"), PtrN("counterPaths",
        "counterPathCapacityInput")>>, <<Ptr("counterPathCountOutput"),
        Ptr("counterPaths")>>),
   xrGetPerformanceMetricsStateMETA |-> Handling(<<Val("session"), Ptr("state")>>,
        <<Ptr("state")>>, <<Ptr("state")>>),
   xrQueryPerformanceMetricsCounterMETA |-> Handling(<<Val("session"), Val("counterPath"),
        Ptr("counter")>>, <<Ptr("counter")>>, <<Ptr("counter")>>),
   xrSetPerformanceMetricsStateMETA |-> Handling(<<Val("session"), Ptr("state")>>, <<>>,
        <<Ptr("state")>>)]

Server_XR_META_recommended_layer_resolution ==
  [xrGetRecommendedLayerResolutionMETA |-> Handling(<<Val("session"), Ptr("info"),
        Ptr("resolution")>>, <<Ptr("resolution")>>, <<Ptr("info"), Ptr("resolution")>>)]

Server_XR_META_simultaneous_hands_and_controllers ==
  [xrPauseSimultaneousHandsAndControllersTrackingMETA |-> Handling(<<Val("session"),
        Ptr("pauseInfo")>>, <<>>, <<Ptr("pauseInfo")>>),
   xrResumeSimultaneousHandsAndControllersTrackingMETA |-> Handling(<<Val("session"),
        Ptr("resumeInfo")>>, <<>>, <<Ptr("resumeInfo")>>)]

Server_XR_META_spatial_entity_mesh ==
  [xrGetSpaceTriangleMeshMETA |-> Handling(<<Val("space"), Ptr("getInfo"),
        Ptr("triangleMeshOutput")>>, <<Ptr("triangleMeshOutput")>>, <<Ptr("getInfo"),
        Ptr("triangleMeshOutput")>>)]

Server_XR_META_spatial_entity_sharing ==
  [xrShareSpacesMETA |-> Handling(<<Val("session"), Ptr("info"), Ptr("requestId")>>,
        <<PtrN("info.spaces", "info.spaceCount"), Ptr("requestId")>>, <<Ptr("info"),
        Ptr("requestId")>>)]

Server_XR_META_virtual_keyboard_1 ==
  [xrChangeVirtualKeyboardTextContextMETA |-> Handling(<<Val("keyboard"), Ptr("changeInfo")>>,
        <<>>, <<Ptr("changeInfo")>>),
   xrCreateVirtualKeyboardMETA |-> Handling(<<Val("session"), Ptr("createInfo"),
        Ptr("keyboard")>>, <<Ptr("keyboard")>>, <<Ptr("createInfo"), Ptr("keyboard")>>),
   xrCreateVirtualKeyboardSpaceMETA |-> Handling(<<Val("session"), Val("keyboard"),
        Ptr("createInfo"), Ptr("keyboardSpace")>>, <<Ptr("keyboardSpace")>>,
        <<Ptr("createInfo"), Ptr("keyboardSpace")>>),
   xrDestroyVirtualKeyboardMETA |-> Handling(<<Val("keyboard")>>, <<>>, <<>>),
   xrGetVirtualKeyboardDirtyTexturesMETA |-> Handling(<<Val("keyboard"),
        Val("textureIdCapacityInput"), Ptr("textureIdCountOutput"), Ptr("textureIds")>>,
        <<Ptr("textureIdCountOutput"), PtrN("textureIds", "textureIdCapacityInput")>>,
        <<Ptr("textureIdCountOutput"), Ptr("textureIds")>>)]

Server_XR_META_virtual_keyboard_2 ==
  [xrGetVirtualKeyboardModelAnimationStatesMETA |-> Handling(<<Val("keyboard"),
        Ptr("animationStates")>>, <<Ptr("animationStates")>>, <<Ptr("animationStates")>>),
   xrGetVirtualKeyboardScaleMETA |-> Handling(<<Val("keyboard"), Ptr("scale")>>,
        <<Ptr("scale")>>, <<Ptr("scale")>>),
   xrGetVirtualKeyboardTextureDataMETA |-> Handling(<<Val("keyboard"), Val("textureId"),
        Ptr("textureData")>>, <<Ptr("textureData")>>, <<Ptr("textureData")>>),
   xrSendVirtualKeyboardInputMETA |-> Handling(<<Val("keyboard"), Ptr("info"),
        Ptr("interactorRootPose")>>, <<Ptr("interactorRootPose")>>, <<Ptr("info"),
        Ptr("interactorRootPose")>>),
   xrSetVirtualKeyboardModelVisibilityMETA |-> Handling(<<Val("keyboard"),
        Ptr("modelVisibility")>>, <<>>, <<Ptr("modelVisibility")>>),
   xrSuggestVirtualKeyboardLocationMETA |-> Handling(<<Val("keyboard"), Ptr("locationInfo")>>,
        <<>>, <<Ptr("locationInfo")>>)]

Server_XR_ML_compat ==
  [xrCreateSpaceFromCoordinateFrameUIDML |-> Handling(<<Val("session"), Ptr("createInfo"),
        Ptr("space")>>, <<Ptr("space")>>, <<Ptr("createInfo"), Ptr("space")>>)]

Server_XR_ML_facial_expression ==
  [xrCreateFacialExpressionClientML |-> Handling(<<Val("session"), Ptr("createInfo"),
        Ptr("facialExpressionClient")>>, <<Ptr("facialExpressionClient")>>,
        <<Ptr("createInfo"), Ptr("facialExpressionClient")>>),
   xrDestroyFacialExpressionClientML |-> Handling(<<Val("facialExpressionClient")>>, <<>>,
        <<>>),
   xrGetFacialExpressionBlendShapePropertiesML |-> Handling(<<Val("facialExpressionClient"),
        Ptr("blendShapeGetInfo"), Val("blendShapeCount"), Ptr("blendShapes")>>,
        <<PtrN("blendShapes", "blendShapeCount")>>, <<Ptr("blendShapeGetInfo"),
        Ptr("blendShapes")>>)]

Server_XR_ML_localization_map_1 ==
  [xrCreateExportedLocalizationMapML |-> Handling(<<Val("session"), Ptr("mapUuid"),
        Ptr("map")>>, <<Ptr("map")>>, <<Ptr("mapUuid"), Ptr("map")>>),
   xrDestroyExportedLocalizationMapML |-> Handling(<<Val("map")>>, <<>>, <<>>),
   xrEnableLocalizationEventsML |-> Handling(<<Val("session"), Ptr("info")>>, <<>>,
        <<Ptr("info")>>),
   xrGetExportedLocalizationMapDataML |-> Handling(<<Val("map"), Val("bufferCapacityInput"),
        Ptr("bufferCountOutput"), Ptr("buffer")>>, <<Ptr("bufferCountOutput"),
        PtrN("buffer", "bufferCapacityInput")>>, <<Ptr("bufferCountOutput"),
        Ptr("buffer")>>),
   xrImportLocalizationMapML |-> Handling(<<Val("session"), Ptr("importInfo"),
        Ptr("mapUuid")>>, <<PtrN("importInfo.data", "importInfo.size"), Ptr("mapUuid")>>,
        <<Ptr("importInfo"), Ptr("mapUuid")>>)]

Server_XR_ML_localization_map_2 ==
  [xrQueryLocalizationMapsML |-> Handling(<<Val("session"), Xr("queryInfo"),
        Val("mapCapacityInput"), Ptr("mapCountOutput"), Ptr("maps")>>,
        <<Ptr("mapCountOutput"), PtrN("maps", "mapCapacityInput")>>, <<Xr("queryInfo"),
        Ptr("mapCountOutput"), Ptr("maps")>>),
   xrRequestMapLocalizationML |-> Handling(<<Val("session"), Ptr("requestInfo")>>, <<>>,
        <<Ptr("requestInfo")>>)]

Server_XR_ML_marker_understanding_1 ==
  [xrCreateMarkerDetectorML |-> Handling(<<Val("session"), Ptr("createInfo"),
        Ptr("markerDetector")>>, <<Ptr("markerDetector")>>, <<Ptr("createInfo"),
        Ptr("markerDetector")>>),
   xrCreateMarkerSpaceML |-> Handling(<<Val("session"), Ptr("createInfo"), Ptr("space")>>,
        <<Ptr("space")>>, <<Ptr("createInfo"), Ptr("space")>>),
   xrDestroyMarkerDetectorML |-> Handling(<<Val("markerDetector")>>, <<>>, <<>>),
   xrGetMarkerDetectorStateML |-> Handling(<<Val("markerDetector"), Ptr("state")>>,
        <<Ptr("state")>>, <<Ptr("state")>>),
   xrGetMarkerLengthML |-> Handling(<<Val("markerDetector"), Val("marker"), Ptr("meters")>>,
        <<Ptr("meters")>>, <<Ptr("meters")>>)]

Server_XR_ML_marker_understanding_2 ==
  [xrGetMarkerNumberML |-> Handling(<<Val("markerDetector"), Val("marker"), Ptr("number")>>,
        <<Ptr("number")>>, <<Ptr("number")>>),
   xrGetMarkerReprojectionErrorML |-> Handling(<<Val("markerDetector"), Val("marker"),
        Ptr("reprojectionErrorMeters")>>, <<Ptr("reprojectionErrorMeters")>>,
        <<Ptr("reprojectionErrorMeters")>>),
   xrGetMarkerStringML |-> Handling(<<Val("markerDetector"), Val("marker"),
        Val("bufferCapacityInput"), Ptr("bufferCountOutput"), Ptr("buffer")>>,
        <<Ptr("bufferCountOutput"), PtrN("buffer", "bufferCapacityInput")>>,
        <<Ptr("bufferCountOutput"), Ptr("buffer")>>),
   xrGetMarkersML |-> Handling(<<Val("markerDetector"), Val("markerCapacityInput"),
        Ptr("markerCountOutput"), Ptr("markers")>>, <<Ptr("markerCountOutput"),
        PtrN("markers", "markerCapacityInput")>>, <<Ptr("markerCountOutput"),
        Ptr("markers")>>),
   xrSnapshotMarkerDetectorML |-> Handling(<<Val("markerDetector"), Ptr("snapshotInfo")>>,
        <<Ptr("snapshotInfo")>>, <<Ptr("snapshotInfo")>>)]

Server_XR_ML_spatial_anchors ==
  [xrCreateSpatialAnchorsAsyncML |-> Handling(<<Val("session"), Xr("createInfo"),
        Ptr("future")>>, <<Ptr("future")>>, <<Xr("createInfo"), Ptr("future")>>),
   xrCreateSpatialAnchorsCompleteML |-> Handling(<<Val("session"), Val("future"),
        Ptr("completion")>>, <<Ptr("completion")>>, <<Ptr("completion")>>),
   xrGetSpatialAnchorStateML |-> Handling(<<Val("anchor"), Ptr("state")>>, <<Ptr("state")>>,
        <<Ptr("state")>>)]

Server_XR_ML_spatial_anchors_storage_1 ==
  [xrCreateSpatialAnchorsStorageML |-> Handling(<<Val("session"), Ptr("createInfo"),
        Ptr("storage")>>, <<Ptr("storage")>>, <<Ptr("createInfo"), Ptr("storage")>>),
   xrDeleteSpatialAnchorsAsyncML |-> Handling(<<Val("storage"), Ptr("deleteInfo"),
        Ptr("future")>>, <<Ptr("future")>>, <<Ptr("deleteInfo"), Ptr("future")>>),
   xrDeleteSpatialAnchorsCompleteML |-> Handling(<<Val("storage"), Val("future"),
        Ptr("completion")>>, <<Ptr("completion")>>, <<Ptr("completion")>>),
   xrDestroySpatialAnchorsStorageML |-> Handling(<<Val("storage")>>, <<>>, <<>>),
   xrPublishSpatialAnchorsAsyncML |-> Handling(<<Val("storage"), Ptr("publishInfo"),
        Ptr("future")>>, <<Ptr("future")>>, <<Ptr("publishInfo"), Ptr("future")>>)]

Server_XR_ML_spatial_anchors_storage_2 ==
  [xrPublishSpatialAnchorsCompleteML |-> Handling(<<Val("storage"), Val("future"),
        Ptr("completion")>>, <<Ptr("completion")>>, <<Ptr("completion")>>),
   xrQuerySpatialAnchorsAsyncML |-> Handling(<<Val("storage"), Xr("queryInfo"),
        Ptr("future")>>, <<Ptr("future")>>, <<Xr("queryInfo"), Ptr("future")>>),
   xrQuerySpatialAnchorsCompleteML |-> Handling(<<Val("storage"), Val("future"),
        Ptr("completion")>>, <<Ptr("completion")>>, <<Ptr("completion")>>),
   xrUpdateSpatialAnchorsExpirationAsyncML |-> Handling(<<Val("storage"), Ptr("updateInfo"),
        Ptr("future")>>, <<Ptr("future")>>, <<Ptr("updateInfo"), Ptr("future")>>),
   xrUpdateSpatialAnchorsExpirationCompleteML |-> Handling(<<Val("storage"), Val("future"),
        Ptr("completion")>>, <<Ptr("completion")>>, <<Ptr("completion")>>)]

Server_XR_ML_system_notifications ==
  [xrSetSystemNotificationsML |-> Handling(<<Val("instance"), Ptr("info")>>, <<>>,
        <<Ptr("info")>>)]

Server_XR_ML_user_calibration ==
  [xrEnableUserCalibrationEventsML |-> Handling(<<Val("instance"), Ptr("enableInfo")>>, <<>>,
        <<Ptr("enableInfo")>>)]

Server_XR_ML_world_mesh_detection_1 ==
  [xrAllocateWorldMeshBufferML |-> Handling(<<Val("detector"), Ptr("size"), Ptr("buffer")>>,
        <<Xr("size.next"), Ptr("buffer")>>, <<Ptr("size"), Ptr("buffer")>>),
   xrCreateWorldMeshDetectorML |-> Handling(<<Val("session"), Ptr("createInfo"),
        Ptr("detector")>>, <<Ptr("detector")>>, <<Ptr("createInfo"), Ptr("detector")>>),
   xrDestroyWorldMeshDetectorML |-> Handling(<<Val("detector")>>, <<>>, <<>>),
   xrFreeWorldMeshBufferML |-> Handling(<<Val("detector"), Ptr("buffer")>>,
        <<Xr("buffer.next"), PtrN("buffer.buffer", "buffer.bufferSize")>>,
        <<Ptr("buffer")>>),
   xrGetWorldMeshBufferRecommendSizeML |-> Handling(<<Val("detector"), Ptr("sizeInfo"),
        Ptr("size")>>, <<Ptr("size")>>, <<Ptr("sizeInfo"), Ptr("size")>>)]

Server_XR_ML_world_mesh_detection_2 ==
  [xrRequestWorldMeshAsyncML |-> Handling(<<Val("detector"), Ptr("getInfo"), Ptr("buffer"),
        Ptr("future")>>, <<PtrN("getInfo.blocks", "getInfo.blockCount"), Ptr("buffer"),
        Ptr("future")>>, <<Ptr("getInfo"), Ptr("buffer"), Ptr("future")>>),
   xrRequestWorldMeshCompleteML |-> Handling(<<Val("detector"), Ptr("completionInfo"),
        Val("future"), Ptr("completion")>>, <<Ptr("completion")>>, <<Ptr("completionInfo"),
        Ptr("completion")>>),
   xrRequestWorldMeshStateAsyncML |-> Handling(<<Val("detector"), Ptr("stateRequest"),
        Ptr("future")>>, <<Ptr("future")>>, <<Ptr("stateRequest"), Ptr("future")>>),
   xrRequestWorldMeshStateCompleteML |-> Handling(<<Val("detector"), Val("future"),
        Ptr("completion")>>, <<Ptr("completion")>>, <<Ptr("completion")>>)]

Server_XR_MNDX_force_feedback_curl ==
  [xrApplyForceFeedbackCurlMNDX |-> Handling(<<Val("handTracker"), Ptr("locations")>>,
        <<PtrN("locations.locations", "locations.locationCount")>>, <<Ptr("locations")>>)]

Server_XR_MSFT_composition_layer_reprojection ==
  [xrEnumerateReprojectionModesMSFT |-> Handling(<<Val("instance"), Val("systemId"),
        Val("viewConfigurationType"), Val("modeCapacityInput"), Ptr("modeCountOutput"),
        Ptr("modes")>>, <<Ptr("modeCountOutput"), PtrN("modes", "modeCapacityInput")>>,
        <<Ptr("modeCountOutput"), Ptr("modes")>>)]

Server_XR_MSFT_controller_model ==
  [xrGetControllerModelKeyMSFT |-> Handling(<<Val("session"), Val("topLevelUserPath"),
        Ptr("controllerModelKeyState")>>, <<Ptr("controllerModelKeyState")>>,
        <<Ptr("controllerModelKeyState")>>),
   xrGetControllerModelPropertiesMSFT |-> Handling(<<Val("session"), Val("modelKey"),
        Ptr("properties")>>, <<Ptr("properties")>>, <<Ptr("properties")>>),
   xrGetControllerModelStateMSFT |-> Handling(<<Val("session"), Val("modelKey"),
        Ptr("state")>>, <<Ptr("state")>>, <<Ptr("state")>>),
   xrLoadControllerModelMSFT |-> Handling(<<Val("session"), Val("modelKey"),
        Val("bufferCapacityInput"), Ptr("bufferCountOutput"), Ptr("buffer")>>,
        <<Ptr("bufferCountOutput"), PtrN("buffer", "bufferCapacityInput")>>,
        <<Ptr("bufferCountOutput"), Ptr("buffer")>>)]

Server_XR_MSFT_hand_tracking_mesh ==
  [xrCreateHandMeshSpaceMSFT |-> Handling(<<Val("handTracker"), Ptr("createInfo"),
        Ptr("space")>>, <<Ptr("space")>>, <<Ptr("createInfo"), Ptr("space")>>),
   xrUpdateHandMeshMSFT |-> Handling(<<Val("handTracker"), Ptr("updateInfo"),
        Ptr("handMesh")>>, <<Ptr("handMesh")>>, <<Ptr("updateInfo"), Ptr("handMesh")>>)]

Server_XR_MSFT_perception_anchor_interop ==
  [xrCreateSpatialAnchorFromPerceptionAnchorMSFT |-> Handling(<<Val("session"),
        Ptr("perceptionAnchor"), Ptr("anchor")>>, <<Ptr("perceptionAnchor"),
        Ptr("anchor")>>, <<Ptr("perceptionAnchor"), Ptr("anchor")>>),
   xrTryGetPerceptionAnchorFromSpatialAnchorMSFT |-> Handling(<<Val("session"), Val("anchor"),
        NotGenerated("perceptionAnchor")>>, <<Ptr("perceptionAnchor")>>,
        <<NotGenerated("perceptionAnchor")>>)]

Server_XR_MSFT_scene_marker ==
  [xrGetSceneMarkerDecodedStringMSFT |-> Handling(<<Val("scene"), Ptr("markerId"),
        Val("bufferCapacityInput"), Ptr("bufferCountOutput"), Ptr("buffer")>>,
        <<Ptr("bufferCountOutput"), PtrN("buffer", "bufferCapacityInput")>>,
        <<Ptr("markerId"), Ptr("bufferCountOutput"), Ptr("buffer")>>),
   xrGetSceneMarkerRawDataMSFT |-> Handling(<<Val("scene"), Ptr("markerId"),
        Val("bufferCapacityInput"), Ptr("bufferCountOutput"), Ptr("buffer")>>,
        <<Ptr("bufferCountOutput"), PtrN("buffer", "bufferCapacityInput")>>,
        <<Ptr("markerId"), Ptr("bufferCountOutput"), Ptr("buffer")>>)]

Server_XR_MSFT_scene_understanding_1 ==
  [xrComputeNewSceneMSFT |-> Handling(<<Val("sceneObserver"), Ptr("computeInfo")>>, <<>>,
        <<Ptr("computeInfo")>>),
   xrCreateSceneMSFT |-> Handling(<<Val("sceneObserver"), Ptr("createInfo"), Ptr("scene")>>,
        <<Ptr("scene")>>, <<Ptr("createInfo"), Ptr("scene")>>),
   xrCreateSceneObserverMSFT |-> Handling(<<Val("session"), Ptr("createInfo"),
        Ptr("sceneObserver")>>, <<Ptr("sceneObserver")>>, <<Ptr("createInfo"),
        Ptr("sceneObserver")>>),
   xrDestroySceneMSFT |-> Handling(<<Val("scene")>>, <<>>, <<>>),
   xrDestroySceneObserverMSFT |-> Handling(<<Val("sceneObserver")>>, <<>>, <<>>),
   xrEnumerateSceneComputeFeaturesMSFT |-> Handling(<<Val("instance"), Val("systemId"),
        Val("featureCapacityInput"), Ptr("featureCountOutput"), Ptr("features")>>,
        <<Ptr("featureCountOutput"), PtrN("features", "featureCapacityInput")>>,
        <<Ptr("featureCountOutput"), Ptr("features")>>)]

Server_XR_MSFT_scene_understanding_2 ==
  [xrGetSceneComponentsMSFT |-> Handling(<<Val("scene"), Ptr("getInfo"), Ptr("components")>>,
        <<Ptr("components")>>, <<Ptr("getInfo"), Ptr("components")>>),
   xrGetSceneComputeStateMSFT |-> Handling(<<Val("sceneObserver"), Ptr("state")>>,
        <<Ptr("state")>>, <<Ptr("state")>>),
   xrGetSceneMeshBuffersMSFT |-> Handling(<<Val("scene"), Ptr("getInfo"), Ptr("buffers")>>,
        <<Ptr("buffers")>>, <<Ptr("getInfo"), Ptr("buffers")>>),
   xrLocateSceneComponentsMSFT |-> Handling(<<Val("scene"), Ptr("locateInfo"),
        Ptr("locations")>>, <<Ptr("locations")>>, <<Ptr("locateInfo"), Ptr("locations")>>)]

Server_XR_MSFT_scene_understanding_serialization ==
  [xrDeserializeSceneMSFT |-> Handling(<<Val("sceneObserver"), Ptr("deserializeInfo")>>, <<>>,
        <<Ptr("deserializeInfo")>>),
   xrGetSerializedSceneFragmentDataMSFT |-> Handling(<<Val("scene"), Ptr("getInfo"),
        Val("countInput"), Ptr("readOutput"), Ptr("buffer")>>, <<Ptr("readOutput"),
        PtrN("buffer", "countInput")>>, <<Ptr("getInfo"), Ptr("readOutput"),
        Ptr("buffer")>>)]

Server_XR_MSFT_spatial_anchor ==
  [xrCreateSpatialAnchorMSFT |-> Handling(<<Val("session"), Ptr("createInfo"), Ptr("anchor")>>,
        <<Ptr("anchor")>>, <<Ptr("createInfo"), Ptr("anchor")>>),
   xrCreateSpatialAnchorSpaceMSFT |-> Handling(<<Val("session"), Ptr("createInfo"),
        Ptr("space")>>, <<Ptr("space")>>, <<Ptr("createInfo"), Ptr("space")>>),
   xrDestroySpatialAnchorMSFT |-> Handling(<<Val("anchor")>>, <<>>, <<>>)]

Server_XR_MSFT_spatial_anchor_persistence_1 ==
  [xrClearSpatialAnchorStoreMSFT |-> Handling(<<Val("spatialAnchorStore")>>, <<>>, <<>>),
   xrCreateSpatialAnchorFromPersistedNameMSFT |-> Handling(<<Val("session"),
        Ptr("spatialAnchorCreateInfo"), Ptr("spatialAnchor")>>, <<Ptr("spatialAnchor")>>,
        <<Ptr("spatialAnchorCreateInfo"), Ptr("spatialAnchor")>>),
   xrCreateSpatialAnchorStoreConnectionMSFT |-> Handling(<<Val("session"),
        Ptr("spatialAnchorStore")>>, <<Ptr("spatialAnchorStore")>>,
        <<Ptr("spatialAnchorStore")>>),
   xrDestroySpatialAnchorStoreConnectionMSFT |-> Handling(<<Val("spatialAnchorStore")>>, <<>>,
        <<>>),
   xrEnumeratePersistedSpatialAnchorNamesMSFT |-> Handling(<<Val("spatialAnchorStore"),
        Val("spatialAnchorNameCapacityInput"), Ptr("spatialAnchorNameCountOutput"),
        Ptr("spatialAnchorNames")>>, <<Ptr("spatialAnchorNameCountOutput"),
        PtrN("spatialAnchorNames", "spatialAnchorNameCapacityInput")>>,
        <<Ptr("spatialAnchorNameCountOutput"), Ptr("spatialAnchorNames")>>),
   xrPersistSpatialAnchorMSFT |-> Handling(<<Val("spatialAnchorStore"),
        Ptr("spatialAnchorPersistenceInfo")>>, <<>>,
        <<Ptr("spatialAnchorPersistenceInfo")>>)]

Server_XR_MSFT_spatial_anchor_persistence_2 ==
  [xrUnpersistSpatialAnchorMSFT |-> Handling(<<Val("spatialAnchorStore"),
        Ptr("spatialAnchorPersistenceName")>>, <<>>,
        <<Ptr("spatialAnchorPersistenceName")>>)]

Server_XR_MSFT_spatial_graph_bridge ==
  [xrCreateSpatialGraphNodeSpaceMSFT |-> Handling(<<Val("session"), Ptr("createInfo"),
        Ptr("space")>>, <<Ptr("space")>>, <<Ptr("createInfo"), Ptr("space")>>),
   xrDestroySpatialGraphNodeBindingMSFT |-> Handling(<<Val("nodeBinding")>>, <<>>, <<>>),
   xrGetSpatialGraphNodeBindingPropertiesMSFT |-> Handling(<<Val("nodeBinding"),
        Ptr("getInfo"), Ptr("properties")>>, <<Ptr("properties")>>, <<Ptr("getInfo"),
        Ptr("properties")>>),
   xrTryCreateSpatialGraphStaticNodeBindingMSFT |-> Handling(<<Val("session"),
        Ptr("createInfo"), Ptr("nodeBinding")>>, <<Ptr("nodeBinding")>>,
        <<Ptr("createInfo"), Ptr("nodeBinding")>>)]

Server_XR_OCULUS_audio_device_guid ==
  [xrGetAudioInputDeviceGuidOculus |-> Handling(<<Val("instance"), Arr("buffer")>>,
        <<PtrN("buffer", "XR_MAX_AUDIO_DEVICE_STR_SIZE_OCULUS")>>, <<>>),
   xrGetAudioOutputDeviceGuidOculus |-> Handling(<<Val("instance"), Arr("buffer")>>,
        <<PtrN("buffer", "XR_MAX_AUDIO_DEVICE_STR_SIZE_OCULUS")>>, <<>>)]

Server_XR_OCULUS_external_camera ==
  [xrEnumerateExternalCamerasOCULUS |-> Handling(<<Val("session"), Val("cameraCapacityInput"),
        Ptr("cameraCountOutput"), Ptr("cameras")>>, <<Ptr("cameraCountOutput"),
        PtrN("cameras", "cameraCapacityInput")>>, <<Ptr("cameraCountOutput"),
        Ptr("cameras")>>)]

Server_XR_QCOM_tracking_optimization_settings ==
  [xrSetTrackingOptimizationSettingsHintQCOM |-> Handling(<<Val("session"), Val("domain"),
        Val("hint")>>, <<>>, <<>>)]

Server_XR_VARJO_environment_depth_estimation ==
  [xrSetEnvironmentDepthEstimationVARJO |-> Handling(<<Val("session"), Val("enabled")>>, <<>>,
        <<>>)]

Server_XR_VARJO_marker_tracking ==
  [xrCreateMarkerSpaceVARJO |-> Handling(<<Val("session"), Ptr("createInfo"), Ptr("space")>>,
        <<Ptr("space")>>, <<Ptr("createInfo"), Ptr("space")>>),
   xrGetMarkerSizeVARJO |-> Handling(<<Val("session"), Val("markerId"), Ptr("size")>>,
        <<Ptr("size")>>, <<Ptr("size")>>),
   xrSetMarkerTrackingPredictionVARJO |-> Handling(<<Val("session"), Val("markerId"),
        Val("enable")>>, <<>>, <<>>),
   xrSetMarkerTrackingTimeoutVARJO |-> Handling(<<Val("session"), Val("markerId"),
        Val("timeout")>>, <<>>, <<>>),
   xrSetMarkerTrackingVARJO |-> Handling(<<Val("session"), Val("enabled")>>, <<>>, <<>>)]

Server_XR_VARJO_view_offset ==
  [xrSetViewOffsetVARJO |-> Handling(<<Val("session"), Val("offset")>>, <<>>, <<>>)]

Server_core_1 ==
  [xrAcquireSwapchainImage |-> Handling(<<Val("swapchain"), Ptr("acquireInfo"), Ptr("index")>>,
        <<Ptr("index")>>, <<Ptr("acquireInfo"), Ptr("index")>>),
   xrApplyHapticFeedback |-> Handling(<<Val("session"), Ptr("hapticActionInfo"),
        Xr("hapticFeedback")>>, <<>>, <<Ptr("hapticActionInfo"), Xr("hapticFeedback")>>),
   xrAttachSessionActionSets |-> Handling(<<Val("session"), Ptr("attachInfo")>>, <<>>,
        <<Ptr("attachInfo")>>),
   xrBeginFrame |-> Handling(<<Val("session"), Ptr("frameBeginInfo")>>, <<>>,
        <<Ptr("frameBeginInfo")>>),
   xrBeginSession |-> Handling(<<Val("session"), Ptr("beginInfo")>>, <<>>,
        <<Ptr("beginInfo")>>),
   xrCreateAction |-> Handling(<<Val("actionSet"), Ptr("createInfo"), Ptr("action")>>,
        <<Ptr("action")>>, <<Ptr("createInfo"), Ptr("action")>>)]

Server_core_2 ==
  [xrCreateActionSet |-> Handling(<<Val("instance"), Ptr("createInfo"), Ptr("actionSet")>>,
        <<Ptr("actionSet")>>, <<Ptr("createInfo"), Ptr("actionSet")>>),
   xrCreateActionSpace |-> Handling(<<Val("session"), Ptr("createInfo"), Ptr("space")>>,
        <<Ptr("space")>>, <<Ptr("createInfo"), Ptr("space")>>),
   xrCreateInstance |-> create_instance_handler,
   xrCreateReferenceSpace |-> Handling(<<Val("session"), Ptr("createInfo"), Ptr("space")>>,
        <<Ptr("space")>>, <<Ptr("createInfo"), Ptr("space")>>),
   xrCreateSession |-> Handling(<<Val("instance"), Ptr("createInfo"), Ptr("session")>>,
        <<Ptr("session")>>, <<Ptr("createInfo"), Ptr("session")>>),
   xrCreateSwapchain |-> Handling(<<Val("session"), Ptr("createInfo"), Ptr("swapchain")>>,
        <<Ptr("swapchain")>>, <<Ptr("createInfo"), Ptr("swapchain")>>)]

Server_core_3 ==
  [xrDestroyAction |-> Handling(<<Val("action")>>, <<>>, <<>>),
   xrDestroyActionSet |-> Handling(<<Val("actionSet")>>, <<>>, <<>>),
   xrDestroyInstance |-> destroy_instance_handler,
   xrDestroySession |-> Handling(<<Val("session")>>, <<>>, <<>>),
   xrDestroySpace |-> Handling(<<Val("space")>>, <<>>, <<>>),
   xrDestroySwapchain |-> Handling(<<Val("swapchain")>>, <<>>, <<>>),
   xrEndFrame |-> Handling(<<Val("session"), Ptr("frameEndInfo")>>, <<>>,
        <<Ptr("frameEndInfo")>>),
   xrEndSession |-> Handling(<<Val("session")>>, <<>>, <<>>)]

Server_core_4 ==
  [xrEnumerateApiLayerProperties |-> Handling(<<Val("propertyCapacityInput"),
        Ptr("propertyCountOutput"), Ptr("properties")>>, <<Ptr("propertyCountOutput"),
        PtrN("properties", "propertyCapacityInput")>>, <<Ptr("propertyCountOutput"),
        Ptr("properties")>>),
   xrEnumerateBoundSourcesForAction |-> Handling(<<Val("session"), Ptr("enumerateInfo"),
        Val("sourceCapacityInput"), Ptr("sourceCountOutput"), Ptr("sources")>>,
        <<Ptr("sourceCountOutput"), PtrN("sources", "sourceCapacityInput")>>,
        <<Ptr("enumerateInfo"), Ptr("sourceCountOutput"), Ptr("sources")>>),
   xrEnumerateEnvironmentBlendModes |-> Handling(<<Val("instance"), Val("systemId"),
        Val("viewConfigurationType"), Val("environmentBlendModeCapacityInput"),
        Ptr("environmentBlendModeCountOutput"), Ptr("environmentBlendModes")>>,
        <<Ptr("environmentBlendModeCountOutput"), PtrN("environmentBlendModes",
        "environmentBlendModeCapacityInput")>>, <<Ptr("environmentBlendModeCountOutput"),
        Ptr("environmentBlendModes")>>),
   xrEnumerateInstanceExtensionProperties |-> Handling(<<Ptr("layerName"),
        Val("propertyCapacityInput"), Ptr("propertyCountOutput"), Ptr("properties")>>,
        <<Ptr("propertyCountOutput"), PtrN("properties", "propertyCapacityInput")>>,
        <<Ptr("layerName"), Ptr("propertyCountOutput"), Ptr("properties")>>)]

Server_core_5 ==
  [xrEnumerateReferenceSpaces |-> Handling(<<Val("session"), Val("spaceCapacityInput"),
        Ptr("spaceCountOutput"), Ptr("spaces")>>, <<Ptr("spaceCountOutput"), PtrN("spaces",
        "spaceCapacityInput")>>, <<Ptr("spaceCountOutput"), Ptr("spaces")>>),
   xrEnumerateSwapchainFormats |-> Handling(<<Val("session"), Val("formatCapacityInput"),
        Ptr("formatCountOutput"), Ptr("formats")>>, <<Ptr("formatCountOutput"),
        PtrN("formats", "formatCapacityInput")>>, <<Ptr("formatCountOutput"),
        Ptr("formats")>>),
   xrEnumerateSwapchainImages |-> Handling(<<Val("swapchain"), Val("imageCapacityInput"),
        Ptr("imageCountOutput"), XrArrIn("images")>>, <<Ptr("imageCountOutput"),
        XrArr("images", "imageCapacityInput")>>, <<Ptr("imageCountOutput"),
        XrArrIn("images")>>),
   xrEnumerateViewConfigurationViews |-> Handling(<<Val("instance"), Val("systemId"),
        Val("viewConfigurationType"), Val("viewCapacityInput"), Ptr("viewCountOutput"),
        Ptr("views")>>, <<Ptr("viewCountOutput"), PtrN("views", "viewCapacityInput")>>,
        <<Ptr("viewCountOutput"), Ptr("views")>>)]

Server_core_6 ==
  [xrEnumerateViewConfigurations |-> Handling(<<Val("instance"), Val("systemId"),
        Val("viewConfigurationTypeCapacityInput"), Ptr("viewConfigurationTypeCountOutput"),
        Ptr("viewConfigurationTypes")>>, <<Ptr("viewConfigurationTypeCountOutput"),
        PtrN("viewConfigurationTypes", "viewConfigurationTypeCapacityInput")>>,
        <<Ptr("viewConfigurationTypeCountOutput"), Ptr("viewConfigurationTypes")>>),
   xrGetActionStateBoolean |-> Handling(<<Val("session"), Ptr("getInfo"), Ptr("state")>>,
        <<Ptr("state")>>, <<Ptr("getInfo"), Ptr("state")>>),
   xrGetActionStateFloat |-> Handling(<<Val("session"), Ptr("getInfo"), Ptr("state")>>,
        <<Ptr("state")>>, <<Ptr("getInfo"), Ptr("state")>>),
   xrGetActionStatePose |-> Handling(<<Val("session"), Ptr("getInfo"), Ptr("state")>>,
        <<Ptr("state")>>, <<Ptr("getInfo"), Ptr("state")>>),
   xrGetActionStateVector2f |-> Handling(<<Val("session"), Ptr("getInfo"), Ptr("state")>>,
        <<Ptr("state")>>, <<Ptr("getInfo"), Ptr("state")>>)]

Server_core_7 ==
  [xrGetCurrentInteractionProfile |-> Handling(<<Val("session"), Val("topLevelUserPath"),
        Ptr("interactionProfile")>>, <<Ptr("interactionProfile")>>,
        <<Ptr("interactionProfile")>>),
   xrGetInputSourceLocalizedName |-> Handling(<<Val("session"), Ptr("getInfo"),
        Val("bufferCapacityInput"), Ptr("bufferCountOutput"), Ptr("buffer")>>,
        <<Ptr("bufferCountOutput"), PtrN("buffer", "bufferCapacityInput")>>,
        <<Ptr("getInfo"), Ptr("bufferCountOutput"), Ptr("buffer")>>),
   xrGetInstanceProperties |-> Handling(<<Val("instance"), Ptr("instanceProperties")>>,
        <<Ptr("instanceProperties")>>, <<Ptr("instanceProperties")>>),
   xrGetReferenceSpaceBoundsRect |-> Handling(<<Val("session"), Val("referenceSpaceType"),
        Ptr("bounds")>>, <<Ptr("bounds")>>, <<Ptr("bounds")>>),
   xrGetSystem |-> Handling(<<Val("instance"), Ptr("getInfo"), Ptr("systemId")>>,
        <<Ptr("systemId")>>, <<Ptr("getInfo"), Ptr("systemId")>>)]

Server_core_8 ==
  [xrGetSystemProperties |-> Handling(<<Val("instance"), Val("systemId"), Ptr("properties")>>,
        <<Ptr("properties")>>, <<Ptr("properties")>>),
   xrGetViewConfigurationProperties |-> Handling(<<Val("instance"), Val("systemId"),
        Val("viewConfigurationType"), Ptr("configurationProperties")>>,
        <<Ptr("configurationProperties")>>, <<Ptr("configurationProperties")>>),
   xrLocateSpace |-> Handling(<<Val("space"), Val("baseSpace"), Time("time"),
        Ptr("location")>>, <<Ptr("location")>>, <<Ptr("location")>>),
   xrLocateSpaces |-> Handling(<<Val("session"), Ptr("locateInfo"), Ptr("spaceLocations")>>,
        <<Ptr("spaceLocations")>>, <<Ptr("locateInfo"), Ptr("spaceLocations")>>)]

Server_core_9 ==
  [xrLocateViews |-> Handling(<<Val("session"), Ptr("viewLocateInfo"), Ptr("viewState"),
        Val("viewCapacityInput"), Ptr("viewCountOutput"), Ptr("views")>>,
        <<Ptr("viewState"), Ptr("viewCountOutput"), PtrN("views", "viewCapacityInput")>>,
        <<Ptr("viewLocateInfo"), Ptr("viewState"), Ptr("viewCountOutput"), Ptr("views")>>),
   xrPathToString |-> Handling(<<Val("instance"), Val("path"), Val("bufferCapacityInput"),
        Ptr("bufferCountOutput"), Ptr("buffer")>>, <<Ptr("bufferCountOutput"),
        PtrN("buffer", "bufferCapacityInput")>>, <<Ptr("bufferCountOutput"),
        Ptr("buffer")>>),
   xrPollEvent |-> Handling(<<Val("instance"), Ptr("eventData")>>, <<Ptr("eventData")>>,
        <<Ptr("eventData")>>),
   xrReleaseSwapchainImage |-> Handling(<<Val("swapchain"), Ptr("releaseInfo")>>, <<>>,
        <<Ptr("releaseInfo")>>),
   xrRequestExitSession |-> Handling(<<Val("session")>>, <<>>, <<>>)]

Server_core_10 ==
  [xrResultToString |-> Handling(<<Val("instance"), Val("value"), Arr("buffer")>>,
        <<PtrN("buffer", "XR_MAX_RESULT_STRING_SIZE")>>, <<>>),
   xrStopHapticFeedback |-> Handling(<<Val("session"), Ptr("hapticActionInfo")>>, <<>>,
        <<Ptr("hapticActionInfo")>>),
   xrStringToPath |-> Handling(<<Val("instance"), Ptr("pathString"), Ptr("path")>>,
        <<Ptr("path")>>, <<Ptr("pathString"), Ptr("path")>>),
   xrStructureTypeToString |-> Handling(<<Val("instance"), Val("value"), Arr("buffer")>>,
        <<PtrN("buffer", "XR_MAX_STRUCTURE_NAME_SIZE")>>, <<>>),
   xrSuggestInteractionProfileBindings |-> Handling(<<Val("instance"),
        Ptr("suggestedBindings")>>, <<>>, <<Ptr("suggestedBindings")>>),
   xrSyncActions |-> Handling(<<Val("session"), Ptr("syncInfo")>>, <<>>, <<Ptr("syncInfo")>>)]

Server_core_11 ==
  [xrWaitFrame |-> Handling(<<Val("session"), Ptr("frameWaitInfo"), Ptr("frameState")>>,
        <<Ptr("frameState")>>, <<Ptr("frameWaitInfo"), Ptr("frameState")>>),
   xrWaitSwapchainImage |-> Handling(<<Val("swapchain"), Ptr("waitInfo")>>, <<>>,
        <<Ptr("waitInfo")>>)]

-----------------------------------------------------------------------------
\* FunctionDispatch::handlers, pairs of a function id and its handler.
Handlers_1 ==
  {<<197001, "xrSetDigitalLensControlALMALENCE">>, <<386001, "xrCreateBodyTrackerBD">>,
   <<386002, "xrDestroyBodyTrackerBD">>, <<386003, "xrLocateBodyJointsBD">>,
   <<391001, "xrCreateSpatialAnchorAsyncBD">>,
   <<391002, "xrCreateSpatialAnchorCompleteBD">>,
   <<391003, "xrPersistSpatialAnchorAsyncBD">>,
   <<391004, "xrPersistSpatialAnchorCompleteBD">>,
   <<391005, "xrUnpersistSpatialAnchorAsyncBD">>,
   <<391006, "xrUnpersistSpatialAnchorCompleteBD">>,
   <<392001, "xrDownloadSharedSpatialAnchorAsyncBD">>,
   <<392002, "xrDownloadSharedSpatialAnchorCompleteBD">>,
   <<392003, "xrShareSpatialAnchorAsyncBD">>, <<392004, "xrShareSpatialAnchorCompleteBD">>,
   <<393001, "xrCaptureSceneAsyncBD">>, <<393002, "xrCaptureSceneCompleteBD">>,
   <<390001, "xrCreateAnchorSpaceBD">>, <<390002, "xrCreateSenseDataProviderBD">>,
   <<390003, "xrCreateSpatialEntityAnchorBD">>, <<390004, "xrDestroyAnchorBD">>,
   <<390005, "xrDestroySenseDataProviderBD">>, <<390006, "xrDestroySenseDataSnapshotBD">>,
   <<390007, "xrEnumerateSpatialEntityComponentTypesBD">>, <<390008, "xrGetAnchorUuidBD">>,
   <<390009, "xrGetQueriedSenseDataBD">>, <<390010, "xrGetSenseDataProviderStateBD">>,
   <<390011, "xrGetSpatialEntityComponentDataBD">>, <<390012, "xrGetSpatialEntityUuidBD">>,
   <<390013, "xrQuerySenseDataAsyncBD">>, <<390014, "xrQuerySenseDataCompleteBD">>,
   <<390015, "xrStartSenseDataProviderAsyncBD">>,
   <<390016, "xrStartSenseDataProviderCompleteBD">>,
   <<390017, "xrStopSenseDataProviderBD">>, <<48001, "xrSetInputDeviceActiveEXT">>,
   <<48002, "xrSetInputDeviceLocationEXT">>, <<48003, "xrSetInputDeviceStateBoolEXT">>,
   <<48004, "xrSetInputDeviceStateFloatEXT">>,
   <<48005, "xrSetInputDeviceStateVector2fEXT">>,
   <<20001, "xrCreateDebugUtilsMessengerEXT">>,
   <<20002, "xrDestroyDebugUtilsMessengerEXT">>,
   <<20003, "xrSessionBeginDebugUtilsLabelRegionEXT">>,
   <<20004, "xrSessionEndDebugUtilsLabelRegionEXT">>,
   <<20005, "xrSessionInsertDebugUtilsLabelEXT">>,
   <<20006, "xrSetDebugUtilsObjectNameEXT">>, <<20007, "xrSubmitDebugUtilsMessageEXT">>,
   <<470001, "xrCancelFutureEXT">>, <<470002, "xrPollFutureEXT">>,
   <<52001, "xrCreateHandTrackerEXT">>, <<52002, "xrDestroyHandTrackerEXT">>,
   <<52003, "xrLocateHandJointsEXT">>, <<16001, "xrPerfSettingsSetPerformanceLevelEXT">>,
   <<430001, "xrBeginPlaneDetectionEXT">>, <<430002, "xrCreatePlaneDetectorEXT">>,
   <<430003, "xrDestroyPlaneDetectorEXT">>, <<430004, "xrGetPlaneDetectionStateEXT">>,
   <<430005, "xrGetPlaneDetectionsEXT">>, <<430006, "xrGetPlanePolygonBufferEXT">>,
   <<17001, "xrThermalGetTemperatureTrendEXT">>, <<77001, "xrCreateBodyTrackerFB">>,
   <<77002, "xrDestroyBodyTrackerFB">>, <<77003, "xrGetBodySkeletonFB">>,
   <<77004, "xrLocateBodyJointsFB">>, <<109001, "xrEnumerateColorSpacesFB">>,
   <<109002, "xrSetColorSpaceFB">>, <<102001, "xrEnumerateDisplayRefreshRatesFB">>,
   <<102002, "xrGetDisplayRefreshRateFB">>, <<102003, "xrRequestDisplayRefreshRateFB">>,
   <<203001, "xrCreateEyeTrackerFB">>, <<203002, "xrDestroyEyeTrackerFB">>,
   <<203003, "xrGetEyeGazesFB">>, <<202001, "xrCreateFaceTrackerFB">>,
   <<202002, "xrDestroyFaceTrackerFB">>, <<202003, "xrGetFaceExpressionWeightsFB">>,
   <<288001, "xrCreateFaceTracker2FB">>, <<288002, "xrDestroyFaceTracker2FB">>,
   <<288003, "xrGetFaceExpressionWeights2FB">>, <<115001, "xrCreateFoveationProfileFB">>,
   <<115002, "xrDestroyFoveationProfileFB">>, <<111001, "xrGetHandMeshFB">>,
   <<210001, "xrGetDeviceSampleRateFB">>, <<117001, "xrCreateKeyboardSpaceFB">>,
   <<117002, "xrQuerySystemTrackedKeyboardFB">>, <<119001, "xrCreateGeometryInstanceFB">>,
   <<119002, "xrCreatePassthroughFB">>, <<119003, "xrCreatePassthroughLayerFB">>,
   <<119004, "xrDestroyGeometryInstanceFB">>, <<119005, "xrDestroyPassthroughFB">>,
   <<119006, "xrDestroyPassthroughLayerFB">>,
   <<119007, "xrGeometryInstanceSetTransformFB">>, <<119008, "xrPassthroughLayerPauseFB">>,
   <<119009, "xrPassthroughLayerResumeFB">>, <<119010, "xrPassthroughLayerSetStyleFB">>,
   <<119011, "xrPassthroughPauseFB">>, <<119012, "xrPassthroughStartFB">>,
   <<204001, "xrPassthroughLayerSetKeyboardHandsIntensityFB">>,
   <<120001, "xrEnumerateRenderModelPathsFB">>, <<120002, "xrGetRenderModelPropertiesFB">>,
   <<120003, "xrLoadRenderModelFB">>}

Handlers_2 ==
  {<<176001, "xrGetSpaceBoundary2DFB">>, <<176002, "xrGetSpaceBoundingBox2DFB">>,
   <<176003, "xrGetSpaceBoundingBox3DFB">>, <<176004, "xrGetSpaceRoomLayoutFB">>,
   <<176005, "xrGetSpaceSemanticLabelsFB">>, <<199001, "xrRequestSceneCaptureFB">>,
   <<114001, "xrCreateSpatialAnchorFB">>,
   <<114002, "xrEnumerateSpaceSupportedComponentsFB">>,
   <<114003, "xrGetSpaceComponentStatusFB">>, <<114004, "xrGetSpaceUuidFB">>,
   <<114005, "xrSetSpaceComponentStatusFB">>, <<200001, "xrGetSpaceContainerFB">>,
   <<157001, "xrQuerySpacesFB">>, <<157002, "xrRetrieveSpaceQueryResultsFB">>,
   <<170001, "xrShareSpacesFB">>, <<159001, "xrEraseSpaceFB">>, <<159002, "xrSaveSpaceFB">>,
   <<239001, "xrSaveSpaceListFB">>, <<242001, "xrCreateSpaceUserFB">>,
   <<242002, "xrDestroySpaceUserFB">>, <<242003, "xrGetSpaceUserIdFB">>,
   <<72001, "xrGetSwapchainStateFB">>, <<72002, "xrUpdateSwapchainFB">>,
   <<118001, "xrCreateTriangleMeshFB">>, <<118002, "xrDestroyTriangleMeshFB">>,
   <<118003, "xrTriangleMeshBeginUpdateFB">>,
   <<118004, "xrTriangleMeshBeginVertexBufferUpdateFB">>,
   <<118005, "xrTriangleMeshEndUpdateFB">>,
   <<118006, "xrTriangleMeshEndVertexBufferUpdateFB">>,
   <<118007, "xrTriangleMeshGetIndexBufferFB">>,
   <<118008, "xrTriangleMeshGetVertexBufferFB">>,
   <<104001, "xrEnumerateViveTrackerPathsHTCX">>, <<320001, "xrCreateSpatialAnchorHTC">>,
   <<320002, "xrGetSpatialAnchorNameHTC">>, <<321001, "xrCreateBodyTrackerHTC">>,
   <<321002, "xrDestroyBodyTrackerHTC">>, <<321003, "xrGetBodySkeletonHTC">>,
   <<321004, "xrLocateBodyJointsHTC">>, <<105001, "xrCreateFacialTrackerHTC">>,
   <<105002, "xrDestroyFacialTrackerHTC">>, <<105003, "xrGetFacialExpressionsHTC">>,
   <<319001, "xrApplyFoveationHTC">>, <<318001, "xrCreatePassthroughHTC">>,
   <<318002, "xrDestroyPassthroughHTC">>, <<28001, "xrGetD3D11GraphicsRequirementsKHR">>,
   <<29001, "xrGetD3D12GraphicsRequirementsKHR">>,
   <<5001, "xrCreateSwapchainAndroidSurfaceKHR">>,
   <<4001, "xrSetAndroidApplicationThreadKHR">>,
   <<37001, "xrConvertTimeToTimespecTimeKHR">>, <<37002, "xrConvertTimespecTimeToTimeKHR">>,
   <<149001, "xrStructureTypeToString2KHR">>, <<89001, "xrInitializeLoaderKHR">>,
   <<30001, "xrGetMetalGraphicsRequirementsKHR">>,
   <<24001, "xrGetOpenGLGraphicsRequirementsKHR">>,
   <<25001, "xrGetOpenGLESGraphicsRequirementsKHR">>, <<32001, "xrGetVisibilityMaskKHR">>,
   <<26001, "xrGetVulkanDeviceExtensionsKHR">>, <<26002, "xrGetVulkanGraphicsDeviceKHR">>,
   <<26003, "xrGetVulkanGraphicsRequirementsKHR">>,
   <<26004, "xrGetVulkanInstanceExtensionsKHR">>, <<91001, "xrCreateVulkanDeviceKHR">>,
   <<91002, "xrCreateVulkanInstanceKHR">>, <<91003, "xrGetVulkanGraphicsDevice2KHR">>,
   <<36001, "xrConvertTimeToWin32PerformanceCounterKHR">>,
   <<36002, "xrConvertWin32PerformanceCounterToTimeKHR">>,
   <<572001, "xrStartColocationAdvertisementMETA">>,
   <<572002, "xrStartColocationDiscoveryMETA">>,
   <<572003, "xrStopColocationAdvertisementMETA">>,
   <<572004, "xrStopColocationDiscoveryMETA">>,
   <<292001, "xrAcquireEnvironmentDepthImageMETA">>,
   <<292002, "xrCreateEnvironmentDepthProviderMETA">>,
   <<292003, "xrCreateEnvironmentDepthSwapchainMETA">>,
   <<292004, "xrDestroyEnvironmentDepthProviderMETA">>,
   <<292005, "xrDestroyEnvironmentDepthSwapchainMETA">>,
   <<292006, "xrEnumerateEnvironmentDepthSwapchainImagesMETA">>,
   <<292007, "xrGetEnvironmentDepthSwapchainStateMETA">>,
   <<292008, "xrSetEnvironmentDepthHandRemovalMETA">>,
   <<292009, "xrStartEnvironmentDepthProviderMETA">>,
   <<292010, "xrStopEnvironmentDepthProviderMETA">>,
   <<201001, "xrGetFoveationEyeTrackedStateMETA">>,
   <<267001, "xrCreatePassthroughColorLutMETA">>,
   <<267002, "xrDestroyPassthroughColorLutMETA">>}

Handlers_3 ==
  {<<267003, "xrUpdatePassthroughColorLutMETA">>,
   <<218001, "xrGetPassthroughPreferencesMETA">>,
   <<233001, "xrEnumeratePerformanceMetricsCounterPathsMETA">>,
   <<233002, "xrGetPerformanceMetricsStateMETA">>,
   <<233003, "xrQueryPerformanceMetricsCounterMETA">>,
   <<233004, "xrSetPerformanceMetricsStateMETA">>,
   <<255001, "xrGetRecommendedLayerResolutionMETA">>,
   <<533001, "xrPauseSimultaneousHandsAndControllersTrackingMETA">>,
   <<533002, "xrResumeSimultaneousHandsAndControllersTrackingMETA">>,
   <<270001, "xrGetSpaceTriangleMeshMETA">>, <<291001, "xrShareSpacesMETA">>,
   <<220001, "xrChangeVirtualKeyboardTextContextMETA">>,
   <<220002, "xrCreateVirtualKeyboardMETA">>,
   <<220003, "xrCreateVirtualKeyboardSpaceMETA">>,
   <<220004, "xrDestroyVirtualKeyboardMETA">>,
   <<220005, "xrGetVirtualKeyboardDirtyTexturesMETA">>,
   <<220006, "xrGetVirtualKeyboardModelAnimationStatesMETA">>,
   <<220007, "xrGetVirtualKeyboardScaleMETA">>,
   <<220008, "xrGetVirtualKeyboardTextureDataMETA">>,
   <<220009, "xrSendVirtualKeyboardInputMETA">>,
   <<220010, "xrSetVirtualKeyboardModelVisibilityMETA">>,
   <<220011, "xrSuggestVirtualKeyboardLocationMETA">>,
   <<138001, "xrCreateSpaceFromCoordinateFrameUIDML">>,
   <<483001, "xrCreateFacialExpressionClientML">>,
   <<483002, "xrDestroyFacialExpressionClientML">>,
   <<483003, "xrGetFacialExpressionBlendShapePropertiesML">>,
   <<140001, "xrCreateExportedLocalizationMapML">>,
   <<140002, "xrDestroyExportedLocalizationMapML">>,
   <<140003, "xrEnableLocalizationEventsML">>,
   <<140004, "xrGetExportedLocalizationMapDataML">>,
   <<140005, "xrImportLocalizationMapML">>, <<140006, "xrQueryLocalizationMapsML">>,
   <<140007, "xrRequestMapLocalizationML">>, <<139001, "xrCreateMarkerDetectorML">>,
   <<139002, "xrCreateMarkerSpaceML">>, <<139003, "xrDestroyMarkerDetectorML">>,
   <<139004, "xrGetMarkerDetectorStateML">>, <<139005, "xrGetMarkerLengthML">>,
   <<139006, "xrGetMarkerNumberML">>, <<139007, "xrGetMarkerReprojectionErrorML">>,
   <<139008, "xrGetMarkerStringML">>, <<139009, "xrGetMarkersML">>,
   <<139010, "xrSnapshotMarkerDetectorML">>, <<141001, "xrCreateSpatialAnchorsAsyncML">>,
   <<141002, "xrCreateSpatialAnchorsCompleteML">>, <<141003, "xrGetSpatialAnchorStateML">>,
   <<142001, "xrCreateSpatialAnchorsStorageML">>,
   <<142002, "xrDeleteSpatialAnchorsAsyncML">>,
   <<142003, "xrDeleteSpatialAnchorsCompleteML">>,
   <<142004, "xrDestroySpatialAnchorsStorageML">>,
   <<142005, "xrPublishSpatialAnchorsAsyncML">>,
   <<142006, "xrPublishSpatialAnchorsCompleteML">>,
   <<142007, "xrQuerySpatialAnchorsAsyncML">>,
   <<142008, "xrQuerySpatialAnchorsCompleteML">>,
   <<142009, "xrUpdateSpatialAnchorsExpirationAsyncML">>,
   <<142010, "xrUpdateSpatialAnchorsExpirationCompleteML">>,
   <<474001, "xrSetSystemNotificationsML">>, <<473001, "xrEnableUserCalibrationEventsML">>,
   <<475001, "xrAllocateWorldMeshBufferML">>, <<475002, "xrCreateWorldMeshDetectorML">>,
   <<475003, "xrDestroyWorldMeshDetectorML">>, <<475004, "xrFreeWorldMeshBufferML">>,
   <<475005, "xrGetWorldMeshBufferRecommendSizeML">>,
   <<475006, "xrRequestWorldMeshAsyncML">>, <<475007, "xrRequestWorldMeshCompleteML">>,
   <<475008, "xrRequestWorldMeshStateAsyncML">>,
   <<475009, "xrRequestWorldMeshStateCompleteML">>,
   <<376001, "xrApplyForceFeedbackCurlMNDX">>,
   <<67001, "xrEnumerateReprojectionModesMSFT">>, <<56001, "xrGetControllerModelKeyMSFT">>,
   <<56002, "xrGetControllerModelPropertiesMSFT">>,
   <<56003, "xrGetControllerModelStateMSFT">>, <<56004, "xrLoadControllerModelMSFT">>,
   <<53001, "xrCreateHandMeshSpaceMSFT">>, <<53002, "xrUpdateHandMeshMSFT">>,
   <<57001, "xrCreateSpatialAnchorFromPerceptionAnchorMSFT">>,
   <<57002, "xrTryGetPerceptionAnchorFromSpatialAnchorMSFT">>,
   <<148001, "xrGetSceneMarkerDecodedStringMSFT">>,
   <<148002, "xrGetSceneMarkerRawDataMSFT">>, <<98001, "xrComputeNewSceneMSFT">>,
   <<98002, "xrCreateSceneMSFT">>, <<98003, "xrCreateSceneObserverMSFT">>,
   <<98004, "xrDestroySceneMSFT">>, <<98005, "xrDestroySceneObserverMSFT">>,
   <<98006, "xrEnumerateSceneComputeFeaturesMSFT">>, <<98007, "xrGetSceneComponentsMSFT">>,
   <<98008, "xrGetSceneComputeStateMSFT">>, <<98009, "xrGetSceneMeshBuffersMSFT">>,
   <<98010, "xrLocateSceneComponentsMSFT">>, <<99001, "xrDeserializeSceneMSFT">>,
   <<99002, "xrGetSerializedSceneFragmentDataMSFT">>,
   <<40001, "xrCreateSpatialAnchorMSFT">>, <<40002, "xrCreateSpatialAnchorSpaceMSFT">>,
   <<40003, "xrDestroySpatialAnchorMSFT">>, <<143001, "xrClearSpatialAnchorStoreMSFT">>,
   <<143002, "xrCreateSpatialAnchorFromPersistedNameMSFT">>,
   <<143003, "xrCreateSpatialAnchorStoreConnectionMSFT">>,
   <<143004, "xrDestroySpatialAnchorStoreConnectionMSFT">>}

Handlers_4 ==
  {<<143005, "xrEnumeratePersistedSpatialAnchorNamesMSFT">>,
   <<143006, "xrPersistSpatialAnchorMSFT">>, <<143007, "xrUnpersistSpatialAnchorMSFT">>,
   <<50001, "xrCreateSpatialGraphNodeSpaceMSFT">>,
   <<50002, "xrDestroySpatialGraphNodeBindingMSFT">>,
   <<50003, "xrGetSpatialGraphNodeBindingPropertiesMSFT">>,
   <<50004, "xrTryCreateSpatialGraphStaticNodeBindingMSFT">>,
   <<160001, "xrGetAudioInputDeviceGuidOculus">>,
   <<160002, "xrGetAudioOutputDeviceGuidOculus">>,
   <<227001, "xrEnumerateExternalCamerasOCULUS">>,
   <<307001, "xrSetTrackingOptimizationSettingsHintQCOM">>,
   <<124001, "xrSetEnvironmentDepthEstimationVARJO">>,
   <<125001, "xrCreateMarkerSpaceVARJO">>, <<125002, "xrGetMarkerSizeVARJO">>,
   <<125003, "xrSetMarkerTrackingPredictionVARJO">>,
   <<125004, "xrSetMarkerTrackingTimeoutVARJO">>, <<125005, "xrSetMarkerTrackingVARJO">>,
   <<126001, "xrSetViewOffsetVARJO">>, <<1, "xrAcquireSwapchainImage">>,
   <<2, "xrApplyHapticFeedback">>, <<3, "xrAttachSessionActionSets">>,
   <<4, "xrBeginFrame">>, <<5, "xrBeginSession">>, <<6, "xrCreateAction">>,
   <<7, "xrCreateActionSet">>, <<8, "xrCreateActionSpace">>, <<9, "xrCreateInstance">>,
   <<10, "xrCreateReferenceSpace">>, <<11, "xrCreateSession">>, <<12, "xrCreateSwapchain">>,
   <<13, "xrDestroyAction">>, <<14, "xrDestroyActionSet">>, <<15, "xrDestroyInstance">>,
   <<16, "xrDestroySession">>, <<17, "xrDestroySpace">>, <<18, "xrDestroySwapchain">>,
   <<19, "xrEndFrame">>, <<20, "xrEndSession">>, <<21, "xrEnumerateApiLayerProperties">>,
   <<22, "xrEnumerateBoundSourcesForAction">>, <<23, "xrEnumerateEnvironmentBlendModes">>,
   <<24, "xrEnumerateInstanceExtensionProperties">>, <<25, "xrEnumerateReferenceSpaces">>,
   <<26, "xrEnumerateSwapchainFormats">>, <<27, "xrEnumerateSwapchainImages">>,
   <<28, "xrEnumerateViewConfigurationViews">>, <<29, "xrEnumerateViewConfigurations">>,
   <<30, "xrGetActionStateBoolean">>, <<31, "xrGetActionStateFloat">>,
   <<32, "xrGetActionStatePose">>, <<33, "xrGetActionStateVector2f">>,
   <<34, "xrGetCurrentInteractionProfile">>, <<35, "xrGetInputSourceLocalizedName">>,
   <<36, "xrGetInstanceProperties">>, <<37, "xrGetReferenceSpaceBoundsRect">>,
   <<38, "xrGetSystem">>, <<39, "xrGetSystemProperties">>,
   <<40, "xrGetViewConfigurationProperties">>, <<41, "xrLocateSpace">>,
   <<42, "xrLocateSpaces">>, <<43, "xrLocateViews">>, <<44, "xrPathToString">>,
   <<45, "xrPollEvent">>, <<46, "xrReleaseSwapchainImage">>, <<47, "xrRequestExitSession">>,
   <<48, "xrResultToString">>, <<49, "xrStopHapticFeedback">>, <<50, "xrStringToPath">>,
   <<51, "xrStructureTypeToString">>, <<52, "xrSuggestInteractionProfileBindings">>,
   <<53, "xrSyncActions">>, <<54, "xrWaitFrame">>, <<55, "xrWaitSwapchainImage">>}

\* The handlers of every extension.
AllHandlers == Handlers_1 \cup Handlers_2 \cup Handlers_3 \cup Handlers_4

\* function_dispatch.cpp with every extension.
ServerHandlers ==
  Server_XR_ALMALENCE_digital_lens_control @@ Server_XR_BD_body_tracking @@
  Server_XR_BD_spatial_anchor_1 @@ Server_XR_BD_spatial_anchor_2 @@
  Server_XR_BD_spatial_anchor_sharing @@ Server_XR_BD_spatial_scene @@
  Server_XR_BD_spatial_sensing_1 @@ Server_XR_BD_spatial_sensing_2 @@
  Server_XR_BD_spatial_sensing_3 @@ Server_XR_BD_spatial_sensing_4 @@
  Server_XR_EXT_conformance_automation @@ Server_XR_EXT_debug_utils_1 @@
  Server_XR_EXT_debug_utils_2 @@ Server_XR_EXT_future @@ Server_XR_EXT_hand_tracking @@
  Server_XR_EXT_performance_settings @@ Server_XR_EXT_plane_detection @@
  Server_XR_EXT_thermal_query @@ Server_XR_FB_body_tracking @@ Server_XR_FB_color_space
  @@ Server_XR_FB_display_refresh_rate @@ Server_XR_FB_eye_tracking_social @@
  Server_XR_FB_face_tracking @@ Server_XR_FB_face_tracking2 @@ Server_XR_FB_foveation @@
  Server_XR_FB_hand_tracking_mesh @@ Server_XR_FB_haptic_pcm @@
  Server_XR_FB_keyboard_tracking @@ Server_XR_FB_passthrough_1 @@
  Server_XR_FB_passthrough_2 @@ Server_XR_FB_passthrough_keyboard_hands @@
  Server_XR_FB_render_model @@ Server_XR_FB_scene @@ Server_XR_FB_scene_capture @@
  Server_XR_FB_spatial_entity @@ Server_XR_FB_spatial_entity_container @@
  Server_XR_FB_spatial_entity_query @@ Server_XR_FB_spatial_entity_sharing @@
  Server_XR_FB_spatial_entity_storage @@ Server_XR_FB_spatial_entity_storage_batch @@
  Server_XR_FB_spatial_entity_user @@ Server_XR_FB_swapchain_update_state @@
  Server_XR_FB_triangle_mesh_1 @@ Server_XR_FB_triangle_mesh_2 @@
  Server_XR_HTCX_vive_tracker_interaction @@ Server_XR_HTC_anchor @@
  Server_XR_HTC_body_tracking @@ Server_XR_HTC_facial_tracking @@
  Server_XR_HTC_foveation @@ Server_XR_HTC_passthrough @@ Server_XR_KHR_D3D11_enable @@
  Server_XR_KHR_D3D12_enable @@ Server_XR_KHR_android_surface_swapchain @@
  Server_XR_KHR_android_thread_settings @@ Server_XR_KHR_convert_timespec_time @@
  Server_XR_KHR_extended_struct_name_lengths @@ Server_XR_KHR_loader_init @@
  Server_XR_KHR_metal_enable @@ Server_XR_KHR_opengl_enable @@
  Server_XR_KHR_opengl_es_enable @@ Server_XR_KHR_visibility_mask @@
  Server_XR_KHR_vulkan_enable @@ Server_XR_KHR_vulkan_enable2 @@
  Server_XR_KHR_win32_convert_performance_counter_time @@
  Server_XR_META_colocation_discovery @@ Server_XR_META_environment_depth_1 @@
  Server_XR_META_environment_depth_2 @@ Server_XR_META_foveation_eye_tracked @@
  Server_XR_META_passthrough_color_lut @@ Server_XR_META_passthrough_preferences @@
  Server_XR_META_performance_metrics @@ Server_XR_META_recommended_layer_resolution @@
  Server_XR_META_simultaneous_hands_and_controllers @@
  Server_XR_META_spatial_entity_mesh @@ Server_XR_META_spatial_entity_sharing @@
  Server_XR_META_virtual_keyboard_1 @@ Server_XR_META_virtual_keyboard_2 @@
  Server_XR_ML_compat @@ Server_XR_ML_facial_expression @@
  Server_XR_ML_localization_map_1 @@ Server_XR_ML_localization_map_2 @@
  Server_XR_ML_marker_understanding_1 @@ Server_XR_ML_marker_understanding_2 @@
  Server_XR_ML_spatial_anchors @@ Server_XR_ML_spatial_anchors_storage_1 @@
  Server_XR_ML_spatial_anchors_storage_2 @@ Server_XR_ML_system_notifications @@
  Server_XR_ML_user_calibration @@ Server_XR_ML_world_mesh_detection_1 @@
  Server_XR_ML_world_mesh_detection_2 @@ Server_XR_MNDX_force_feedback_curl @@
  Server_XR_MSFT_composition_layer_reprojection @@ Server_XR_MSFT_controller_model @@
  Server_XR_MSFT_hand_tracking_mesh @@ Server_XR_MSFT_perception_anchor_interop @@
  Server_XR_MSFT_scene_marker @@ Server_XR_MSFT_scene_understanding_1 @@
  Server_XR_MSFT_scene_understanding_2 @@
  Server_XR_MSFT_scene_understanding_serialization @@ Server_XR_MSFT_spatial_anchor @@
  Server_XR_MSFT_spatial_anchor_persistence_1 @@
  Server_XR_MSFT_spatial_anchor_persistence_2 @@ Server_XR_MSFT_spatial_graph_bridge @@
  Server_XR_OCULUS_audio_device_guid @@ Server_XR_OCULUS_external_camera @@
  Server_XR_QCOM_tracking_optimization_settings @@
  Server_XR_VARJO_environment_depth_estimation @@ Server_XR_VARJO_marker_tracking @@
  Server_XR_VARJO_view_offset @@ Server_core_1 @@ Server_core_2 @@ Server_core_3 @@
  Server_core_4 @@ Server_core_5 @@ Server_core_6 @@ Server_core_7 @@ Server_core_8 @@
  Server_core_9 @@ Server_core_10 @@ Server_core_11
=============================================================================
